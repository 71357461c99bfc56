------------------------ MODULE MergeSchedulerProofs ------------------------
(***************************************************************************)
(* The inductive invariant of MergeScheduler: whoever closes the writer    *)
(* finds, and leaves, no merge behind; and update_merge_threads pauses the *)
(* right merges, for any sizes and limits.                                 *)
(***************************************************************************)
EXTENDS MergeScheduler, FiniteSetTheorems, TLAPS

Control == {"idle", "none", "merge", "check", "next", "force", "forceWait", "shouldClose",
            "flush", "closeWait", "abort", "aborting", "sync", "syncWait", "close", "run",
            "failed", "clean", "end"}

TypeOK ==
  /\ pc \in [Actors -> Control]
  /\ then \in [Producers -> {"return", "force", "flush", "close", "rollback", "deleteAll"}]
  /\ threads \in SUBSET Merges /\ pending \in Seq(Merges) /\ registered \in Nat
  /\ enabled \in BOOLEAN /\ closing \in BOOLEAN /\ closed \in BOOLEAN /\ load \in Loads

(* What kind of call may be where, for application threads.                *)
CallInv(p) ==
  /\ pc[p] \in {"merge", "check", "next"} => then[p] \in {"return", "force", "flush", "close"}
  /\ pc[p] \in {"force", "forceWait"} => then[p] = "force"
  /\ pc[p] = "shouldClose" => then[p] \in {"flush", "rollback"}
  /\ pc[p] \in {"flush", "closeWait"} => then[p] \in {"flush", "close"}
  /\ pc[p] \in {"abort", "aborting"} => then[p] \in {"flush", "close", "rollback", "deleteAll"}
  /\ pc[p] \in {"sync", "syncWait", "close"} => then[p] \in {"flush", "close", "rollback"}

(* The thread a has begun to close the writer.                             *)
Closer(a) ==
  \/ /\ a \in Producers /\ then[a] \in {"flush", "close", "rollback"}
     /\ pc[a] \notin {"idle", "shouldClose"}
  \/ a \in Merges /\ pc[a] \in {"abort", "aborting", "sync", "syncWait", "close"}

(* What it has achieved so far stays so, whatever the others do.           *)
CloseInv(a) ==
  Closer(a) =>
    /\ closing \/ closed
    /\ pc[a] \in {"aborting", "sync", "syncWait", "close"} => ~enabled /\ pending = <<>>
    /\ pc[a] \in {"sync", "syncWait", "close"} => running = {}
    /\ pc[a] = "close" => threads \subseteq {a}

(* A merge has a thread from its start to the end of that thread.          *)
AliveInv(m) == m \in threads <=> pc[m] \notin {"none", "end"}

(* In a closed writer merge threads have their last step left.             *)
ClosedInv ==
  closed => /\ ~enabled /\ pending = <<>> /\ running = {}
            /\ \A m \in threads : pc[m] = "clean"

(***************************************************************************)
(* Who is paused.                                                          *)
(***************************************************************************)
(* The merges that update_merge_threads pauses among ts.                   *)
Paused(ts) ==
  {m \in ts : Cardinality(Before(ts, m)) + load.threads < Cardinality(Big(ts))}

(* The position of m in the order of the sort.                             *)
Rank(ts, m) == Cardinality(Before(ts, m))

LoadOK ==
  /\ load.threads \in Nat /\ MinBig \in Nat /\ IsFiniteSet(Merges)
  /\ \A m \in Merges : m \in Nat /\ load.size[m] \in Nat

(* The limits and sizes are what the constants allow.                      *)
LEMMA LoadFacts ==
  ASSUME load \in Loads
  PROVE  LoadOK
<1>1. IsFiniteSet(Merges) /\ Merges \subseteq Nat
  BY MergeAssumption, FS_Interval DEF Merges
<1> QED BY <1>1, MergeAssumption DEF LoadOK

(* Sets of merges are finite.                                              *)
LEMMA SetsFinite ==
  ASSUME LoadOK, NEW ts \in SUBSET Merges
  PROVE  /\ IsFiniteSet(ts) /\ IsFiniteSet(Big(ts))
         /\ \A m : IsFiniteSet(Before(ts, m)) /\ Rank(ts, m) \in Nat
         /\ Cardinality(Big(ts)) \in Nat
<1>1. IsFiniteSet(ts)
  BY FS_Subset, Zenon DEF LoadOK
<1>2. Big(ts) \in SUBSET ts /\ \A m : Before(ts, m) \in SUBSET ts
  BY Zenon DEF Big, Before
<1>3. IsFiniteSet(Big(ts)) /\ \A m : IsFiniteSet(Before(ts, m))
  BY <1>1, <1>2, FS_Subset, Zenon
<1> QED BY <1>1, <1>3, FS_CardinalityType, Zenon DEF Rank

(* A merge that sorts before another has the smaller rank.                 *)
LEMMA RankGrows ==
  ASSUME LoadOK, NEW ts \in SUBSET Merges, NEW m \in ts, NEW n \in Before(ts, m)
  PROVE  Rank(ts, n) < Rank(ts, m)
<1>1. \A k \in ts : k \in Nat /\ load.size[k] \in Nat
  BY Zenon DEF LoadOK
<1>2. n \in ts /\ n \notin Before(ts, n)
  BY <1>1 DEF Before
<1>3. \A k \in Before(ts, n) : k \in Before(ts, m)
  BY <1>1, <1>2 DEF Before
<1>4. Before(ts, n) \cup {n} \in SUBSET Before(ts, m)
  BY <1>3, Zenon
<1>5. IsFiniteSet(Before(ts, n)) /\ IsFiniteSet(Before(ts, m))
  BY SetsFinite, Zenon
<1>6. Cardinality(Before(ts, n) \cup {n}) = Cardinality(Before(ts, n)) + 1
  BY <1>2, <1>5, FS_AddElement, Zenon
<1>7. Cardinality(Before(ts, n) \cup {n}) <= Cardinality(Before(ts, m))
  BY <1>4, <1>5, FS_Subset, Zenon
<1> QED BY <1>6, <1>7, SetsFinite DEF Rank

(* Before a big merge there are big merges only.                           *)
LEMMA RankOfBig ==
  ASSUME LoadOK, NEW ts \in SUBSET Merges, NEW m \in Big(ts)
  PROVE  Rank(ts, m) < Cardinality(Big(ts))
<1>1. Before(ts, m) \in SUBSET (Big(ts) \ {m})
  <2>1. \A k \in ts : k \in Nat /\ load.size[k] \in Nat
    BY Zenon DEF LoadOK
  <2>2. \A k \in Before(ts, m) : k \in Big(ts) /\ k # m
    BY <2>1 DEF Before, Big, LoadOK
  <2> QED BY <2>2, Zenon
<1>2. IsFiniteSet(Big(ts)) /\ Cardinality(Big(ts)) \in Nat /\ Rank(ts, m) \in Nat
  BY SetsFinite, Zenon
<1>3. /\ IsFiniteSet(Big(ts) \ {m})
      /\ Cardinality(Big(ts) \ {m}) = Cardinality(Big(ts)) - 1
  BY <1>2, FS_RemoveElement, Zenon
<1>4. Cardinality(Before(ts, m)) <= Cardinality(Big(ts) \ {m})
  BY <1>1, <1>3, FS_Subset, Zenon
<1> QED BY <1>2, <1>3, <1>4 DEF Rank

(* Before a merge that is not big there are all big ones.                  *)
LEMMA RankOfSmall ==
  ASSUME LoadOK, NEW ts \in SUBSET Merges, NEW m \in ts \ Big(ts)
  PROVE  Cardinality(Big(ts)) <= Rank(ts, m)
<1>1. Big(ts) \in SUBSET Before(ts, m)
  <2>1. \A k \in ts : k \in Nat /\ load.size[k] \in Nat
    BY Zenon DEF LoadOK
  <2>2. \A k \in Big(ts) : k \in Before(ts, m)
    BY <2>1 DEF Before, Big, LoadOK
  <2> QED BY <2>2, Zenon
<1>2. IsFiniteSet(Before(ts, m))
  BY SetsFinite, Zenon
<1> QED BY <1>1, <1>2, FS_Subset, Zenon DEF Rank

(* The ranks of the big merges are the numbers below their number.         *)
LEMMA RanksOfBig ==
  ASSUME LoadOK, NEW ts \in SUBSET Merges
  PROVE  LET B == Big(ts)
             f == [m \in B |-> Rank(ts, m)]
         IN  /\ f \in Injection(B, 0..(Cardinality(B) - 1))
             /\ f \in Surjection(B, 0..(Cardinality(B) - 1))
<1> DEFINE B == Big(ts)
           N == Cardinality(B)
           f == [m \in B |-> Rank(ts, m)]
<1>1. B \subseteq ts /\ N \in Nat /\ IsFiniteSet(B)
  BY SetsFinite, Zenon DEF Big
<1>2. \A m \in B : Rank(ts, m) \in 0..(N - 1)
  BY <1>1, RankOfBig, SetsFinite
<1>3. \A m, n \in B : m # n => Rank(ts, m) # Rank(ts, n)
  <2> SUFFICES ASSUME NEW m \in B, NEW n \in B, m # n
               PROVE  Rank(ts, m) # Rank(ts, n)
    BY Zenon
  <2>1. n \in Before(ts, m) \/ m \in Before(ts, n)
    <3>1. m \in Nat /\ n \in Nat /\ load.size[m] \in Nat /\ load.size[n] \in Nat
      BY <1>1, Zenon DEF LoadOK
    <3> QED BY <1>1, <3>1 DEF Before
  <2>2. Rank(ts, n) < Rank(ts, m) \/ Rank(ts, m) < Rank(ts, n)
    BY <1>1, <2>1, RankGrows, Zenon
  <2> QED BY <2>2, SetsFinite
<1>4. f \in [B -> 0..(N - 1)]
  BY <1>2, Zenon
<1>5. f \in Injection(B, 0..(N - 1))
  BY <1>3, <1>4, Zenon DEF Injection, IsInjective
<1>6. IsFiniteSet(0..(N - 1)) /\ Cardinality(0..(N - 1)) = N
  BY <1>1, FS_Interval
<1> HIDE DEF f
<1>7. f \in Surjection(B, 0..(N - 1))
  BY <1>5, <1>6, FS_Injection, Zenon
<1> QED BY <1>5, <1>7, Zenon DEF f

(* Among the merges ts no more than max_thread_count big ones go on, and   *)
(* one is paused only for as many that are big and no larger.              *)
LEMMA PausedRight ==
  ASSUME LoadOK, NEW ts \in SUBSET Merges
  PROVE  /\ Cardinality(Big(ts \ Paused(ts))) <= load.threads
         /\ \A m \in Paused(ts) :
              /\ m \in Big(ts)
              /\ Cardinality({n \in Big(ts \ Paused(ts)) : load.size[n] <= load.size[m]})
                   = load.threads
<1> DEFINE B == Big(ts)
           N == Cardinality(B)
           U == Big(ts \ Paused(ts))
           T == load.threads
           low == IF N >= T THEN N - T ELSE 0
           f == [m \in B |-> Rank(ts, m)]
           g == [m \in U |-> Rank(ts, m)]
<1>1. /\ B \subseteq ts /\ N \in Nat /\ T \in Nat /\ low \in Nat
      /\ \A m \in ts : Rank(ts, m) \in Nat
  <2>1. B \subseteq ts /\ N \in Nat /\ T \in Nat /\ \A m \in ts : Rank(ts, m) \in Nat
    BY SetsFinite, Zenon DEF Big, LoadOK
  <2> HIDE DEF N, T
  <2> QED BY <2>1
<1>2. U = {m \in B : ~(Rank(ts, m) + T < N)}
  BY Zenon DEF Big, Paused, Rank
<1>3. f \in Injection(B, 0..(N - 1)) /\ f \in Surjection(B, 0..(N - 1))
  BY RanksOfBig, Zenon
<1>4. g \in Injection(U, low..(N - 1))
  <2>1. \A m \in B : Rank(ts, m) \in 0..(N - 1)
    BY <1>3, Zenon DEF Injection
  <2>2. \A m, n \in B : Rank(ts, m) = Rank(ts, n) => m = n
    BY <1>3, Zenon DEF Injection, IsInjective
  <2>3. \A m \in U : m \in B /\ Rank(ts, m) \in low..(N - 1)
    BY <1>1, <1>2, <2>1
  <2> HIDE DEF U, B, N, T, low
  <2> QED BY <2>2, <2>3, Zenon DEF Injection, IsInjective
<1>5. /\ IsFiniteSet(low..(N - 1))
      /\ Cardinality(low..(N - 1)) = IF low > N - 1 THEN 0 ELSE (N - 1) - low + 1
  <2> HIDE DEF N, low
  <2>1. N - 1 \in Int /\ low \in Int
    BY <1>1
  <2> QED BY <2>1, FS_Interval, Zenon
<1>6. Cardinality(U) <= Cardinality(low..(N - 1)) /\ Cardinality(U) \in Nat
  <2> HIDE DEF U, N, low, g
  <2>1. IsFiniteSet(U) /\ Cardinality(U) <= Cardinality(low..(N - 1))
    BY <1>4, <1>5, FS_Injection, Zenon
  <2> QED BY <2>1, FS_CardinalityType, Zenon
<1>7. Cardinality(U) <= T
  <2> HIDE DEF U, N, T
  <2> QED BY <1>1, <1>5, <1>6
<1>8. ASSUME NEW m \in Paused(ts)
      PROVE  m \in B /\ Cardinality({n \in U : load.size[n] <= load.size[m]}) = T
  <2>1. m \in ts /\ Rank(ts, m) + T < N
    BY <1>8, Zenon DEF Paused, Rank
  <2>2. m \in B
    <3>1. CASE m \notin B
      <4>1. N <= Rank(ts, m)
        BY <2>1, <3>1, RankOfSmall, Zenon
      <4> QED BY <1>1, <2>1, <4>1
    <3> QED BY <3>1, Zenon
  <2>3. low = N - T /\ N - T <= N
    BY <1>1, <2>1
  <2>4. g \in Surjection(U, low..(N - 1))
    <3>1. \A i \in low..(N - 1) : \E n \in U : g[n] = i
      <4> SUFFICES ASSUME NEW i \in low..(N - 1)
                   PROVE  \E n \in U : Rank(ts, n) = i
        BY Zenon
      <4>1. i \in 0..(N - 1) /\ ~(i + T < N)
        BY <1>1, <2>3
      <4>2. PICK n \in B : Rank(ts, n) = i
        BY <1>3, <4>1, Zenon DEF Surjection
      <4> QED BY <1>2, <4>1, <4>2, Zenon
    <3> HIDE DEF g, U, N, low
    <3> QED BY <1>4, <3>1, Zenon DEF Injection, Surjection
  <2>5. Cardinality(U) = T
    <3> HIDE DEF U, N, low, g, T
    <3>1. Cardinality(U) = Cardinality(low..(N - 1))
      BY <1>4, <1>5, <2>4, FS_Injection, Zenon
    <3> QED BY <1>1, <1>5, <2>3, <3>1
  <2>6. \A n \in U : load.size[n] <= load.size[m]
    <3> SUFFICES ASSUME NEW n \in U, ~(load.size[n] <= load.size[m])
                 PROVE  FALSE
      BY Zenon
    <3>1. n \in ts /\ ~(Rank(ts, n) + T < N)
      BY <1>1, <1>2, Zenon
    <3>2. n \in Before(ts, m)
      <4>1. load.size[n] \in Nat /\ load.size[m] \in Nat
        BY <2>1, <3>1, Zenon DEF LoadOK
      <4> QED BY <3>1, <4>1 DEF Before
    <3>3. Rank(ts, n) < Rank(ts, m)
      BY <2>1, <3>2, RankGrows, Zenon
    <3> QED BY <1>1, <2>1, <3>1, <3>3
  <2>7. {n \in U : load.size[n] <= load.size[m]} = U
    BY <2>6, Zenon
  <2> QED BY <2>2, <2>5, <2>7, Zenon
<1> QED BY <1>7, <1>8, Zenon

(***************************************************************************)
(* The invariant.                                                          *)
(***************************************************************************)
IInv ==
  /\ TypeOK
  /\ \A p \in Producers : CallInv(p)
  /\ \A a \in Actors : CloseInv(a)
  /\ \A m \in Merges : AliveInv(m)
  /\ ClosedInv
  /\ paused = Paused(threads)

(***************************************************************************)
(* Steps of a thread, and what they leave to be shown.                     *)
(***************************************************************************)
(* Others are notified, or a merge thread begins; calls stay what they are.*)
Frame(a) ==
  /\ \A b \in Actors \ {a} : \/ pc'[b] = pc[b]
                             \/ pc[b] = "syncWait" /\ pc'[b] = "sync"
                             \/ b \in Merges /\ pending # <<>> /\ pc'[b] = "run"
  /\ \A p \in Producers \ {a} : then'[p] = then[p]

(* A writer once closing is closing or closed, merges stay disabled in it, *)
(* and where there are none pending none come to run.                      *)
Mild ==
  /\ closing \/ closed => closing' \/ closed'
  /\ (closing \/ closed) /\ ~enabled => ~enabled'
  /\ ~enabled /\ pending = <<>> => pending' = <<>>
  /\ pending = <<>> => threads' \subseteq threads /\ running' \subseteq running

(* A step that neither starts nor ends a merge thread, nor closes.         *)
Quiet(a) ==
  /\ Frame(a) /\ Mild /\ UNCHANGED <<threads, paused, load, closed>>
  /\ \A b \in Merges \ {a} : pc'[b] = "run" => pc[b] = "run"
  /\ a \in Merges => pc[a] \notin {"none", "end", "clean"} /\ pc'[a] \notin {"none", "end"}

OwnInv(a) == (a \in Producers => CallInv(a)) /\ CloseInv(a)

(* The other threads' part of the invariant.                               *)
LEMMA OthersKept ==
  ASSUME IInv, NEW a \in Actors, Frame(a), Mild, NEW b \in Actors, b # a
  PROVE  OwnInv(b)'
<1>1. CASE pc'[b] = "run" /\ b \in Merges
  BY <1>1, MergeAssumption, Zenon DEF OwnInv, CloseInv, Closer
<1>2. CASE ~(pc'[b] = "run" /\ b \in Merges)
  <2>1. /\ pc'[b] = pc[b] \/ (pc[b] = "syncWait" /\ pc'[b] = "sync")
        /\ b \in Producers => then'[b] = then[b]
    BY <1>2, Zenon DEF Frame
  <2>2. b \in Producers => CallInv(b)'
    BY <2>1, Zenon DEF IInv, CallInv
  <2>3. CloseInv(b)'
    <3>1. CloseInv(b) /\ (Closer(b)' => Closer(b))
      BY <2>1, Zenon DEF IInv, Closer
    <3> QED BY <2>1, <3>1, Zenon DEF CloseInv, Mild
  <2> QED BY <2>2, <2>3, Zenon DEF OwnInv
<1> QED BY <1>1, <1>2, Zenon

(* A step that does not close the writer has to preserve its own part, the *)
(* types, the threads that are alive and those that are paused.            *)
LEMMA StepIInv ==
  ASSUME IInv, NEW a \in Actors, Frame(a), Mild, closed' = closed, TypeOK', OwnInv(a)',
         pc[a] = "clean" => a \notin threads',
         \A m \in Merges : AliveInv(m)', paused' = Paused(threads)'
  PROVE  IInv'
<1>1. \A b \in Actors : OwnInv(b)'
  BY OthersKept, Zenon
<1>2. (\A p \in Producers : CallInv(p)') /\ \A b \in Actors : CloseInv(b)'
  BY <1>1, Zenon DEF OwnInv, Actors
<1>3. ClosedInv'
  <2> SUFFICES ASSUME closed
               PROVE  /\ ~enabled' /\ pending' = <<>> /\ running' = {}
                      /\ \A m \in threads' : pc'[m] = "clean"
    BY Zenon DEF ClosedInv
  <2>1. ~enabled /\ pending = <<>> /\ running = {} /\ \A m \in threads : pc[m] = "clean"
    BY Zenon DEF IInv, ClosedInv
  <2>2. ~enabled' /\ pending' = <<>> /\ running' = {} /\ threads' \subseteq threads
    BY <2>1, Zenon DEF Mild
  <2>3. \A m \in threads' : m \in Actors /\ pc'[m] = "clean"
    BY <2>1, <2>2, Zenon DEF IInv, TypeOK, Actors, Frame
  <2> QED BY <2>2, <2>3, Zenon
<1> QED BY <1>2, <1>3, Zenon DEF IInv

(* A quiet one has to preserve its own part and the types.                 *)
LEMMA QuietIInv ==
  ASSUME IInv, NEW a \in Actors, Quiet(a), TypeOK', OwnInv(a)'
  PROVE  IInv'
<1>1. \A m \in Merges : AliveInv(m)'
  BY Zenon DEF IInv, AliveInv, Quiet, Frame, Actors
<1>2. paused' = Paused(threads)'
  BY Zenon DEF IInv, Quiet, Paused, Before, Big
<1>3. pc[a] = "clean" => a \notin threads'
  BY Zenon DEF IInv, TypeOK, Quiet
<1> QED BY <1>1, <1>2, <1>3, StepIInv, Zenon DEF Quiet

(* Registered merges get the next names.                                   *)
LEMMA QueueKept ==
  ASSUME TypeOK, NEW k \in 0..MaxNew, NEW force, update_pending_merges(k, force)
  PROVE  registered' \in Nat /\ pending' \in Seq(Merges)
<1>1. k \in Nat /\ registered \in Nat /\ registered + k <= MaxMerges
  BY MergeAssumption DEF TypeOK, update_pending_merges
<1>2. [i \in 1..k |-> registered + i] \in Seq(Merges)
  <2>1. \A i \in 1..k : registered + i \in Merges
    BY <1>1, MergeAssumption DEF Merges
  <2> QED BY <1>1, <2>1
<1>3. pending \o [i \in 1..k |-> registered + i] \in Seq(Merges)
  BY <1>2 DEF TypeOK
<1> QED BY <1>1, <1>3 DEF update_pending_merges

(***************************************************************************)
(* Every step preserves the invariant.                                     *)
(***************************************************************************)
(* Merges that the policy finds are registered.                            *)
LEMMA MaybeMergeIInv ==
  ASSUME IInv, NEW p \in Producers, maybe_merge(p)
  PROVE  IInv'
<1>0. registered' \in Nat /\ pending' \in Seq(Merges)
  BY QueueKept, Zenon DEF IInv, TypeOK, maybe_merge
<1>1. p \in Actors /\ Quiet(p)
  BY MergeAssumption, Zenon DEF IInv, TypeOK, Actors, Quiet, Frame, Mild, maybe_merge,
     update_pending_merges, Call, Go, cmsVars, closeVars
<1>2. TypeOK'
  BY <1>1, <1>0, Zenon DEF IInv, TypeOK, Actors, Control, maybe_merge, Call, Go, cmsVars,
     closeVars
<1>3. OwnInv(p)'
  BY <1>1, MergeAssumption, Zenon DEF IInv, TypeOK, OwnInv, CallInv, CloseInv, Closer, Quiet,
     maybe_merge, update_pending_merges, Call, Go, cmsVars, closeVars
<1> QED BY <1>1, <1>2, <1>3, QuietIInv, Zenon

(* A forced merge begins.                                                  *)
LEMMA ForceMergeIInv ==
  ASSUME IInv, NEW p \in Producers, force_merge(p)
  PROVE  IInv'
<1>1. p \in Actors /\ Quiet(p)
  BY MergeAssumption, Zenon DEF IInv, TypeOK, Actors, Quiet, Frame, Mild, force_merge, Call, Go,
     cmsVars, closeVars
<1>2. TypeOK'
  BY <1>1, Zenon DEF IInv, TypeOK, Actors, Control, force_merge, Call, Go, cmsVars, closeVars
<1>3. OwnInv(p)'
  BY <1>1, MergeAssumption, Zenon DEF IInv, TypeOK, OwnInv, CallInv, CloseInv, Closer, Quiet,
     force_merge, Call, Go, cmsVars, closeVars
<1> QED BY <1>1, <1>2, <1>3, QuietIInv, Zenon

(* A close begins.                                                         *)
LEMMA ShutDownIInv ==
  ASSUME IInv, NEW p \in Producers, shut_down(p)
  PROVE  IInv'
<1>1. p \in Actors /\ Quiet(p)
  BY MergeAssumption, Zenon DEF IInv, TypeOK, Actors, Quiet, Frame, Mild, shut_down, Call, Go,
     cmsVars, closeVars
<1>2. TypeOK'
  BY <1>1, Zenon DEF IInv, TypeOK, Actors, Control, shut_down, Call, Go, cmsVars, mergeVars,
     closeVars
<1>3. OwnInv(p)'
  BY <1>1, MergeAssumption, Zenon DEF IInv, TypeOK, OwnInv, CallInv, CloseInv, Closer, Quiet,
     shut_down, Call, Go, cmsVars, closeVars
<1> QED BY <1>1, <1>2, <1>3, QuietIInv, Zenon

(* A rollback begins.                                                      *)
LEMMA RollbackIInv ==
  ASSUME IInv, NEW p \in Producers, rollback(p)
  PROVE  IInv'
<1>1. p \in Actors /\ Quiet(p)
  BY MergeAssumption, Zenon DEF IInv, TypeOK, Actors, Quiet, Frame, Mild, rollback, Call, Go,
     cmsVars, closeVars
<1>2. TypeOK'
  BY <1>1, Zenon DEF IInv, TypeOK, Actors, Control, rollback, Call, Go, cmsVars, mergeVars,
     closeVars
<1>3. OwnInv(p)'
  BY <1>1, MergeAssumption, Zenon DEF IInv, TypeOK, OwnInv, CallInv, CloseInv, Closer, Quiet,
     rollback, Call, Go, cmsVars, mergeVars, closeVars
<1> QED BY <1>1, <1>2, <1>3, QuietIInv, Zenon

(* delete_all begins.                                                      *)
LEMMA DeleteAllIInv ==
  ASSUME IInv, NEW p \in Producers, delete_all(p)
  PROVE  IInv'
<1>1. p \in Actors /\ Quiet(p)
  BY MergeAssumption, Zenon DEF IInv, TypeOK, Actors, Quiet, Frame, Mild, delete_all, Call, Go,
     Deleting, cmsVars, closeVars
<1>2. TypeOK'
  BY <1>1, Zenon DEF IInv, TypeOK, Actors, Control, delete_all, Call, Go, Deleting, cmsVars,
     mergeVars, closeVars
<1>3. OwnInv(p)'
  BY <1>1, MergeAssumption, Zenon DEF IInv, TypeOK, OwnInv, CallInv, CloseInv, Closer, Quiet,
     delete_all, Call, Go, Deleting, cmsVars, closeVars
<1> QED BY <1>1, <1>2, <1>3, QuietIInv, Zenon

(* Forced merges are registered.                                           *)
LEMMA FindForcedMergesIInv ==
  ASSUME IInv, NEW p \in Producers, find_forced_merges(p)
  PROVE  IInv'
<1>0. registered' \in Nat /\ pending' \in Seq(Merges)
  BY QueueKept, Zenon DEF IInv, TypeOK, find_forced_merges, NothingRegistered, mergeVars
<1>1. p \in Actors /\ Quiet(p)
  BY MergeAssumption, Zenon DEF IInv, TypeOK, Actors, Quiet, Frame, Mild, find_forced_merges,
     update_pending_merges, Go, Return, NothingRegistered, cmsVars, closeVars, bounds
<1>2. TypeOK'
  BY <1>1, <1>0, Zenon DEF IInv, TypeOK, Actors, Control, find_forced_merges, Go, Return,
     NothingRegistered, cmsVars, mergeVars, closeVars, bounds
<1>3. OwnInv(p)'
  BY <1>1, MergeAssumption DEF IInv, TypeOK, OwnInv, CallInv, CloseInv, Closer, Quiet,
     find_forced_merges, update_pending_merges, Go, Return, NothingRegistered, cmsVars,
     closeVars
<1> QED BY <1>1, <1>2, <1>3, QuietIInv, Zenon

(* A forced merge ends.                                                    *)
LEMMA ForceWaitIInv ==
  ASSUME IInv, NEW p \in Producers, force_wait(p)
  PROVE  IInv'
<1>1. p \in Actors /\ Quiet(p)
  BY MergeAssumption, Zenon DEF IInv, TypeOK, Actors, Quiet, Frame, Mild, force_wait, Go,
     Return, cmsVars, closeVars, bounds
<1>2. TypeOK'
  BY <1>1, Zenon DEF IInv, TypeOK, Actors, Control, force_wait, Go, Return, cmsVars, mergeVars,
     closeVars, bounds
<1>3. OwnInv(p)'
  BY <1>1, MergeAssumption, Zenon DEF IInv, TypeOK, OwnInv, CallInv, CloseInv, Closer, Quiet,
     force_wait, Go, Return, cmsVars, closeVars
<1> QED BY <1>1, <1>2, <1>3, QuietIInv, Zenon

(* One thread gets to close the writer.                                    *)
LEMMA ShouldCloseIInv ==
  ASSUME IInv, NEW p \in Producers, should_close(p)
  PROVE  IInv'
<1>1. p \in Actors /\ Quiet(p)
  BY MergeAssumption, Zenon DEF IInv, TypeOK, Actors, Quiet, Frame, Mild, should_close, Go,
     Return, cmsVars, bounds
<1>2. TypeOK'
  BY <1>1, Zenon DEF IInv, TypeOK, Actors, Control, should_close, Go, Return, cmsVars,
     mergeVars, bounds
<1>3. OwnInv(p)'
  BY <1>1, MergeAssumption DEF IInv, TypeOK, OwnInv, CallInv, CloseInv, Closer, Quiet,
     should_close, Go, Return, cmsVars
<1> QED BY <1>1, <1>2, <1>3, QuietIInv, Zenon

(* The flush of a close.                                                   *)
LEMMA FlushAtCloseIInv ==
  ASSUME IInv, NEW p \in Producers, flush_at_close(p)
  PROVE  IInv'
<1>0. registered' \in Nat /\ pending' \in Seq(Merges)
  BY QueueKept, Zenon DEF IInv, TypeOK, flush_at_close, NothingRegistered, mergeVars
<1>1. p \in Actors /\ Quiet(p)
  BY MergeAssumption, Zenon DEF IInv, TypeOK, Actors, Quiet, Frame, Mild, flush_at_close,
     update_pending_merges, Go, NothingRegistered, Deleting, cmsVars, closeVars, bounds
<1>2. TypeOK'
  BY <1>1, <1>0, Zenon DEF IInv, TypeOK, Actors, Control, flush_at_close, Go, NothingRegistered,
     Deleting, cmsVars, mergeVars, closeVars, bounds
<1>3. OwnInv(p)'
  BY <1>1, MergeAssumption DEF IInv, TypeOK, OwnInv, CallInv, CloseInv, Closer, Quiet,
     flush_at_close, update_pending_merges, Go, NothingRegistered, Deleting, cmsVars, closeVars
<1> QED BY <1>1, <1>2, <1>3, QuietIInv, Zenon

(* A close has waited for the merges.                                      *)
LEMMA WaitForMergesIInv ==
  ASSUME IInv, NEW p \in Producers, wait_for_merges(p)
  PROVE  IInv'
<1>1. p \in Actors /\ Quiet(p)
  BY MergeAssumption, Zenon DEF IInv, TypeOK, Actors, Quiet, Frame, Mild, wait_for_merges, Go,
     cmsVars, closeVars, bounds
<1>2. TypeOK'
  BY <1>1, Zenon DEF IInv, TypeOK, Actors, Control, wait_for_merges, Go, cmsVars, mergeVars,
     closeVars, bounds
<1>3. OwnInv(p)'
  BY <1>1, MergeAssumption DEF IInv, TypeOK, OwnInv, CallInv, CloseInv, Closer, Quiet,
     wait_for_merges, Go, cmsVars, closeVars
<1> QED BY <1>1, <1>2, <1>3, QuietIInv, Zenon

(* delete_all enables merges, unless the writer is closing.                *)
LEMMA EnableIInv ==
  ASSUME IInv, NEW p \in Producers, enable(p)
  PROVE  IInv'
<1>1. p \in Actors /\ Quiet(p)
  BY MergeAssumption, Zenon DEF IInv, TypeOK, Actors, Quiet, Frame, Mild, enable, Go, Return,
     Deleting, cmsVars, bounds
<1>2. TypeOK'
  BY <1>1, Zenon DEF IInv, TypeOK, Actors, Control, enable, Go, Return, Deleting, cmsVars,
     mergeVars, bounds
<1>3. OwnInv(p)'
  BY <1>1, MergeAssumption, Zenon DEF IInv, TypeOK, OwnInv, CallInv, CloseInv, Closer, Quiet,
     enable, Go, Return, Deleting, cmsVars
<1> QED BY <1>1, <1>2, <1>3, QuietIInv, Zenon

(* A merge is done, and the policy may find more.                          *)
LEMMA MergeSucceedsIInv ==
  ASSUME IInv, NEW m \in Merges, merge_succeeds(m)
  PROVE  IInv'
<1>0. registered' \in Nat /\ pending' \in Seq(Merges)
  BY QueueKept, Zenon DEF IInv, TypeOK, merge_succeeds, NothingRegistered, mergeVars
<1>1. m \in Actors /\ Quiet(m)
  BY MergeAssumption, Zenon DEF IInv, TypeOK, Actors, Quiet, Frame, Mild, merge_succeeds,
     update_pending_merges, Go, NothingRegistered, cmsVars, closeVars, bounds
<1>2. TypeOK'
  BY <1>1, <1>0, Zenon DEF IInv, TypeOK, Actors, Control, merge_succeeds, Go, NothingRegistered,
     cmsVars, mergeVars, closeVars, bounds
<1>3. OwnInv(m)'
  BY <1>1, MergeAssumption, Zenon DEF IInv, TypeOK, OwnInv, CallInv, CloseInv, Closer, Quiet,
     merge_succeeds, update_pending_merges, Go, NothingRegistered, cmsVars, closeVars
<1> QED BY <1>1, <1>2, <1>3, QuietIInv, Zenon

(* A merge fails or is aborted.                                            *)
LEMMA MergeErrorIInv ==
  ASSUME IInv, NEW m \in Merges, merge_error(m)
  PROVE  IInv'
<1>1. m \in Actors /\ Quiet(m)
  BY MergeAssumption, Zenon DEF IInv, TypeOK, Actors, Quiet, Frame, Mild, merge_error, Go,
     cmsVars, closeVars
<1>2. TypeOK'
  BY <1>1, Zenon DEF IInv, TypeOK, Actors, Control, merge_error, Go, cmsVars, mergeVars,
     closeVars
<1>3. OwnInv(m)'
  BY <1>1, MergeAssumption, Zenon DEF IInv, TypeOK, OwnInv, CallInv, CloseInv, Closer, Quiet,
     merge_error, Go, cmsVars, closeVars
<1> QED BY <1>1, <1>2, <1>3, QuietIInv, Zenon

(* A failed merge may begin to close the writer.                           *)
LEMMA TragicEventIInv ==
  ASSUME IInv, NEW m \in Merges, tragic_event(m)
  PROVE  IInv'
<1>1. m \in Actors /\ Quiet(m)
  BY MergeAssumption, Zenon DEF IInv, TypeOK, Actors, Quiet, Frame, Mild, tragic_event, Go,
     cmsVars, bounds
<1>2. TypeOK'
  BY <1>1, Zenon DEF IInv, TypeOK, Actors, Control, tragic_event, Go, cmsVars, mergeVars, bounds
<1>3. OwnInv(m)'
  BY <1>1, MergeAssumption, Zenon DEF IInv, TypeOK, OwnInv, CallInv, CloseInv, Closer, Quiet,
     tragic_event, Go, cmsVars
<1> QED BY <1>1, <1>2, <1>3, QuietIInv, Zenon

(* Merges are disabled and told to abort.                                  *)
LEMMA AbortMergesIInv ==
  ASSUME IInv, NEW a \in Actors, abort_merges(a)
  PROVE  IInv'
<1>0. pending' \in Seq(Merges)
  BY DEF abort_merges
<1>1. a \in Actors /\ Quiet(a)
  BY MergeAssumption, Zenon DEF IInv, TypeOK, Actors, Quiet, Frame, Mild, abort_merges, Go,
     cmsVars, bounds
<1>2. TypeOK'
  BY <1>1, <1>0, Zenon DEF IInv, TypeOK, Actors, Control, abort_merges, Go, cmsVars, mergeVars,
     bounds
<1>3. OwnInv(a)'
  BY <1>1, MergeAssumption DEF IInv, TypeOK, OwnInv, CallInv, CloseInv, Closer, Quiet,
     abort_merges, Go, cmsVars
<1> QED BY <1>1, <1>2, <1>3, QuietIInv, Zenon

(* A close has waited for the merges it aborted.                           *)
LEMMA MergesAbortedIInv ==
  ASSUME IInv, NEW a \in Actors, merges_aborted(a)
  PROVE  IInv'
<1>1. a \in Actors /\ Quiet(a)
  BY MergeAssumption, Zenon DEF IInv, TypeOK, Actors, Quiet, Frame, Mild, merges_aborted, Go,
     Deleting, cmsVars, closeVars, bounds
<1>2. TypeOK'
  BY <1>1, Zenon DEF IInv, TypeOK, Actors, Control, merges_aborted, Go, Deleting, cmsVars,
     mergeVars, closeVars, bounds
<1>3. OwnInv(a)'
  BY <1>1, MergeAssumption DEF IInv, TypeOK, OwnInv, CallInv, CloseInv, Closer, Quiet,
     merges_aborted, Go, Deleting, cmsVars, closeVars
<1> QED BY <1>1, <1>2, <1>3, QuietIInv, Zenon

(* The scheduler is closed, or waits for its threads.                      *)
LEMMA SyncIInv ==
  ASSUME IInv, NEW a \in Actors, sync(a)
  PROVE  IInv'
<1>1. a \in Actors /\ Quiet(a)
  BY MergeAssumption, Zenon DEF IInv, TypeOK, Actors, Quiet, Frame, Mild, sync, Go, cmsVars,
     mergeVars, closeVars, bounds
<1>2. TypeOK'
  BY <1>1, Zenon DEF IInv, TypeOK, Actors, Control, sync, Go, cmsVars, mergeVars, closeVars,
     bounds
<1>3. OwnInv(a)'
  BY <1>1, MergeAssumption DEF IInv, TypeOK, OwnInv, CallInv, CloseInv, Closer, Quiet, sync, Go,
     cmsVars, mergeVars, closeVars, bounds
<1> QED BY <1>1, <1>2, <1>3, QuietIInv, Zenon

(* A thread of a merge ends.                                               *)
LEMMA RemoveIInv ==
  ASSUME IInv, NEW m \in Merges, Remove(m), pending = <<>> => pending' = <<>>,
         pending' \in Seq(Merges), UNCHANGED <<running, closeVars, load, then>>
  PROVE  IInv'
<1>1. m \in Actors /\ m \notin Producers
  BY MergeAssumption, Zenon DEF Actors
<1>2. /\ pc'[m] = "end" /\ threads' = threads \ {m} /\ registered' = registered
      /\ pc' = [b \in Actors |-> IF b = m THEN "end"
                                 ELSE IF pc[b] = "syncWait" THEN "sync" ELSE pc[b]]
  BY <1>1, Zenon DEF Remove, NotifyAll, Forget, update_merge_threads
<1>3. Frame(m) /\ Mild
  BY <1>2, Zenon DEF Frame, Mild, closeVars
<1>4. TypeOK'
  BY <1>2, Zenon DEF IInv, TypeOK, Control, closeVars
<1>5. OwnInv(m)'
  BY <1>1, <1>2, Zenon DEF OwnInv, CloseInv, Closer
<1>6. \A n \in Merges : AliveInv(n)'
  BY <1>2, Zenon DEF IInv, AliveInv, Actors
<1>7. paused' = Paused(threads)'
  BY <1>2, Zenon DEF Remove, update_merge_threads, Paused, Before, Big
<1>8. closed' = closed
  BY Zenon DEF closeVars
<1> QED BY <1>1, <1>2, <1>3, <1>4, <1>5, <1>6, <1>7, <1>8, StepIInv, Zenon

(* A thread leaves the merge loop.                                         *)
LEMMA LeaveIInv ==
  ASSUME IInv, NEW a \in Actors, NEW ok \in BOOLEAN, pc[a] \in {"merge", "check", "next"},
         Leave(a, ok), pending = <<>> => pending' = <<>>, pending' \in Seq(Merges),
         UNCHANGED <<running, closeVars, load>>
  PROVE  IInv'
<1>1. CASE a \in Merges
  <2>1. Remove(a) /\ UNCHANGED then
    BY <1>1, MergeAssumption, Zenon DEF Leave
  <2> QED BY <1>1, <2>1, RemoveIInv, Zenon
<1>2. CASE a \in Producers
  <2>1. /\ pc' = [pc EXCEPT ![a] = AfterLoop(a, ok)] /\ UNCHANGED <<cmsVars, mergeVars, aborted>>
        /\ then' = [then EXCEPT ![a] = IF AfterLoop(a, ok) = "idle" THEN "return"
                                       ELSE IF @ = "flush" THEN "close" ELSE @]
    BY <1>2, MergeAssumption, Zenon DEF Leave
  <2>2. then[a] \in {"return", "force", "flush", "close"}
    BY <1>2, Zenon DEF IInv, CallInv
  <2>3. /\ pc'[a] = AfterLoop(a, ok)
        /\ then'[a] = IF AfterLoop(a, ok) = "idle" THEN "return"
                      ELSE IF then[a] = "flush" THEN "close" ELSE then[a]
    BY <1>2, <2>1, Zenon DEF IInv, TypeOK
  <2>4. /\ then[a] = "return" => AfterLoop(a, ok) = "idle"
        /\ then[a] = "force" => AfterLoop(a, ok) \in {"forceWait", "idle"}
        /\ then[a] = "flush" => AfterLoop(a, ok) \in {"merge", "abort"}
        /\ then[a] = "close" => AfterLoop(a, ok) \in {"closeWait", "abort"}
    BY Zenon DEF AfterLoop
  <2>5. Quiet(a)
    BY <1>2, <2>1, MergeAssumption, Zenon DEF IInv, TypeOK, Quiet, Frame, Mild, cmsVars,
       closeVars, Actors
  <2>6. TypeOK'
    <3>1. AfterLoop(a, ok) \in Control
      BY <2>2, <2>4, Zenon DEF Control
    <3>2. /\ pc' \in [Actors -> Control]
          /\ then' \in [Producers -> {"return", "force", "flush", "close", "rollback", "deleteAll"}]
      BY <1>2, <2>1, <2>2, <2>3, <3>1, Zenon DEF IInv, TypeOK
    <3> QED BY <2>1, <3>2, Zenon DEF IInv, TypeOK, cmsVars, mergeVars, closeVars
  <2>7. OwnInv(a)'
    <3>1. CallInv(a)'
      BY <2>2, <2>3, <2>4, Zenon DEF CallInv
    <3>2. Closer(a)' => Closer(a) /\ pc'[a] \notin {"aborting", "sync", "syncWait", "close"}
      BY <1>2, <2>2, <2>3, <2>4, MergeAssumption, Zenon DEF Closer
    <3> QED BY <3>1, <3>2, Zenon DEF IInv, OwnInv, CloseInv, closeVars
  <2> QED BY <2>5, <2>6, <2>7, QuietIInv, Zenon
<1> QED BY <1>1, <1>2, Zenon DEF Actors

(* The start of the loop, which may stall.                                 *)
LEMMA MaybeStallIInv ==
  ASSUME IInv, NEW a \in Actors, maybe_stall(a)
  PROVE  IInv'
<1>1. /\ pc[a] \in {"merge", "check"} /\ pending' = pending /\ pending' \in Seq(Merges)
      /\ UNCHANGED <<running, closeVars, load>>
  BY Zenon DEF IInv, TypeOK, maybe_stall, bounds
<1>2. CASE Leave(a, FALSE) \/ Leave(a, TRUE)
  BY <1>1, <1>2, LeaveIInv, Zenon
<1>3. CASE /\ pc' = [pc EXCEPT ![a] = IF pc'[a] = "next" THEN "next" ELSE "merge"]
           /\ UNCHANGED <<then, cmsVars, mergeVars, aborted>>
  <2>1. pc'[a] \in {"merge", "next"} /\ \A b \in Actors \ {a} : pc'[b] = pc[b]
    BY <1>3, Zenon DEF IInv, TypeOK
  <2>2. Quiet(a)
    BY <1>1, <1>3, <2>1, MergeAssumption, Zenon DEF Quiet, Frame, Mild, cmsVars, closeVars,
       Actors
  <2>3. TypeOK'
    BY <1>1, <1>3, Zenon DEF IInv, TypeOK, Control, cmsVars, mergeVars, closeVars
  <2>4. OwnInv(a)'
    BY <1>1, <1>3, <2>1, MergeAssumption, Zenon DEF IInv, OwnInv, CallInv, CloseInv, Closer,
       closeVars
  <2> QED BY <2>2, <2>3, <2>4, QuietIInv, Zenon
<1> QED BY <1>2, <1>3, Zenon DEF IInv, TypeOK, maybe_stall, Go

(* The loop ends as there is nothing left to start.                        *)
LEMMA NoNextMergeIInv ==
  ASSUME IInv, NEW a \in Actors, no_next_merge(a)
  PROVE  IInv'
<1>1. /\ pc[a] = "next" /\ Leave(a, ~tragedy) /\ pending' = pending
      /\ UNCHANGED <<running, closeVars, load>>
  BY Zenon DEF no_next_merge, bounds
<1>2. pending' \in Seq(Merges)
  BY <1>1, Zenon DEF IInv, TypeOK
<1>3. (~tragedy) \in BOOLEAN
  BY Zenon
<1> QED BY <1>1, <1>2, <1>3, LeaveIInv, Zenon

(* The loop ends as a thread could not be started.                         *)
LEMMA StartFailsIInv ==
  ASSUME IInv, NEW a \in Actors, start_fails(a)
  PROVE  IInv'
<1>1. /\ pc[a] = "next" /\ Leave(a, FALSE) /\ pending # <<>> /\ pending' = Tail(pending)
      /\ UNCHANGED <<running, closeVars, load>>
  BY Zenon DEF start_fails
<1>2. pending' \in Seq(Merges)
  BY <1>1 DEF IInv, TypeOK
<1> QED BY <1>1, <1>2, LeaveIInv, Zenon

(* A merge begins to run in its thread.                                    *)
LEMMA StartIInv ==
  ASSUME IInv, NEW a \in Actors, start(a)
  PROVE  IInv'
<1> DEFINE m == Head(pending)
<1>1. pending # <<>> /\ m \in Merges /\ pending' \in Seq(Merges) /\ pc[a] = "next"
  BY DEF IInv, TypeOK, start
<1>2. /\ threads' = threads \cup {m} /\ paused' = Paused(threads)'
      /\ UNCHANGED <<then, registered, enabled, closing, closed, load>>
  BY Zenon DEF start, update_merge_threads, Paused, Before, Big, mergeVars, closeVars, bounds
<1>3. /\ pc' \in [Actors -> Control]
      /\ pc'[a] \in {"check", "run"} /\ (pc'[a] = "run" => a \in Merges) /\ pc'[m] = "run"
      /\ \A b \in Actors \ {a, m} : pc'[b] = pc[b]
  <2>1. m \in Actors /\ pc \in [Actors -> Control] /\ "check" \in Control /\ "run" \in Control
    BY <1>1, Zenon DEF IInv, TypeOK, Actors, Control
  <2>2. pc' = [pc EXCEPT ![a] = "check", ![m] = "run"]
    BY Zenon DEF start
  <2> HIDE DEF m
  <2>3. pc' \in [Actors -> Control] /\ \A b \in Actors \ {a, m} : pc'[b] = pc[b]
    BY <2>1, <2>2, Zenon
  <2>4. pc'[m] = "run" /\ (a # m => pc'[a] = "check")
    BY <2>1, <2>2, Zenon
  <2> QED BY <1>1, <2>3, <2>4, Zenon
<1> HIDE DEF m
<1>4. Frame(a)
  BY <1>1, <1>2, <1>3, Zenon DEF Frame
<1>5. Mild
  BY <1>1, <1>2, Zenon DEF Mild
<1>6. TypeOK'
  BY <1>1, <1>2, <1>3, Zenon DEF IInv, TypeOK
<1>7. OwnInv(a)'
  BY <1>1, <1>2, <1>3, MergeAssumption, Zenon DEF IInv, OwnInv, CallInv, CloseInv, Closer
<1>8. \A n \in Merges : AliveInv(n)'
  BY <1>1, <1>2, <1>3, Zenon DEF IInv, AliveInv, Actors
<1> QED BY <1>1, <1>2, <1>4, <1>5, <1>6, <1>7, <1>8, StepIInv, Zenon

(* The thread of a failed merge ends.                                      *)
LEMMA RunMergeFailedIInv ==
  ASSUME IInv, NEW m \in Merges, run_merge_failed(m)
  PROVE  IInv'
<1>1. /\ Remove(m) /\ pending' = pending /\ pending' \in Seq(Merges)
      /\ UNCHANGED <<running, closeVars, load, then>>
  BY Zenon DEF IInv, TypeOK, run_merge_failed, bounds
<1> QED BY <1>1, RemoveIInv, Zenon

(* The writer is closed: no thread is left, but the one that closes it.    *)
LEMMA CleanupAndNotifyIInv ==
  ASSUME IInv, NEW a \in Actors, cleanup_and_notify(a)
  PROVE  IInv'
<1>1. /\ pc[a] = "close" /\ closed' = TRUE /\ enabled' = enabled
      /\ \/ a \in Producers /\ pc'[a] = "idle"
         \/ a \in Merges /\ pc'[a] = "clean"
      /\ \A b \in Actors \ {a} : pc'[b] = pc[b]
      /\ \A p \in Producers \ {a} : then'[p] = then[p]
      /\ UNCHANGED <<pending, running, threads, paused, load, registered>>
  BY Zenon DEF IInv, TypeOK, cleanup_and_notify, Go, Return, Actors, cmsVars, mergeVars, bounds
<1>2. Closer(a)
  BY <1>1, Zenon DEF IInv, CallInv, Closer, Actors
<1>3. ~enabled /\ pending = <<>> /\ running = {} /\ threads \subseteq {a}
  BY <1>1, <1>2, Zenon DEF IInv, CloseInv
<1>4. TypeOK'
  BY <1>1, Zenon DEF IInv, TypeOK, Control, cleanup_and_notify, Go, Return
<1>5. Frame(a) /\ Mild
  BY <1>1, Zenon DEF Frame, Mild
<1>6. OwnInv(a)'
  BY <1>1, MergeAssumption, Zenon DEF OwnInv, CallInv, CloseInv, Closer
<1>7. (\A p \in Producers : CallInv(p)') /\ \A b \in Actors : CloseInv(b)'
  BY <1>5, <1>6, OthersKept, Zenon DEF OwnInv, Actors
<1>8. \A m \in Merges : AliveInv(m)'
  BY <1>1, MergeAssumption, Zenon DEF IInv, AliveInv, Actors
<1>9. ClosedInv'
  <2>1. \A m \in threads : m = a /\ m \in Merges
    BY <1>3, Zenon DEF IInv, TypeOK
  <2> QED BY <1>1, <1>3, <2>1, MergeAssumption, Zenon DEF ClosedInv
<1>10. paused' = Paused(threads)'
  BY <1>1, Zenon DEF IInv, Paused, Before, Big
<1> QED BY <1>4, <1>7, <1>8, <1>9, <1>10, Zenon DEF IInv

(***************************************************************************)
(* The theorems.                                                           *)
(***************************************************************************)
(* Initially there are no merges.                                          *)
LEMMA InitIInv ==
  ASSUME Init
  PROVE  IInv
<1>1. TypeOK
  <2>1. pending \in Seq(Merges)
    BY DEF Init
  <2>2. pc \in [Actors -> Control]
    BY Zenon DEF Init, Control
  <2> QED BY <2>1, <2>2, Zenon DEF Init, TypeOK
<1>2. /\ \A p \in Producers : CallInv(p)
      /\ \A a \in Actors : CloseInv(a)
      /\ \A m \in Merges : AliveInv(m)
  BY MergeAssumption, Zenon DEF Init, CallInv, CloseInv, Closer, AliveInv, Actors
<1>3. ClosedInv /\ paused = Paused(threads)
  BY Zenon DEF Init, ClosedInv, Paused
<1> QED BY <1>1, <1>2, <1>3, Zenon DEF IInv

(* Every step of the system preserves the invariant.                       *)
LEMMA NextIInv ==
  ASSUME IInv, [Next]_vars
  PROVE  IInv'
<1>1. ASSUME NEW p \in Producers, Calls(p) \/ CallSteps(p)
      PROVE  IInv'
  BY <1>1, MaybeMergeIInv, ForceMergeIInv, ShutDownIInv, RollbackIInv, DeleteAllIInv,
     FindForcedMergesIInv, ForceWaitIInv, ShouldCloseIInv, FlushAtCloseIInv, WaitForMergesIInv,
     EnableIInv, Zenon DEF Calls, CallSteps
<1>2. ASSUME NEW m \in Merges, MergeSteps(m) \/ merge_succeeds(m) \/ merge_error(m)
      PROVE  IInv'
  BY <1>2, TragicEventIInv, RunMergeFailedIInv, MergeSucceedsIInv, MergeErrorIInv, Zenon
     DEF MergeSteps
<1>3. ASSUME NEW a \in Actors, LoopSteps(a) \/ start_fails(a) \/ AbortSteps(a)
      PROVE  IInv'
  BY <1>3, MaybeStallIInv, NoNextMergeIInv, StartIInv, StartFailsIInv, AbortMergesIInv,
     MergesAbortedIInv, SyncIInv, CleanupAndNotifyIInv, Zenon DEF LoopSteps, AbortSteps
<1>4. CASE UNCHANGED vars
  <2>1. TypeOK'
    BY <1>4, Zenon DEF IInv, TypeOK, vars, cmsVars, mergeVars, closeVars, bounds
  <2>2. /\ \A p \in Producers : CallInv(p)'
        /\ \A a \in Actors : CloseInv(a)'
        /\ \A m \in Merges : AliveInv(m)'
    BY <1>4, Zenon DEF IInv, CallInv, CloseInv, Closer, AliveInv, vars, cmsVars, closeVars
  <2>3. ClosedInv' /\ paused' = Paused(threads)'
    BY <1>4, Zenon DEF IInv, ClosedInv, Paused, Before, Big, vars, cmsVars, closeVars, bounds
  <2> QED BY <2>1, <2>2, <2>3, Zenon DEF IInv
<1> QED BY <1>1, <1>2, <1>3, <1>4, Zenon DEF Next

(* The inductive invariant of the scheduler and the writer holds, for any  *)
(* application threads, merges, sizes and limits.                          *)
THEOREM SchedulerInvariance == Spec => []IInv
<1>1. Init => IInv
  BY InitIInv, Zenon
<1>2. IInv /\ [Next]_vars => IInv'
  BY NextIInv, Zenon
<1> QED BY <1>1, <1>2, PTL DEF Spec

(* A closed writer has no merge, neither pending nor running.              *)
THEOREM AlwaysQuiet == Spec => []ClosedIsQuiet
<1>1. IInv => ClosedIsQuiet
  BY Zenon DEF IInv, TypeOK, ClosedInv, AliveInv, ClosedIsQuiet
<1> QED BY <1>1, SchedulerInvariance, PTL

(* The merges that are paused are the largest, and no more of them than    *)
(* needed for max_thread_count others to go on.                            *)
THEOREM AlwaysPausedForSmaller == Spec => []PausedForSmaller
<1>1. ASSUME IInv
      PROVE  PausedForSmaller
  <2>1. LoadOK /\ threads \in SUBSET Merges /\ paused = Paused(threads)
    BY <1>1, LoadFacts, Zenon DEF IInv, TypeOK
  <2> QED BY <2>1, PausedRight, Zenon DEF PausedForSmaller
<1> QED BY <1>1, SchedulerInvariance, PTL
=============================================================================
