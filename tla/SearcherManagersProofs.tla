----------------------- MODULE SearcherManagersProofs -----------------------
(***************************************************************************)
(* The inductive invariant of SearcherManagers: reference counts are exact *)
(* for any threads and any number of readers, so acquire never finds the   *)
(* current reader closed, and a refresh is seen by the thread that asked.  *)
(***************************************************************************)
EXTENDS SearcherManagers, FiniteSetTheorems, TLAPS

Opened == 1..opened

(* Between the acquire and the end of a refresh.                           *)
Refreshing == {"before", "open", "unchanged", "swap", "swapped", "refreshed", "failed"}
Acquiring == {"read", "inc", "recheck"}
Control == {"idle", "lock", "closing", "track", "insert", "undo", "find", "prune",
            "pruned", "closeAll"} \cup Refreshing \cup Acquiring

(* Types of the managers' and of the threads' variables.                   *)
ManagerTypes ==
  /\ index \in Nat /\ opened \in Readers /\ version \in [Readers -> Nat]
  /\ current \in Opened \cup {0}
  /\ refreshLock \in Threads \cup {None}
  /\ referenceLock \in Threads \cup {None}
  /\ operationLock \in Threads \cup {None}
  /\ tracked \subseteq Opened /\ lifeClosed \in BOOLEAN /\ faults \in Nat

ThreadTypes ==
  /\ todo \in [Threads -> SUBSET Opened]
  /\ pc \in [Threads -> Control] /\ goal \in [Threads -> {"use", "refresh"}]
  /\ ref \in [Threads -> Opened \cup {0}] /\ new \in [Threads -> Opened \cup {0}]
  /\ old \in [Threads -> Opened \cup {0}] /\ held \in [Threads -> Opened \cup {0}]
  /\ since \in [Threads -> Nat] /\ fresh \in [Threads -> Nat]

TypeOK == ManagerTypes /\ ThreadTypes /\ count \in [Readers -> Nat]

(* The locks are held exactly where the code holds them.                   *)
LocksAt(t) ==
  /\ refreshLock = t <=> \/ pc[t] \in Refreshing
                         \/ pc[t] \in Acquiring /\ goal[t] = "refresh"
  /\ referenceLock = t <=> pc[t] \in {"swapped", "closing"}
  /\ operationLock = t <=> pc[t] \in {"prune", "pruned", "closeAll"}
  /\ pc[t] = "lock" => goal[t] = "refresh"

(* What the threads have at hand, by control state.                        *)
ShapeAt(t) ==
  /\ pc[t] \in Refreshing \cup {"inc", "recheck", "find", "pruned"} => ref[t] # 0
  /\ pc[t] \in {"swap", "swapped", "refreshed"} => new[t] # 0
  /\ old[t] # 0 <=> pc[t] \in {"swapped", "closing"}
  /\ Recording(t) => held[t] # 0
  /\ pc[t] \in Acquiring /\ goal[t] = "use" => held[t] = 0
  /\ pc[t] = "find" => held[t] = 0
  /\ pc[t] \in {"prune", "pruned"} => todo[t] \subseteq tracked

(* Only the holder of the refresh lock replaces the current reader: it     *)
(* works on that one, unless the manager was closed meanwhile.             *)
CurrentInvAt(t) ==
  /\ pc[t] \in {"before", "open", "unchanged", "swap"} => current \in {0, ref[t]}
  /\ pc[t] = "inc" /\ goal[t] = "refresh" => current \in {0, ref[t]}
  /\ pc[t] = "swapped" => old[t] = ref[t] /\ current = new[t]
  /\ pc[t] = "refreshed" => current \in {0, new[t]}
  /\ pc[t] = "recheck" => count[ref[t]] = 0

(* Versions grow, and the current reader shows what refreshes promised.    *)
VersionInvAt(t) ==
  /\ since[t] <= index
  /\ current # 0 => fresh[t] <= version[current]
  /\ pc[t] = "inc" => fresh[t] <= version[ref[t]]
  /\ pc[t] = "unchanged" => since[t] <= version[ref[t]]
  /\ pc[t] \in {"swap", "swapped", "refreshed"} => since[t] <= version[new[t]]
  /\ pc[t] = "swap" => version[ref[t]] <= version[new[t]]

ThreadInv(t) == LocksAt(t) /\ ShapeAt(t) /\ CurrentInvAt(t) /\ VersionInvAt(t)

(* No reader is ahead of the index.                                        *)
Behind == \A r \in Readers : version[r] <= index

IInv == TypeOK /\ Behind /\ (\A t \in Threads : ThreadInv(t)) /\ RefCountsExact

(***************************************************************************)
(* Counting owners.                                                        *)
(***************************************************************************)
(* A step of thread t leaves the other threads' variables alone.           *)
Frame(t) ==
  \A v \in Threads : v # t =>
    /\ pc'[v] = pc[v] /\ goal'[v] = goal[v] /\ ref'[v] = ref[v] /\ new'[v] = new[v]
    /\ old'[v] = old[v] /\ held'[v] = held[v] /\ todo'[v] = todo[v]
    /\ since'[v] = since[v] /\ fresh'[v] = fresh[v]

(* A lock changes hands between t and nobody.                              *)
LockStep(lock, next, t) == next = lock \/ (lock \in {t, None} /\ next \in {t, None})

(* The manager is closed, or the refresh of t replaces the reader.         *)
CurrentStep(t) ==
  \/ current' = current
  \/ referenceLock = None /\ current' = 0
  \/ /\ referenceLock = None /\ refreshLock = t /\ current # 0
     /\ current' \in Opened /\ version[current] <= version[current']

(* What steps of a thread do to the state that all share: trackers are     *)
(* removed under the lock.                                                 *)
Mild(t) ==
  /\ index' = index /\ CurrentStep(t)
  /\ \A r \in Opened : version'[r] = version[r]
  /\ \A r \in Readers : version'[r] \in {version[r], index}
  /\ LockStep(refreshLock, refreshLock', t)
  /\ LockStep(referenceLock, referenceLock', t)
  /\ LockStep(operationLock, operationLock', t)
  /\ tracked \subseteq tracked' \/ operationLock \in {t, None}

(* A reader once closed stays so.                                          *)
StayClosed == \A r \in Opened : count[r] = 0 => count'[r] = 0

(* Slot <<k, u>> owns reader r after the step iff it did before.           *)
SameSlot(k, u, r) == Owns(k, u, r)' <=> Owns(k, u, r)

(* A step of thread t concerns its own slots and those of the managers.    *)
LEMMA OtherSlots ==
  ASSUME NEW t \in Threads, Frame(t), NEW r, NEW k \in Roles, NEW u \in Slots \ {t, None}
  PROVE  SameSlot(k, u, r)
<1>1. u \in Threads /\ u # t /\ u # None
  BY Zenon DEF Slots
<1> QED BY <1>1, Zenon DEF Frame, SameSlot, Owns

(* There are finitely many slots, and so finitely many owners.             *)
LEMMA OwnersFinite ==
  ASSUME NEW r
  PROVE  IsFiniteSet(Owners(r)) /\ IsFiniteSet(Owners(r)')
<1>1. IsFiniteSet(Roles)
  <2>1. IsFiniteSet({"manager"}) /\ IsFiniteSet({"lifetime"}) /\ IsFiniteSet({"held"})
    BY FS_Singleton, Zenon
  <2>2. IsFiniteSet({"manager"} \cup {"lifetime"} \cup {"held"} \cup {"refreshing"})
    BY <2>1, FS_AddElement, Zenon
  <2>3. IsFiniteSet({"manager"} \cup {"lifetime"} \cup {"held"} \cup {"refreshing"}
                      \cup {"new"} \cup {"old"})
    BY <2>2, FS_AddElement, Zenon
  <2>4. IsFiniteSet({"manager"} \cup {"lifetime"} \cup {"held"} \cup {"refreshing"}
                      \cup {"new"} \cup {"old"} \cup {"tracker"} \cup {"closing"})
    BY <2>3, FS_AddElement, Zenon
  <2>5. Roles = {"manager"} \cup {"lifetime"} \cup {"held"} \cup {"refreshing"}
                  \cup {"new"} \cup {"old"} \cup {"tracker"} \cup {"closing"}
    BY Zenon DEF Roles
  <2> QED BY <2>4, <2>5, Zenon
<1>2. IsFiniteSet(Slots)
  BY ManagerAssumption, FS_AddElement, Zenon DEF Slots
<1>3. IsFiniteSet(Roles \X Slots)
  BY <1>1, <1>2, FS_Product, Zenon
<1>4. Owners(r) \in SUBSET (Roles \X Slots) /\ Owners(r)' \in SUBSET (Roles \X Slots)
  BY Zenon DEF Owners
<1> QED BY <1>3, <1>4, FS_Subset, Zenon

(* A step of t that leaves the managers' references alone, slot by slot.   *)
LEMMA OwnSlots ==
  ASSUME NEW t \in Threads, Frame(t), current' = current, tracked' = tracked
  PROVE  \A r : \A k \in Roles : \A u \in Slots : u # t => SameSlot(k, u, r)
<1> SUFFICES ASSUME NEW r, NEW k \in Roles, NEW u \in Slots, u # t
             PROVE  SameSlot(k, u, r)
  BY Zenon
<1>1. CASE u = None
  BY <1>1, ManagerAssumption, Zenon DEF SameSlot, Owns
<1>2. CASE u # None
  BY <1>2, OtherSlots, Zenon
<1> QED BY <1>1, <1>2, Zenon

(* A step that changes no slot of a reader leaves its owners as they are.  *)
LEMMA Kept ==
  ASSUME NEW r, \A k \in Roles : \A u \in Slots : SameSlot(k, u, r)
  PROVE  Owners(r)' = Owners(r)
<1>1. \A o \in Roles \X Slots : o[1] \in Roles /\ o[2] \in Slots
  BY Zenon
<1>2. \A o \in Roles \X Slots : Owns(o[1], o[2], r)' <=> Owns(o[1], o[2], r)
  BY <1>1, Zenon DEF SameSlot
<1> QED BY <1>2, Zenon DEF Owners

(* A step that fills one slot adds one owner.                              *)
LEMMA Gained ==
  ASSUME NEW r, NEW k0 \in Roles, NEW u0 \in Slots, ~Owns(k0, u0, r), Owns(k0, u0, r)',
         \A k \in Roles : \A u \in Slots :
           ~(k = k0 /\ u = u0) => SameSlot(k, u, r)
  PROVE  Cardinality(Owners(r)') = Cardinality(Owners(r)) + 1
<1> DEFINE x == <<k0, u0>>
<1>1. \A o \in Roles \X Slots : o[1] \in Roles /\ o[2] \in Slots /\ o = <<o[1], o[2]>>
  OBVIOUS
<1>2. \A o \in Roles \X Slots : o # x => (Owns(o[1], o[2], r)' <=> Owns(o[1], o[2], r))
  BY <1>1, Zenon DEF SameSlot
<1>3. x \in Roles \X Slots /\ x[1] = k0 /\ x[2] = u0
  BY Zenon
<1>4. x \notin Owners(r) /\ x \in Owners(r)'
  BY <1>3, Zenon DEF Owners
<1>5. Owners(r)' = Owners(r) \cup {x}
  <2> HIDE DEF x
  <2> QED BY <1>2, <1>4, Zenon DEF Owners
<1> QED BY <1>4, <1>5, OwnersFinite, FS_AddElement, Zenon

(* A step that empties one slot takes one owner away.                      *)
LEMMA Lost ==
  ASSUME NEW r, NEW k0 \in Roles, NEW u0 \in Slots, Owns(k0, u0, r), ~Owns(k0, u0, r)',
         \A k \in Roles : \A u \in Slots :
           ~(k = k0 /\ u = u0) => SameSlot(k, u, r)
  PROVE  Cardinality(Owners(r)') = Cardinality(Owners(r)) - 1
<1> DEFINE x == <<k0, u0>>
<1>1. \A o \in Roles \X Slots : o[1] \in Roles /\ o[2] \in Slots /\ o = <<o[1], o[2]>>
  OBVIOUS
<1>2. \A o \in Roles \X Slots : o # x => (Owns(o[1], o[2], r)' <=> Owns(o[1], o[2], r))
  BY <1>1, Zenon DEF SameSlot
<1>3. x \in Roles \X Slots /\ x[1] = k0 /\ x[2] = u0
  BY Zenon
<1>4. x \in Owners(r) /\ x \notin Owners(r)'
  BY <1>3, Zenon DEF Owners
<1>5. Owners(r)' = Owners(r) \ {x}
  <2> HIDE DEF x
  <2> QED BY <1>2, <1>4, Zenon DEF Owners
<1> QED BY <1>4, <1>5, OwnersFinite, FS_RemoveElement, Zenon

(* A count that moves from one slot to another leaves their number.        *)
LEMMA Moved ==
  ASSUME NEW r, NEW k0 \in Roles, NEW u0 \in Slots, NEW k1 \in Roles, NEW u1 \in Slots,
         Owns(k0, u0, r), ~Owns(k0, u0, r)', ~Owns(k1, u1, r), Owns(k1, u1, r)',
         \A k \in Roles : \A u \in Slots :
           ~(k = k0 /\ u = u0) /\ ~(k = k1 /\ u = u1) => SameSlot(k, u, r)
  PROVE  Cardinality(Owners(r)') = Cardinality(Owners(r))
<1> DEFINE x == <<k0, u0>>
           y == <<k1, u1>>
<1>1. \A o \in Roles \X Slots : o[1] \in Roles /\ o[2] \in Slots /\ o = <<o[1], o[2]>>
  OBVIOUS
<1>2. \A o \in Roles \X Slots :
        o # x /\ o # y => (Owns(o[1], o[2], r)' <=> Owns(o[1], o[2], r))
  <2> SUFFICES ASSUME NEW o \in Roles \X Slots, o # x, o # y
               PROVE  SameSlot(o[1], o[2], r)
    BY Zenon DEF SameSlot
  <2> QED BY <1>1, Zenon
<1>3. /\ x \in Roles \X Slots /\ x[1] = k0 /\ x[2] = u0
      /\ y \in Roles \X Slots /\ y[1] = k1 /\ y[2] = u1
  BY Zenon
<1>4. x \in Owners(r) /\ x \notin Owners(r)' /\ y \notin Owners(r) /\ y \in Owners(r)'
  BY <1>3, Zenon DEF Owners
<1> HIDE DEF x, y
<1>5. Owners(r)' = (Owners(r) \ {x}) \cup {y}
  BY <1>2, <1>4, Zenon DEF Owners
<1>6. /\ IsFiniteSet(Owners(r) \ {x}) /\ y \notin Owners(r) \ {x}
      /\ Cardinality(Owners(r) \ {x}) = Cardinality(Owners(r)) - 1
  BY <1>4, OwnersFinite, FS_RemoveElement, Zenon
<1>7. Cardinality(Owners(r)) \in Nat
  BY OwnersFinite, FS_CardinalityType, Zenon
<1>8. Cardinality((Owners(r) \ {x}) \cup {y}) = Cardinality(Owners(r) \ {x}) + 1
  BY <1>6, FS_AddElement, Zenon
<1> QED BY <1>5, <1>6, <1>7, <1>8

(* An owner keeps the count of its reader above 0.                         *)
LEMMA OneOwner ==
  ASSUME IInv, NEW r \in Readers, NEW k \in Roles, NEW u \in Slots, Owns(k, u, r)
  PROVE  count[r] > 0
<1>1. <<k, u>> \in Owners(r)
  BY Zenon DEF Owners
<1>2. Cardinality(Owners(r)) \in Nat /\ Cardinality(Owners(r)) # 0
  BY <1>1, OwnersFinite, FS_CardinalityType, FS_EmptySet, Zenon
<1> QED BY <1>2 DEF IInv, RefCountsExact

(* Two owners keep it above 1: a release by one does not close the reader. *)
LEMMA TwoOwners ==
  ASSUME IInv, NEW r \in Readers, NEW k \in Roles, NEW u \in Slots, Owns(k, u, r),
         NEW l \in Roles, NEW v \in Slots, Owns(l, v, r), k # l
  PROVE  count[r] > 1
<1>1. {<<k, u>>, <<l, v>>} \in SUBSET Owners(r)
  BY DEF Owners
<1>2. Cardinality({<<k, u>>} \cup {<<l, v>>}) = 2
  <2>1. IsFiniteSet({<<k, u>>}) /\ Cardinality({<<k, u>>}) = 1
    BY FS_Singleton, Zenon
  <2>2. <<l, v>> \notin {<<k, u>>}
    BY Zenon
  <2>3. Cardinality({<<k, u>>} \cup {<<l, v>>}) = Cardinality({<<k, u>>}) + 1
    BY <2>1, <2>2, FS_AddElement, Zenon
  <2> QED BY <2>1, <2>3
<1>3. {<<k, u>>, <<l, v>>} = {<<k, u>>} \cup {<<l, v>>}
  BY Zenon
<1>4. Cardinality({<<k, u>>, <<l, v>>}) <= Cardinality(Owners(r))
  BY <1>1, OwnersFinite, FS_Subset, Zenon
<1>5. Cardinality(Owners(r)) \in Nat
  BY OwnersFinite, FS_CardinalityType, Zenon
<1> QED BY <1>2, <1>3, <1>4, <1>5 DEF IInv, RefCountsExact

(* A step that changes only slots of t, and one count with one of them, if *)
(* any, leaves the counts exact.                                           *)
LEMMA CountKept ==
  ASSUME IInv, NEW t \in Threads, Frame(t), count' = count, current' = current,
         tracked' = tracked, \A r \in Readers : \A k \in Roles : SameSlot(k, t, r)
  PROVE  RefCountsExact'
<1>1. \A r \in Readers : \A k \in Roles : \A u \in Slots : SameSlot(k, u, r)
  BY OwnSlots, Zenon
<1>2. \A r \in Readers : Owners(r)' = Owners(r)
  BY <1>1, Kept, Zenon
<1> QED BY <1>2, Zenon DEF IInv, RefCountsExact, Readers

(* They stay exact if one slot is filled and the count goes up by one.     *)
LEMMA CountGained ==
  ASSUME IInv, NEW t \in Threads, Frame(t), current' = current, tracked' = tracked,
         NEW r0 \in Readers, NEW k0 \in Roles, count'[r0] = count[r0] + 1,
         \A r \in Readers : r # r0 => count'[r] = count[r],
         ~Owns(k0, t, r0), Owns(k0, t, r0)',
         \A r \in Readers : \A k \in Roles : r # r0 \/ k # k0 => SameSlot(k, t, r)
  PROVE  RefCountsExact'
<1>1. \A r \in Readers : \A k \in Roles : \A u \in Slots :
        r # r0 \/ k # k0 \/ u # t => SameSlot(k, u, r)
  BY OwnSlots, Zenon
<1>2. Cardinality(Owners(r0)') = Cardinality(Owners(r0)) + 1
  <2>1. \A k \in Roles : \A u \in Slots : ~(k = k0 /\ u = t) => SameSlot(k, u, r0)
    BY <1>1, Zenon
  <2>2. t \in Slots
    BY Zenon DEF Slots
  <2> QED BY <2>1, <2>2, Gained, Zenon
<1>3. \A r \in Readers : r # r0 => Owners(r)' = Owners(r)
  BY <1>1, Kept, Zenon
<1> QED BY <1>2, <1>3, Zenon DEF IInv, RefCountsExact, Readers

(* They stay exact if one slot is emptied and the count goes down by one.  *)
LEMMA CountLost ==
  ASSUME IInv, NEW t \in Threads, Frame(t), current' = current, tracked' = tracked,
         NEW r0 \in Readers, NEW k0 \in Roles, count'[r0] = count[r0] - 1,
         \A r \in Readers : r # r0 => count'[r] = count[r],
         Owns(k0, t, r0), ~Owns(k0, t, r0)',
         \A r \in Readers : \A k \in Roles : r # r0 \/ k # k0 => SameSlot(k, t, r)
  PROVE  RefCountsExact'
<1>1. \A r \in Readers : \A k \in Roles : \A u \in Slots :
        r # r0 \/ k # k0 \/ u # t => SameSlot(k, u, r)
  BY OwnSlots, Zenon
<1>2. Cardinality(Owners(r0)') = Cardinality(Owners(r0)) - 1
  <2>1. \A k \in Roles : \A u \in Slots : ~(k = k0 /\ u = t) => SameSlot(k, u, r0)
    BY <1>1, Zenon
  <2>2. t \in Slots
    BY Zenon DEF Slots
  <2> QED BY <2>1, <2>2, Lost, Zenon
<1>3. \A r \in Readers : r # r0 => Owners(r)' = Owners(r)
  BY <1>1, Kept, Zenon
<1> QED BY <1>2, <1>3, Zenon DEF IInv, RefCountsExact, Readers

(* A step of no thread leaves the owners and the counts alone.             *)
LEMMA CountIdle ==
  ASSUME IInv, count' = count, current' = current, tracked' = tracked, pc' = pc, ref' = ref,
         new' = new, old' = old, held' = held, todo' = todo
  PROVE  RefCountsExact'
<1>1. \A r, k, u : SameSlot(k, u, r)
  BY DEF SameSlot, Owns
<1>2. \A r \in Readers : Owners(r)' = Owners(r)
  BY <1>1, Kept, Zenon
<1> QED BY <1>2, Zenon DEF IInv, RefCountsExact, Readers

(* Counts that only change hands stay exact.                               *)
LEMMA CountEach ==
  ASSUME IInv, count' = count,
         \A r \in Readers : Cardinality(Owners(r)') = Cardinality(Owners(r))
  PROVE  RefCountsExact'
BY Zenon DEF IInv, RefCountsExact, Readers

(* The other threads' part of the invariant survives a mild step of t.     *)
LEMMA OthersKept ==
  ASSUME IInv, NEW t \in Threads, Frame(t), Mild(t), StayClosed, NEW v \in Threads, v # t
  PROVE  ThreadInv(v)'
<1>1. /\ pc'[v] = pc[v] /\ goal'[v] = goal[v] /\ ref'[v] = ref[v] /\ new'[v] = new[v]
      /\ old'[v] = old[v] /\ held'[v] = held[v] /\ todo'[v] = todo[v]
      /\ since'[v] = since[v] /\ fresh'[v] = fresh[v]
  BY Zenon DEF Frame
<1>2. ThreadInv(v)
  BY Zenon DEF IInv
<1>3. LocksAt(v)'
  BY <1>1, <1>2, ManagerAssumption DEF Mild, LockStep, ThreadInv, LocksAt
<1>4. ShapeAt(v)'
  <2>1. pc[v] \in {"prune", "pruned"} => tracked \subseteq tracked'
    BY <1>2, ManagerAssumption, Zenon DEF Mild, ThreadInv, LocksAt
  <2> QED BY <1>1, <1>2, <2>1, Zenon DEF ThreadInv, ShapeAt, Recording
<1>5. CurrentInvAt(v)'
  <2>1. pc[v] = "recheck" => count'[ref[v]] = 0
    BY <1>2, Zenon DEF StayClosed, IInv, TypeOK, ThreadTypes, ThreadInv, ShapeAt, CurrentInvAt
  <2>2. \/ current' = current
        \/ current' = 0 /\ pc[v] # "swapped"
        \/ pc[v] \notin Refreshing /\ ~(pc[v] \in Acquiring /\ goal[v] = "refresh")
    BY <1>2, ManagerAssumption, Zenon DEF Mild, CurrentStep, ThreadInv, LocksAt
  <2> QED BY <1>1, <1>2, <2>1, <2>2, Zenon DEF ThreadInv, CurrentInvAt, Refreshing, Acquiring
<1>6. VersionInvAt(v)'
  <2>1. /\ ref[v] \in Opened \cup {0} /\ new[v] \in Opened \cup {0} /\ current \in Opened \cup {0}
        /\ Opened \subseteq Readers /\ version \in [Readers -> Nat] /\ fresh[v] \in Nat
    <3>1. opened \in Readers
      BY Zenon DEF IInv, TypeOK, ManagerTypes
    <3>2. Opened \subseteq Readers
      BY <3>1, ManagerAssumption DEF Opened, Readers
    <3> QED BY <3>2, Zenon DEF IInv, TypeOK, ManagerTypes, ThreadTypes
  <2>2. /\ pc[v] \in {"inc", "unchanged", "swap"} => version'[ref[v]] = version[ref[v]]
        /\ pc[v] \in {"swap", "swapped", "refreshed"} => version'[new[v]] = version[new[v]]
    BY <1>2, <2>1, Zenon DEF Mild, ThreadInv, ShapeAt, Refreshing
  <2>3. current' # 0 => fresh[v] <= version'[current']
    <3>1. CASE current' = current
      BY <1>2, <2>1, <3>1, Zenon DEF Mild, ThreadInv, VersionInvAt
    <3>2. CASE current # 0 /\ current' \in Opened /\ version[current] <= version[current']
      <4>1. fresh[v] <= version[current] /\ version'[current'] = version[current']
        BY <1>2, <3>2, Zenon DEF Mild, ThreadInv, VersionInvAt
      <4>2. version[current] \in Nat /\ version[current'] \in Nat
        BY <2>1, <3>2, Zenon
      <4> QED BY <2>1, <3>2, <4>1, <4>2
    <3> QED BY <3>1, <3>2, Zenon DEF Mild, CurrentStep
  <2>4. index' = index
    BY Zenon DEF Mild
  <2> QED BY <1>1, <1>2, <2>2, <2>3, <2>4, Zenon DEF ThreadInv, VersionInvAt
<1> QED BY <1>3, <1>4, <1>5, <1>6, Zenon DEF ThreadInv

(* So a mild step of t has to preserve t's part, the types and the counts. *)
LEMMA MildIInv ==
  ASSUME IInv, NEW t \in Threads, Frame(t), Mild(t), StayClosed, TypeOK', ThreadInv(t)',
         RefCountsExact'
  PROVE  IInv'
<1>1. \A v \in Threads : ThreadInv(v)'
  BY OthersKept, Zenon
<1>2. Behind'
  BY DEF IInv, TypeOK, ManagerTypes, Behind, Mild
<1> QED BY <1>1, <1>2, Zenon DEF IInv

(* What a thread has at hand are readers.                                  *)
LEMMA ThreadFacts ==
  ASSUME IInv, NEW t \in Threads
  PROVE  /\ ThreadInv(t) /\ ManagerTypes /\ goal[t] \in {"use", "refresh"}
         /\ ref[t] \in Readers \cup {0} /\ new[t] \in Readers \cup {0}
         /\ old[t] \in Readers \cup {0} /\ held[t] \in Readers \cup {0}
         /\ todo[t] \subseteq Readers /\ tracked \subseteq Readers /\ current \in Readers \cup {0}
         /\ Opened \subseteq Readers /\ 0 \notin Readers /\ since[t] \in Nat /\ fresh[t] \in Nat
<1>1. Opened \subseteq Readers /\ 0 \notin Readers
  BY ManagerAssumption DEF IInv, TypeOK, ManagerTypes, Opened, Readers
<1>2. /\ goal[t] \in {"use", "refresh"} /\ ref[t] \in Opened \cup {0} /\ new[t] \in Opened \cup {0}
      /\ old[t] \in Opened \cup {0} /\ held[t] \in Opened \cup {0} /\ todo[t] \subseteq Opened
      /\ since[t] \in Nat /\ fresh[t] \in Nat
  BY Zenon DEF IInv, TypeOK, ThreadTypes
<1>3. tracked \subseteq Opened /\ current \in Opened \cup {0}
  BY Zenon DEF IInv, TypeOK, ManagerTypes
<1> QED BY <1>1, <1>2, <1>3, Zenon DEF IInv, TypeOK

(* What a step of t does to the threads' and to the managers' variables.   *)
Local(t) == Frame(t) /\ ThreadTypes'
Shared(t) == Mild(t) /\ ManagerTypes'

(* A step that leaves every count and every owner alone.                   *)
LEMMA QuietIInv ==
  ASSUME IInv, NEW t \in Threads, Local(t), Shared(t), ThreadInv(t)', count' = count,
         current' = current, tracked' = tracked,
         \A r \in Readers : \A k \in Roles : SameSlot(k, t, r)
  PROVE  IInv'
<1>1. RefCountsExact'
  BY CountKept, Zenon DEF Local
<1>2. TypeOK'
  BY Zenon DEF IInv, TypeOK, Local, Shared
<1> QED BY <1>1, <1>2, MildIInv, Zenon DEF Local, Shared, StayClosed

(* A count of reader r0 is taken and fills a slot of t.                    *)
LEMMA GainIInv ==
  ASSUME IInv, NEW t \in Threads, Local(t), Shared(t), ThreadInv(t)', current' = current,
         tracked' = tracked, NEW r0 \in Readers, NEW k0 \in Roles, IncRef(r0),
         ~Owns(k0, t, r0), Owns(k0, t, r0)',
         \A r \in Readers : \A k \in Roles : r # r0 \/ k # k0 => SameSlot(k, t, r)
  PROVE  IInv'
<1>1. count \in [Readers -> Nat]
  BY Zenon DEF IInv, TypeOK
<1>2. count'[r0] = count[r0] + 1 /\ \A r \in Readers : r # r0 => count'[r] = count[r]
  BY <1>1, Zenon DEF IncRef, Set
<1>3. count' \in [Readers -> Nat]
  <2>1. count[r0] \in Nat /\ count[r0] > 0 /\ count[r0] + 1 \in Nat
    BY <1>1 DEF IncRef
  <2> QED BY <1>1, <2>1, Zenon DEF IncRef, Set
<1>4. RefCountsExact'
  BY <1>2, CountGained, Zenon DEF Local
<1>5. TypeOK'
  BY <1>3, Zenon DEF TypeOK, Local, Shared
<1>6. StayClosed
  BY <1>1, <1>2, ThreadFacts DEF IncRef, StayClosed
<1> QED BY <1>4, <1>5, <1>6, MildIInv, Zenon DEF Local, Shared

(* The count of a slot of t is given back.                                 *)
LEMMA LoseIInv ==
  ASSUME IInv, NEW t \in Threads, Local(t), Shared(t), ThreadInv(t)', current' = current,
         tracked' = tracked, NEW r0 \in Readers, NEW k0 \in Roles, DecRef(r0),
         Owns(k0, t, r0), ~Owns(k0, t, r0)',
         \A r \in Readers : \A k \in Roles : r # r0 \/ k # k0 => SameSlot(k, t, r)
  PROVE  IInv'
<1>1. count \in [Readers -> Nat]
  BY Zenon DEF IInv, TypeOK
<1>2. count'[r0] = count[r0] - 1 /\ \A r \in Readers : r # r0 => count'[r] = count[r]
  BY <1>1, Zenon DEF DecRef, Set
<1>3. count' \in [Readers -> Nat]
  <2>1. count[r0] \in Nat /\ count[r0] > 0 /\ count[r0] - 1 \in Nat
    BY <1>1 DEF DecRef
  <2> QED BY <1>1, <2>1, Zenon DEF DecRef, Set
<1>4. RefCountsExact'
  BY <1>2, CountLost, Zenon DEF Local
<1>5. TypeOK'
  BY <1>3, Zenon DEF TypeOK, Local, Shared
<1>6. StayClosed
  BY <1>1, <1>2, ThreadFacts DEF DecRef, StayClosed
<1> QED BY <1>4, <1>5, <1>6, MildIInv, Zenon DEF Local, Shared

(* Counts that move from slot to slot.                                     *)
LEMMA MoveIInv ==
  ASSUME IInv, NEW t \in Threads, Local(t), Shared(t), ThreadInv(t)', count' = count,
         \A r \in Readers : Cardinality(Owners(r)') = Cardinality(Owners(r))
  PROVE  IInv'
<1>1. TypeOK'
  BY Zenon DEF IInv, TypeOK, Local, Shared
<1> QED BY <1>1, CountEach, MildIInv, Zenon DEF Local, Shared, StayClosed

(***************************************************************************)
(* Every step preserves the invariant.                                     *)
(***************************************************************************)
(* A writer changes the index.                                             *)
LEMMA IndexChangesIInv ==
  ASSUME IInv, IndexChanges
  PROVE  IInv'
<1>1. TypeOK'
  BY DEF IInv, TypeOK, ManagerTypes, ThreadTypes, Opened, IndexChanges, locks, lifetime, refresh
<1>2. Behind'
  BY DEF IInv, TypeOK, ManagerTypes, Behind, IndexChanges
<1>3. ASSUME NEW t \in Threads
      PROVE  ThreadInv(t)'
  <2>1. ThreadInv(t) /\ since[t] \in Nat /\ index \in Nat
    BY Zenon DEF IInv, TypeOK, ManagerTypes, ThreadTypes
  <2>2. LocksAt(t)' /\ ShapeAt(t)' /\ CurrentInvAt(t)'
    BY <2>1, Zenon DEF ThreadInv, LocksAt, ShapeAt, Recording, CurrentInvAt, IndexChanges,
       locks, lifetime, refresh
  <2>3. VersionInvAt(t)'
    BY <2>1 DEF ThreadInv, VersionInvAt, IndexChanges, refresh
  <2> QED BY <2>2, <2>3, Zenon DEF ThreadInv
<1>4. RefCountsExact'
  <2>1. /\ count' = count /\ current' = current /\ tracked' = tracked /\ pc' = pc
        /\ ref' = ref /\ new' = new /\ old' = old /\ held' = held /\ todo' = todo
    BY Zenon DEF IndexChanges, lifetime, refresh
  <2> QED BY <2>1, CountIdle, Zenon
<1> QED BY <1>1, <1>2, <1>3, <1>4, Zenon DEF IInv

(* ReferenceManager::acquire begins.                                       *)
LEMMA AcquireIInv ==
  ASSUME IInv, NEW t \in Threads, acquire(t)
  PROVE  IInv'
<1>1. /\ pc[t] = "idle" /\ pc'[t] = "read" /\ goal'[t] = "use" /\ held[t] = 0
      /\ UNCHANGED <<ref[t], new[t], old[t], held[t], todo[t], since[t], fresh[t]>>
      /\ UNCHANGED <<index, version, opened, current, tracked, lifeClosed,
                    refreshLock, referenceLock, operationLock>>
  BY Zenon DEF IInv, TypeOK, ThreadTypes, acquire, Go, Set, locks, readers, lifetime, refresh
<1>2. faults' = faults
  BY Zenon DEF acquire
<1>3. Local(t)
  BY <1>1, Zenon DEF Local, Frame, IInv, TypeOK, ThreadTypes, ManagerTypes, Opened, Control,
     Refreshing, Acquiring, acquire, Go, Set, locks, readers, lifetime, refresh
<1>4. Shared(t)
  BY <1>1, <1>2, ManagerAssumption, ThreadFacts, Zenon DEF Shared, Mild, CurrentStep, LockStep,
     ManagerTypes, Opened, ThreadInv, LocksAt, Refreshing, Acquiring
<1>5. ThreadInv(t)'
  BY <1>1, ManagerAssumption, ThreadFacts, Zenon DEF ThreadInv, LocksAt, ShapeAt, Recording,
     CurrentInvAt, VersionInvAt, Refreshing, Acquiring
<1>6. count' = count /\ \A r \in Readers : \A k \in Roles : SameSlot(k, t, r)
  BY <1>1, ManagerAssumption, Zenon DEF SameSlot, Owns, acquire
<1> QED BY <1>1, <1>3, <1>4, <1>5, <1>6, QuietIInv, Zenon

(* It reads the reference.                                                 *)
LEMMA ReadCurrentIInv ==
  ASSUME IInv, NEW t \in Threads, read_current(t)
  PROVE  IInv'
<1>1. /\ pc[t] = "read" /\ pc'[t] = (IF current = 0 THEN "idle" ELSE "inc")
      /\ goal'[t] = (IF current = 0 THEN "use" ELSE goal[t]) /\ ref'[t] = current
      /\ refreshLock' = (IF current = 0 /\ goal[t] = "refresh" THEN None ELSE refreshLock)
      /\ UNCHANGED <<new[t], old[t], held[t], todo[t], since[t], fresh[t]>>
      /\ UNCHANGED <<index, version, opened, current, tracked, lifeClosed,
                    referenceLock, operationLock>>
  BY Zenon DEF IInv, TypeOK, ThreadTypes, read_current, Go, Set, locks, readers, lifetime,
     refresh
<1>2. /\ goal[t] \in {"use", "refresh"}
  BY <1>1, ThreadFacts, Zenon DEF ManagerTypes, ThreadInv, ShapeAt, Recording, Refreshing,
     Acquiring
<1>3. faults' = faults
  BY Zenon DEF read_current
<1>4. Local(t)
  BY <1>1, Zenon DEF Local, Frame, IInv, TypeOK, ThreadTypes, ManagerTypes, Opened, Control,
     Refreshing, Acquiring, read_current, Go, Set, locks, readers, lifetime, refresh
<1>5. Shared(t)
  BY <1>1, <1>2, <1>3, ManagerAssumption, ThreadFacts, Zenon DEF Shared, Mild, CurrentStep,
     LockStep, ManagerTypes, Opened, ThreadInv, LocksAt, Refreshing, Acquiring
<1>6. ThreadInv(t)'
  BY <1>1, <1>2, ManagerAssumption, ThreadFacts, Zenon DEF ThreadInv, LocksAt, ShapeAt,
     Recording, CurrentInvAt, VersionInvAt, Refreshing, Acquiring
<1>7. count' = count /\ \A r \in Readers : \A k \in Roles : SameSlot(k, t, r)
  BY <1>1, <1>2, ManagerAssumption, Zenon DEF SameSlot, Owns, read_current
<1> QED BY <1>1, <1>4, <1>5, <1>6, <1>7, QuietIInv, Zenon

(* try_inc_ref, by outcome.                                                *)
IncToUse(t) ==
  /\ goal[t] = "use" /\ Go(t, "inc", "idle") /\ IncRef(ref[t])
  /\ held' = Set(held, t, ref[t]) /\ ref' = Set(ref, t, 0)
  /\ UNCHANGED <<readers, current, locks, lifetime, goal, refresh, faults>>

IncToRefresh(t) ==
  /\ goal[t] = "refresh" /\ Go(t, "inc", "before") /\ IncRef(ref[t])
  /\ UNCHANGED <<readers, current, locks, lifetime, goal, ref, refresh, held, faults>>

IncFails(t) ==
  /\ Go(t, "inc", "recheck") /\ count[ref[t]] = 0
  /\ UNCHANGED <<readers, count, current, locks, lifetime, goal, ref, refresh, held, faults>>

(* The application has the searcher.                                       *)
LEMMA IncToUseIInv ==
  ASSUME IInv, NEW t \in Threads, IncToUse(t)
  PROVE  IInv'
<1>1. /\ pc[t] = "inc" /\ pc'[t] = "idle" /\ ref'[t] = 0 /\ held'[t] = ref[t]
      /\ goal[t] = "use"
      /\ UNCHANGED <<goal[t], new[t], old[t], todo[t], since[t], fresh[t]>>
      /\ UNCHANGED <<index, version, opened, current, tracked, lifeClosed,
                    refreshLock, referenceLock, operationLock>>
  BY Zenon DEF IInv, TypeOK, ThreadTypes, IncToUse, Go, Set, locks, readers, lifetime, refresh
<1>2. /\ ref[t] \in Readers /\ held[t] = 0 /\ 0 \notin Readers
  BY <1>1, ThreadFacts, Zenon DEF ManagerTypes, ThreadInv, ShapeAt, Recording, Refreshing,
     Acquiring
<1>3. faults' = faults
  BY Zenon DEF IncToUse
<1>4. Local(t)
  BY <1>1, Zenon DEF Local, Frame, IInv, TypeOK, ThreadTypes, ManagerTypes, Opened, Control,
     Refreshing, Acquiring, IncToUse, Go, Set, locks, readers, lifetime, refresh
<1>5. Shared(t)
  BY <1>1, <1>2, <1>3, ManagerAssumption, ThreadFacts, Zenon DEF Shared, Mild, CurrentStep,
     LockStep, ManagerTypes, Opened, ThreadInv, LocksAt, Refreshing, Acquiring
<1>6. ThreadInv(t)'
  BY <1>1, <1>2, ManagerAssumption, ThreadFacts, Zenon DEF ThreadInv, LocksAt, ShapeAt,
     Recording, CurrentInvAt, VersionInvAt, Refreshing, Acquiring
<1>7. PICK r0 \in Readers : r0 = ref[t] /\ IncRef(r0)
  BY <1>2, Zenon DEF IncToUse
<1>8. "held" \in Roles /\ ~Owns("held", t, r0) /\ Owns("held", t, r0)'
  BY <1>1, <1>2, <1>7, Zenon DEF Roles, Owns
<1>9. \A r \in Readers : \A k \in Roles : r # r0 \/ k # "held" => SameSlot(k, t, r)
  <2> SUFFICES ASSUME NEW r \in Readers, NEW k \in Roles, r # r0 \/ k # "held"
               PROVE  SameSlot(k, t, r)
    BY Zenon
  <2>1. t # None
    BY ManagerAssumption, Zenon
  <2> QED BY <1>1, <1>2, <1>7, <2>1, Zenon DEF SameSlot, Owns
<1> QED BY <1>1, <1>4, <1>5, <1>6, <1>7, <1>8, <1>9, GainIInv, Zenon

(* The refresh has the reader that it works on.                            *)
LEMMA IncToRefreshIInv ==
  ASSUME IInv, NEW t \in Threads, IncToRefresh(t)
  PROVE  IInv'
<1>1. /\ pc[t] = "inc" /\ pc'[t] = "before" /\ goal[t] = "refresh"
      /\ UNCHANGED <<goal[t], ref[t], new[t], old[t], held[t], todo[t], since[t],
                    fresh[t]>>
      /\ UNCHANGED <<index, version, opened, current, tracked, lifeClosed,
                    refreshLock, referenceLock, operationLock>>
  BY Zenon DEF IInv, TypeOK, ThreadTypes, IncToRefresh, Go, Set, locks, readers, lifetime,
     refresh
<1>2. /\ ref[t] \in Readers /\ 0 \notin Readers
  BY <1>1, ThreadFacts, Zenon DEF ManagerTypes, ThreadInv, ShapeAt, Recording, Refreshing,
     Acquiring
<1>3. faults' = faults
  BY Zenon DEF IncToRefresh
<1>4. Local(t)
  BY <1>1, Zenon DEF Local, Frame, IInv, TypeOK, ThreadTypes, ManagerTypes, Opened, Control,
     Refreshing, Acquiring, IncToRefresh, Go, Set, locks, readers, lifetime, refresh
<1>5. Shared(t)
  BY <1>1, <1>2, <1>3, ManagerAssumption, ThreadFacts, Zenon DEF Shared, Mild, CurrentStep,
     LockStep, ManagerTypes, Opened, ThreadInv, LocksAt, Refreshing, Acquiring
<1>6. ThreadInv(t)'
  BY <1>1, <1>2, ManagerAssumption, ThreadFacts, Zenon DEF ThreadInv, LocksAt, ShapeAt,
     Recording, CurrentInvAt, VersionInvAt, Refreshing, Acquiring
<1>7. PICK r0 \in Readers : r0 = ref[t] /\ IncRef(r0)
  BY <1>2, Zenon DEF IncToRefresh
<1>8. "refreshing" \in Roles /\ ~Owns("refreshing", t, r0) /\ Owns("refreshing", t, r0)'
  BY <1>1, <1>2, <1>7, Zenon DEF Roles, Owns
<1>9. \A r \in Readers : \A k \in Roles : r # r0 \/ k # "refreshing" => SameSlot(k, t, r)
  <2> SUFFICES ASSUME NEW r \in Readers, NEW k \in Roles, r # r0 \/ k # "refreshing"
               PROVE  SameSlot(k, t, r)
    BY Zenon
  <2>1. t # None
    BY ManagerAssumption, Zenon
  <2> QED BY <1>1, <1>2, <1>7, <2>1, Zenon DEF SameSlot, Owns
<1> QED BY <1>1, <1>4, <1>5, <1>6, <1>7, <1>8, <1>9, GainIInv, Zenon

(* The reader was closed meanwhile.                                        *)
LEMMA IncFailsIInv ==
  ASSUME IInv, NEW t \in Threads, IncFails(t)
  PROVE  IInv'
<1>1. /\ pc[t] = "inc" /\ pc'[t] = "recheck" /\ count[ref[t]] = 0 /\ count' = count
      /\ UNCHANGED <<goal[t], ref[t], new[t], old[t], held[t], todo[t], since[t],
                    fresh[t]>>
      /\ UNCHANGED <<index, version, opened, current, tracked, lifeClosed,
                    refreshLock, referenceLock, operationLock>>
  BY Zenon DEF IInv, TypeOK, ThreadTypes, IncFails, Go, Set, locks, readers, lifetime, refresh
<1>2. faults' \in Nat
  BY ThreadFacts, Zenon DEF ManagerTypes, Fail, IncFails
<1>3. Local(t)
  BY <1>1, Zenon DEF Local, Frame, IInv, TypeOK, ThreadTypes, ManagerTypes, Opened, Control,
     Refreshing, Acquiring, IncFails, Go, Set, locks, readers, lifetime, refresh
<1>4. Shared(t)
  BY <1>1, <1>2, ManagerAssumption, ThreadFacts, Zenon DEF Shared, Mild, CurrentStep, LockStep,
     ManagerTypes, Opened, ThreadInv, LocksAt, Refreshing, Acquiring
<1>5. ThreadInv(t)'
  BY <1>1, ManagerAssumption, ThreadFacts, Zenon DEF ThreadInv, LocksAt, ShapeAt, Recording,
     CurrentInvAt, VersionInvAt, Refreshing, Acquiring
<1>6. count' = count /\ \A r \in Readers : \A k \in Roles : SameSlot(k, t, r)
  BY <1>1, ManagerAssumption, Zenon DEF SameSlot, Owns, IncFails
<1> QED BY <1>1, <1>3, <1>4, <1>5, <1>6, QuietIInv, Zenon

(* The current reader is open, for the manager owns a count of it.         *)
LEMMA RecheckIInv ==
  ASSUME IInv, NEW t \in Threads, recheck(t)
  PROVE  IInv'
<1>1. current # ref[t]
  <2>1. CASE current = 0
    BY <2>1, Zenon DEF IInv, ThreadInv, ShapeAt, recheck, Go
  <2>2. CASE current # 0
    <3>1. current \in Readers /\ Owns("manager", None, current)
      BY <2>2, ManagerAssumption DEF IInv, TypeOK, ManagerTypes, Opened, Readers, Owns
    <3>2. "manager" \in Roles /\ None \in Slots
      BY Zenon DEF Roles, Slots
    <3>3. count[current] > 0
      BY <3>1, <3>2, OneOwner, Zenon
    <3>4. count[ref[t]] = 0
      BY Zenon DEF IInv, ThreadInv, CurrentInvAt, recheck, Go
    <3> QED BY <3>3, <3>4
  <2> QED BY <2>1, <2>2, Zenon
<1>2. /\ pc[t] = "recheck" /\ pc'[t] = "read"
      /\ UNCHANGED <<goal[t], ref[t], new[t], old[t], held[t], todo[t], since[t],
                    fresh[t]>>
      /\ UNCHANGED <<index, version, opened, current, tracked, lifeClosed,
                    refreshLock, referenceLock, operationLock>>
  BY <1>1, Zenon DEF IInv, TypeOK, ThreadTypes, recheck, Go, Set, locks, readers, lifetime,
     refresh
<1>3. faults' = faults
  BY Zenon DEF recheck
<1>4. Local(t)
  BY <1>1, <1>2, Zenon DEF Local, Frame, IInv, TypeOK, ThreadTypes, ManagerTypes, Opened,
     Control, Refreshing, Acquiring, recheck, Go, Set, locks, readers, lifetime, refresh
<1>5. Shared(t)
  BY <1>1, <1>2, <1>3, ManagerAssumption, ThreadFacts, Zenon DEF Shared, Mild, CurrentStep,
     LockStep, ManagerTypes, Opened, ThreadInv, LocksAt, Refreshing, Acquiring
<1>6. ThreadInv(t)'
  BY <1>2, ManagerAssumption, ThreadFacts, Zenon DEF ThreadInv, LocksAt, ShapeAt, Recording,
     CurrentInvAt, VersionInvAt, Refreshing, Acquiring
<1>7. count' = count /\ \A r \in Readers : \A k \in Roles : SameSlot(k, t, r)
  BY <1>2, ManagerAssumption, Zenon DEF SameSlot, Owns, recheck
<1> QED BY <1>2, <1>4, <1>5, <1>6, <1>7, QuietIInv, Zenon

(* A searcher is released.                                                 *)
LEMMA ReleaseIInv ==
  ASSUME IInv, NEW t \in Threads, release(t)
  PROVE  IInv'
<1>1. /\ pc[t] = "idle" /\ pc'[t] = "idle" /\ held'[t] = 0 /\ held[t] # 0
      /\ UNCHANGED <<goal[t], ref[t], new[t], old[t], todo[t], since[t], fresh[t]>>
      /\ UNCHANGED <<index, version, opened, current, tracked, lifeClosed,
                    refreshLock, referenceLock, operationLock>>
  BY Zenon DEF IInv, TypeOK, ThreadTypes, release, Go, Set, locks, readers, lifetime, refresh
<1>2. /\ held[t] \in Readers /\ 0 \notin Readers
  BY <1>1, ThreadFacts, Zenon DEF ManagerTypes, ThreadInv, ShapeAt, Recording, Refreshing,
     Acquiring
<1>3. faults' = faults
  BY Zenon DEF release
<1>4. Local(t)
  BY <1>1, Zenon DEF Local, Frame, IInv, TypeOK, ThreadTypes, ManagerTypes, Opened, Control,
     Refreshing, Acquiring, release, Go, Set, locks, readers, lifetime, refresh
<1>5. Shared(t)
  BY <1>1, <1>2, <1>3, ManagerAssumption, ThreadFacts, Zenon DEF Shared, Mild, CurrentStep,
     LockStep, ManagerTypes, Opened, ThreadInv, LocksAt, Refreshing, Acquiring
<1>6. ThreadInv(t)'
  BY <1>1, <1>2, ManagerAssumption, ThreadFacts, Zenon DEF ThreadInv, LocksAt, ShapeAt,
     Recording, CurrentInvAt, VersionInvAt, Refreshing, Acquiring
<1>7. PICK r0 \in Readers : r0 = held[t] /\ DecRef(r0)
  BY <1>2, Zenon DEF release
<1>8. "held" \in Roles /\ Owns("held", t, r0) /\ ~Owns("held", t, r0)'
  BY <1>1, <1>2, <1>7, Zenon DEF Roles, Owns
<1>9. \A r \in Readers : \A k \in Roles : r # r0 \/ k # "held" => SameSlot(k, t, r)
  <2> SUFFICES ASSUME NEW r \in Readers, NEW k \in Roles, r # r0 \/ k # "held"
               PROVE  SameSlot(k, t, r)
    BY Zenon
  <2>1. t # None
    BY ManagerAssumption, Zenon
  <2> QED BY <1>1, <1>2, <1>7, <2>1, Zenon DEF SameSlot, Owns
<1> QED BY <1>1, <1>4, <1>5, <1>6, <1>7, <1>8, <1>9, LoseIInv, Zenon

(* A refresh begins.                                                       *)
LEMMA MaybeRefreshIInv ==
  ASSUME IInv, NEW t \in Threads, maybe_refresh(t)
  PROVE  IInv'
<1>1. /\ pc[t] = "idle" /\ pc'[t] = "read" /\ goal'[t] = "refresh" /\ since'[t] = index
      /\ refreshLock' = t /\ refreshLock = None
      /\ UNCHANGED <<ref[t], new[t], old[t], held[t], todo[t], fresh[t]>>
      /\ UNCHANGED <<index, version, opened, current, tracked, lifeClosed,
                    referenceLock, operationLock>>
  BY Zenon DEF IInv, TypeOK, ThreadTypes, maybe_refresh, Go, Set, locks, readers, lifetime,
     refresh
<1>2. /\ index \in Nat
  BY <1>1, ThreadFacts, Zenon DEF ManagerTypes, ThreadInv, ShapeAt, Recording, Refreshing,
     Acquiring
<1>3. faults' = faults
  BY Zenon DEF maybe_refresh
<1>4. Local(t)
  BY <1>1, Zenon DEF Local, Frame, IInv, TypeOK, ThreadTypes, ManagerTypes, Opened, Control,
     Refreshing, Acquiring, maybe_refresh, Go, Set, locks, readers, lifetime, refresh
<1>5. Shared(t)
  BY <1>1, <1>2, <1>3, ManagerAssumption, ThreadFacts, Zenon DEF Shared, Mild, CurrentStep,
     LockStep, ManagerTypes, Opened, ThreadInv, LocksAt, Refreshing, Acquiring
<1>6. ThreadInv(t)'
  BY <1>1, <1>2, ManagerAssumption, ThreadFacts DEF ThreadInv, LocksAt, ShapeAt, Recording,
     CurrentInvAt, VersionInvAt, Refreshing, Acquiring, ManagerTypes
<1>7. count' = count /\ \A r \in Readers : \A k \in Roles : SameSlot(k, t, r)
  BY <1>1, <1>2, ManagerAssumption, Zenon DEF SameSlot, Owns, maybe_refresh
<1> QED BY <1>1, <1>4, <1>5, <1>6, <1>7, QuietIInv, Zenon

(* A refresh begins and may have to wait.                                  *)
LEMMA MaybeRefreshBlockingIInv ==
  ASSUME IInv, NEW t \in Threads, maybe_refresh_blocking(t)
  PROVE  IInv'
<1>1. /\ pc[t] = "idle" /\ pc'[t] = "lock" /\ goal'[t] = "refresh" /\ since'[t] = index
      /\ UNCHANGED <<ref[t], new[t], old[t], held[t], todo[t], fresh[t]>>
      /\ UNCHANGED <<index, version, opened, current, tracked, lifeClosed,
                    refreshLock, referenceLock, operationLock>>
  BY Zenon DEF IInv, TypeOK, ThreadTypes, maybe_refresh_blocking, Go, Set, locks, readers,
     lifetime, refresh
<1>2. /\ index \in Nat
  BY <1>1, ThreadFacts, Zenon DEF ManagerTypes, ThreadInv, ShapeAt, Recording, Refreshing,
     Acquiring
<1>3. faults' = faults
  BY Zenon DEF maybe_refresh_blocking
<1>4. Local(t)
  BY <1>1, Zenon DEF Local, Frame, IInv, TypeOK, ThreadTypes, ManagerTypes, Opened, Control,
     Refreshing, Acquiring, maybe_refresh_blocking, Go, Set, locks, readers, lifetime, refresh
<1>5. Shared(t)
  BY <1>1, <1>2, <1>3, ManagerAssumption, ThreadFacts, Zenon DEF Shared, Mild, CurrentStep,
     LockStep, ManagerTypes, Opened, ThreadInv, LocksAt, Refreshing, Acquiring
<1>6. ThreadInv(t)'
  BY <1>1, <1>2, ManagerAssumption, ThreadFacts DEF ThreadInv, LocksAt, ShapeAt, Recording,
     CurrentInvAt, VersionInvAt, Refreshing, Acquiring, ManagerTypes
<1>7. count' = count /\ \A r \in Readers : \A k \in Roles : SameSlot(k, t, r)
  BY <1>1, <1>2, ManagerAssumption, Zenon DEF SameSlot, Owns, maybe_refresh_blocking
<1> QED BY <1>1, <1>4, <1>5, <1>6, <1>7, QuietIInv, Zenon

(* It has the refresh lock.                                                *)
LEMMA LockRefreshIInv ==
  ASSUME IInv, NEW t \in Threads, lock_refresh(t)
  PROVE  IInv'
<1>1. /\ pc[t] = "lock" /\ pc'[t] = "read" /\ refreshLock' = t /\ refreshLock = None
      /\ UNCHANGED <<goal[t], ref[t], new[t], old[t], held[t], todo[t], since[t],
                    fresh[t]>>
      /\ UNCHANGED <<index, version, opened, current, tracked, lifeClosed,
                    referenceLock, operationLock>>
  BY Zenon DEF IInv, TypeOK, ThreadTypes, lock_refresh, Go, Set, locks, readers, lifetime,
     refresh
<1>2. faults' = faults
  BY Zenon DEF lock_refresh
<1>3. Local(t)
  BY <1>1, Zenon DEF Local, Frame, IInv, TypeOK, ThreadTypes, ManagerTypes, Opened, Control,
     Refreshing, Acquiring, lock_refresh, Go, Set, locks, readers, lifetime, refresh
<1>4. Shared(t)
  BY <1>1, <1>2, ManagerAssumption, ThreadFacts, Zenon DEF Shared, Mild, CurrentStep, LockStep,
     ManagerTypes, Opened, ThreadInv, LocksAt, Refreshing, Acquiring
<1>5. ThreadInv(t)'
  BY <1>1, ManagerAssumption, ThreadFacts, Zenon DEF ThreadInv, LocksAt, ShapeAt, Recording,
     CurrentInvAt, VersionInvAt, Refreshing, Acquiring
<1>6. count' = count /\ \A r \in Readers : \A k \in Roles : SameSlot(k, t, r)
  BY <1>1, ManagerAssumption, Zenon DEF SameSlot, Owns, lock_refresh
<1> QED BY <1>1, <1>3, <1>4, <1>5, <1>6, QuietIInv, Zenon

(* The listeners are told.                                                 *)
LEMMA BeforeRefreshIInv ==
  ASSUME IInv, NEW t \in Threads, before_refresh(t)
  PROVE  IInv'
<1>1. /\ pc[t] = "before" /\ pc'[t] \in {"open", "failed"}
      /\ UNCHANGED <<goal[t], ref[t], new[t], old[t], held[t], todo[t], since[t],
                    fresh[t]>>
      /\ UNCHANGED <<index, version, opened, current, tracked, lifeClosed,
                    refreshLock, referenceLock, operationLock>>
  BY Zenon DEF IInv, TypeOK, ThreadTypes, before_refresh, Go, Set, locks, readers, lifetime,
     refresh
<1>2. faults' \in Nat
  BY ThreadFacts DEF ManagerTypes, Fail, before_refresh
<1>3. Local(t)
  BY <1>1, Zenon DEF Local, Frame, IInv, TypeOK, ThreadTypes, ManagerTypes, Opened, Control,
     Refreshing, Acquiring, before_refresh, Go, Set, locks, readers, lifetime, refresh
<1>4. Shared(t)
  BY <1>1, <1>2, ManagerAssumption, ThreadFacts, Zenon DEF Shared, Mild, CurrentStep, LockStep,
     ManagerTypes, Opened, ThreadInv, LocksAt, Refreshing, Acquiring
<1>5. ThreadInv(t)'
  BY <1>1, ManagerAssumption, ThreadFacts, Zenon DEF ThreadInv, LocksAt, ShapeAt, Recording,
     CurrentInvAt, VersionInvAt, Refreshing, Acquiring
<1>6. count' = count /\ \A r \in Readers : \A k \in Roles : SameSlot(k, t, r)
  <2>1. count' = count /\ t # None
    BY ManagerAssumption, Zenon DEF before_refresh
  <2>2. ASSUME NEW r \in Readers, NEW k \in Roles
        PROVE  SameSlot(k, t, r)
    BY <1>1, <2>1, Zenon DEF SameSlot, Owns
  <2> QED BY <2>1, <2>2, Zenon
<1> QED BY <1>1, <1>3, <1>4, <1>5, <1>6, QuietIInv, Zenon

(* refresh_if_needed, by outcome.                                          *)
OpenUnchanged(t) ==
  /\ index = version[ref[t]] /\ Go(t, "open", "unchanged")
  /\ UNCHANGED <<readers, count, current, locks, lifetime, goal, ref, refresh, held, faults>>

OpenNew(t) ==
  /\ opened < MaxReaders /\ Go(t, "open", "swap")
  /\ opened' = opened + 1 /\ new' = Set(new, t, opened + 1)
  /\ count' = Set(count, opened + 1, 1) /\ version' = Set(version, opened + 1, index)
  /\ UNCHANGED <<index, current, locks, lifetime, goal, ref, old, since, fresh, held, faults>>

OpenFails(t) ==
  /\ Go(t, "open", "failed") /\ Fail
  /\ UNCHANGED <<readers, count, current, locks, lifetime, goal, ref, refresh, held>>

(* The index has not changed.                                              *)
LEMMA OpenUnchangedIInv ==
  ASSUME IInv, NEW t \in Threads, OpenUnchanged(t)
  PROVE  IInv'
<1>1. /\ pc[t] = "open" /\ pc'[t] = "unchanged" /\ index = version[ref[t]]
      /\ UNCHANGED <<goal[t], ref[t], new[t], old[t], held[t], todo[t], since[t],
                    fresh[t]>>
      /\ UNCHANGED <<index, version, opened, current, tracked, lifeClosed,
                    refreshLock, referenceLock, operationLock>>
  BY Zenon DEF IInv, TypeOK, ThreadTypes, OpenUnchanged, Go, Set, locks, readers, lifetime,
     refresh
<1>2. faults' = faults
  BY Zenon DEF OpenUnchanged
<1>3. Local(t)
  BY <1>1, Zenon DEF Local, Frame, IInv, TypeOK, ThreadTypes, ManagerTypes, Opened, Control,
     Refreshing, Acquiring, OpenUnchanged, Go, Set, locks, readers, lifetime, refresh
<1>4. Shared(t)
  BY <1>1, <1>2, ManagerAssumption, ThreadFacts, Zenon DEF Shared, Mild, CurrentStep, LockStep,
     ManagerTypes, Opened, ThreadInv, LocksAt, Refreshing, Acquiring
<1>5. ThreadInv(t)'
  BY <1>1, ManagerAssumption, ThreadFacts, Zenon DEF ThreadInv, LocksAt, ShapeAt, Recording,
     CurrentInvAt, VersionInvAt, Refreshing, Acquiring
<1>6. count' = count /\ \A r \in Readers : \A k \in Roles : SameSlot(k, t, r)
  <2>1. count' = count /\ t # None
    BY ManagerAssumption, Zenon DEF OpenUnchanged
  <2>2. ASSUME NEW r \in Readers, NEW k \in Roles
        PROVE  SameSlot(k, t, r)
    BY <1>1, <2>1, Zenon DEF SameSlot, Owns
  <2> QED BY <2>1, <2>2, Zenon
<1> QED BY <1>1, <1>3, <1>4, <1>5, <1>6, QuietIInv, Zenon

(* The new reader or the factory fails.                                    *)
LEMMA OpenFailsIInv ==
  ASSUME IInv, NEW t \in Threads, OpenFails(t)
  PROVE  IInv'
<1>1. /\ pc[t] = "open" /\ pc'[t] = "failed"
      /\ UNCHANGED <<goal[t], ref[t], new[t], old[t], held[t], todo[t], since[t],
                    fresh[t]>>
      /\ UNCHANGED <<index, version, opened, current, tracked, lifeClosed,
                    refreshLock, referenceLock, operationLock>>
  BY Zenon DEF IInv, TypeOK, ThreadTypes, OpenFails, Go, Set, locks, readers, lifetime, refresh
<1>2. faults' \in Nat
  BY ThreadFacts DEF ManagerTypes, Fail, OpenFails
<1>3. Local(t)
  BY <1>1, Zenon DEF Local, Frame, IInv, TypeOK, ThreadTypes, ManagerTypes, Opened, Control,
     Refreshing, Acquiring, OpenFails, Go, Set, locks, readers, lifetime, refresh
<1>4. Shared(t)
  BY <1>1, <1>2, ManagerAssumption, ThreadFacts, Zenon DEF Shared, Mild, CurrentStep, LockStep,
     ManagerTypes, Opened, ThreadInv, LocksAt, Refreshing, Acquiring
<1>5. ThreadInv(t)'
  BY <1>1, ManagerAssumption, ThreadFacts, Zenon DEF ThreadInv, LocksAt, ShapeAt, Recording,
     CurrentInvAt, VersionInvAt, Refreshing, Acquiring
<1>6. count' = count /\ \A r \in Readers : \A k \in Roles : SameSlot(k, t, r)
  <2>1. count' = count /\ t # None
    BY ManagerAssumption, Zenon DEF OpenFails
  <2>2. ASSUME NEW r \in Readers, NEW k \in Roles
        PROVE  SameSlot(k, t, r)
    BY <1>1, <2>1, Zenon DEF SameSlot, Owns
  <2> QED BY <2>1, <2>2, Zenon
<1> QED BY <1>1, <1>3, <1>4, <1>5, <1>6, QuietIInv, Zenon

(* A new reader is opened, with the count of the refresh.                  *)
LEMMA OpenNewIInv ==
  ASSUME IInv, NEW t \in Threads, OpenNew(t)
  PROVE  IInv'
<1>1. /\ opened \in Nat /\ opened + 1 \in Readers /\ opened + 1 \notin Opened
      /\ \A r \in Opened : r \in Readers
      /\ version \in [Readers -> Nat] /\ count \in [Readers -> Nat]
  <2>1. /\ opened \in Readers /\ opened < MaxReaders
        /\ version \in [Readers -> Nat] /\ count \in [Readers -> Nat]
    BY Zenon DEF IInv, TypeOK, ManagerTypes, OpenNew
  <2> QED BY <2>1, ManagerAssumption DEF Opened, Readers
<1>2. Local(t)
  BY <1>1 DEF Local, Frame, IInv, TypeOK, ThreadTypes, ManagerTypes, Opened, Control,
     Refreshing, OpenNew, Go, Set, lifetime
<1>3. Shared(t)
  BY <1>1, ManagerAssumption DEF Shared, Mild, CurrentStep, LockStep, IInv, TypeOK, ThreadTypes,
     ManagerTypes, Opened, OpenNew, Go, Set, locks, lifetime
<1>4. /\ pc[t] = "open" /\ pc'[t] = "swap" /\ new'[t] = opened + 1
      /\ version' = [version EXCEPT ![opened + 1] = index] /\ opened' = opened + 1
      /\ UNCHANGED <<goal[t], ref[t], old[t], held[t], todo[t], since[t], fresh[t]>>
      /\ UNCHANGED <<index, current, tracked, lifeClosed, refreshLock,
                    referenceLock, operationLock>>
  BY <1>1, Zenon DEF IInv, TypeOK, ThreadTypes, OpenNew, Go, Set, locks, lifetime
<1>5. ThreadInv(t)'
  <2>1. ThreadInv(t) /\ ref[t] \in Opened /\ current \in Opened \cup {0} /\ index \in Nat
    BY <1>4, Zenon DEF IInv, TypeOK, ManagerTypes, ThreadTypes, ThreadInv, ShapeAt, Refreshing
  <2>2. version'[opened + 1] = index /\ \A r \in Opened : version'[r] = version[r]
    BY <1>1, <1>4, Zenon
  <2>3. version[ref[t]] <= index
    BY <1>1, <2>1, Zenon DEF IInv, Behind
  <2>4. LocksAt(t)' /\ ShapeAt(t)' /\ CurrentInvAt(t)'
    BY <1>1, <1>4, <2>1, ManagerAssumption DEF ThreadInv, LocksAt, ShapeAt, Recording,
       CurrentInvAt, Refreshing, Acquiring
  <2>5. VersionInvAt(t)'
    BY <1>1, <1>4, <2>1, <2>2, <2>3, Zenon DEF ThreadInv, VersionInvAt
  <2> QED BY <2>4, <2>5, Zenon DEF ThreadInv
<1>6. PICK r0 \in Readers : r0 = opened + 1
  BY <1>1, Zenon
<1>7. \A k \in Roles : \A u \in Slots : ~Owns(k, u, r0)
  <2>1. r0 \notin Opened \cup {0}
    BY <1>1, <1>6
  <2>2. /\ current \in Opened \cup {0} /\ tracked \subseteq Opened
        /\ \A u \in Threads : /\ held[u] \in Opened \cup {0} /\ ref[u] \in Opened \cup {0}
                              /\ new[u] \in Opened \cup {0} /\ old[u] \in Opened \cup {0}
                              /\ todo[u] \subseteq Opened
    BY Zenon DEF IInv, TypeOK, ManagerTypes, ThreadTypes
  <2> QED BY <2>1, <2>2, Zenon DEF Owns
<1>8. count[r0] = 0
  <2>1. \A o \in Roles \X Slots : o[1] \in Roles /\ o[2] \in Slots
    BY Zenon
  <2>2. Owners(r0) = {}
    BY <1>7, <2>1, Zenon DEF Owners
  <2> QED BY <2>2, FS_EmptySet, Zenon DEF IInv, RefCountsExact
<1>9. count'[r0] = count[r0] + 1 /\ \A r \in Readers : r # r0 => count'[r] = count[r]
  BY <1>1, <1>6, <1>8 DEF OpenNew, Set
<1>10. current' = current /\ tracked' = tracked
  BY Zenon DEF OpenNew, lifetime
<1>11. "new" \in Roles /\ ~Owns("new", t, r0) /\ Owns("new", t, r0)'
  BY <1>6, <1>7, Zenon DEF IInv, TypeOK, ThreadTypes, Roles, Slots, Owns, OpenNew, Go, Set
<1>12. \A r \in Readers : \A k \in Roles : r # r0 \/ k # "new" => SameSlot(k, t, r)
  <2> SUFFICES ASSUME NEW r \in Readers, NEW k \in Roles, r # r0 \/ k # "new"
               PROVE  SameSlot(k, t, r)
    BY Zenon
  <2>1. t # None
    BY ManagerAssumption, Zenon
  <2> QED BY <1>4, <1>6, <2>1, Zenon DEF SameSlot, Owns
<1>13. RefCountsExact'
  BY <1>2, <1>6, <1>9, <1>10, <1>11, <1>12, CountGained, Zenon DEF Local
<1>14. TypeOK'
  BY <1>1, <1>2, <1>3, Zenon DEF TypeOK, Local, Shared, OpenNew, Set
<1>15. StayClosed
  BY <1>1, Zenon DEF StayClosed, OpenNew, Set
<1> QED BY <1>2, <1>3, <1>5, <1>13, <1>14, <1>15, MildIInv, Zenon DEF Local, Shared

(* swap_reference, by outcome.                                             *)
SwapClosed(t) ==
  /\ referenceLock = None /\ current = 0 /\ Go(t, "swap", "failed") /\ DecRef(new[t])
  /\ UNCHANGED <<readers, current, locks, lifetime, goal, ref, refresh, held, faults>>

SwapOpen(t) ==
  /\ referenceLock = None /\ current # 0 /\ Go(t, "swap", "swapped")
  /\ old' = Set(old, t, current) /\ current' = new[t] /\ referenceLock' = t
  /\ UNCHANGED <<readers, count, refreshLock, operationLock, lifetime, goal, ref, new, since,
                 fresh, held, faults>>

(* The manager was closed: the new reader is released.                     *)
LEMMA SwapClosedIInv ==
  ASSUME IInv, NEW t \in Threads, SwapClosed(t)
  PROVE  IInv'
<1>1. /\ pc[t] = "swap" /\ pc'[t] = "failed"
      /\ UNCHANGED <<goal[t], ref[t], new[t], old[t], held[t], todo[t], since[t],
                    fresh[t]>>
      /\ UNCHANGED <<index, version, opened, current, tracked, lifeClosed,
                    refreshLock, referenceLock, operationLock>>
  BY Zenon DEF IInv, TypeOK, ThreadTypes, SwapClosed, Go, Set, locks, readers, lifetime, refresh
<1>2. /\ new[t] \in Readers /\ 0 \notin Readers
  BY <1>1, ThreadFacts, Zenon DEF ManagerTypes, ThreadInv, ShapeAt, Recording, Refreshing,
     Acquiring
<1>3. faults' = faults
  BY Zenon DEF SwapClosed
<1>4. Local(t)
  BY <1>1, Zenon DEF Local, Frame, IInv, TypeOK, ThreadTypes, ManagerTypes, Opened, Control,
     Refreshing, Acquiring, SwapClosed, Go, Set, locks, readers, lifetime, refresh
<1>5. Shared(t)
  BY <1>1, <1>2, <1>3, ManagerAssumption, ThreadFacts, Zenon DEF Shared, Mild, CurrentStep,
     LockStep, ManagerTypes, Opened, ThreadInv, LocksAt, Refreshing, Acquiring
<1>6. ThreadInv(t)'
  BY <1>1, <1>2, ManagerAssumption, ThreadFacts, Zenon DEF ThreadInv, LocksAt, ShapeAt,
     Recording, CurrentInvAt, VersionInvAt, Refreshing, Acquiring
<1>7. PICK r0 \in Readers : r0 = new[t] /\ DecRef(r0)
  BY <1>2, Zenon DEF SwapClosed
<1>8. "new" \in Roles /\ Owns("new", t, r0) /\ ~Owns("new", t, r0)'
  BY <1>1, <1>2, <1>7, Zenon DEF Roles, Owns
<1>9. \A r \in Readers : \A k \in Roles : r # r0 \/ k # "new" => SameSlot(k, t, r)
  <2> SUFFICES ASSUME NEW r \in Readers, NEW k \in Roles, r # r0 \/ k # "new"
               PROVE  SameSlot(k, t, r)
    BY Zenon
  <2>1. t # None
    BY ManagerAssumption, Zenon
  <2> QED BY <1>1, <1>2, <1>7, <2>1, Zenon DEF SameSlot, Owns
<1> QED BY <1>1, <1>4, <1>5, <1>6, <1>7, <1>8, <1>9, LoseIInv, Zenon

(* The counts move from the refresh to the manager and from it to old.     *)
LEMMA SwapOpenIInv ==
  ASSUME IInv, NEW t \in Threads, SwapOpen(t)
  PROVE  IInv'
<1>1. /\ new[t] \in Opened /\ current = ref[t] /\ current \in Opened /\ refreshLock = t
      /\ version[current] <= version[new[t]] /\ pc[t] = "swap"
  BY ManagerAssumption, Zenon DEF IInv, TypeOK, ThreadTypes, ManagerTypes, ThreadInv, LocksAt,
     ShapeAt, CurrentInvAt, VersionInvAt, Refreshing, SwapOpen, Go
<1>2. /\ pc[t] = "swap" /\ pc'[t] = "swapped" /\ old'[t] = current /\ current' = new[t]
      /\ referenceLock' = t /\ current # 0 /\ referenceLock = None
      /\ UNCHANGED <<goal[t], ref[t], new[t], held[t], todo[t], since[t], fresh[t]>>
      /\ UNCHANGED <<index, version, opened, tracked, lifeClosed, refreshLock,
                    operationLock>>
  BY <1>1, Zenon DEF IInv, TypeOK, ThreadTypes, SwapOpen, Go, Set, locks, readers, lifetime,
     refresh
<1>3. /\ old[t] = 0 /\ new[t] \in Readers /\ current \in Readers /\ version[current] \in Nat
      /\ version[new[t]] \in Nat /\ 0 \notin Readers
  BY <1>1, <1>2, ThreadFacts, Zenon DEF ManagerTypes, ThreadInv, ShapeAt, Recording, Refreshing,
     Acquiring
<1>4. faults' = faults
  BY Zenon DEF SwapOpen
<1>5. Local(t)
  BY <1>1, <1>2, Zenon DEF Local, Frame, IInv, TypeOK, ThreadTypes, ManagerTypes, Opened,
     Control, Refreshing, Acquiring, SwapOpen, Go, Set, locks, readers, lifetime, refresh
<1>6. Shared(t)
  BY <1>1, <1>2, <1>3, <1>4, ManagerAssumption, ThreadFacts, Zenon DEF Shared, Mild,
     CurrentStep, LockStep, ManagerTypes, Opened, ThreadInv, LocksAt, Refreshing, Acquiring
<1>7. ThreadInv(t)'
  BY <1>2, <1>3, ManagerAssumption, ThreadFacts DEF ThreadInv, LocksAt, ShapeAt, Recording,
     CurrentInvAt, VersionInvAt, Refreshing, Acquiring
<1>8. ASSUME NEW r \in Readers
      PROVE  Cardinality(Owners(r)') = Cardinality(Owners(r))
  <2>1. /\ \A k \in Roles : k # "manager" \/ (r = current <=> r = new[t]) => SameSlot(k, None, r)
        /\ \A k \in Roles :
             (k = "old" => r # current) /\ (k = "new" => r # new[t]) => SameSlot(k, t, r)
    BY <1>1, <1>2, <1>3, ManagerAssumption, Zenon DEF SameSlot, Owns
  <2>2. \A k \in Roles : \A u \in Slots : u \notin {t, None} => SameSlot(k, u, r)
    BY <1>5, OtherSlots, Zenon DEF Local
  <2>3. CASE r = current /\ r # new[t]
    <3>1. /\ "manager" \in Roles /\ None \in Slots /\ "old" \in Roles /\ t \in Slots
          /\ Owns("manager", None, r) /\ ~Owns("manager", None, r)'
          /\ ~Owns("old", t, r) /\ Owns("old", t, r)'
      BY <1>1, <1>2, <1>3, <2>3, ManagerAssumption, Zenon DEF Owns, Roles, Slots
    <3>2. \A k \in Roles : \A u \in Slots :
            ~(k = "manager" /\ u = None) /\ ~(k = "old" /\ u = t) => SameSlot(k, u, r)
      BY <2>1, <2>2, <2>3, Zenon
    <3> QED BY <3>1, <3>2, Moved
  <2>4. CASE r # current /\ r = new[t]
    <3>1. /\ "new" \in Roles /\ t \in Slots /\ "manager" \in Roles /\ None \in Slots
          /\ Owns("new", t, r) /\ ~Owns("new", t, r)'
          /\ ~Owns("manager", None, r) /\ Owns("manager", None, r)'
      BY <1>1, <1>2, <1>3, <2>4, ManagerAssumption, Zenon DEF Owns, Roles, Slots
    <3>2. \A k \in Roles : \A u \in Slots :
            ~(k = "new" /\ u = t) /\ ~(k = "manager" /\ u = None) => SameSlot(k, u, r)
      BY <2>1, <2>2, <2>4, Zenon
    <3> QED BY <3>1, <3>2, Moved
  <2>5. CASE r = current /\ r = new[t]
    <3>1. /\ "new" \in Roles /\ t \in Slots /\ "old" \in Roles /\ t \in Slots
          /\ Owns("new", t, r) /\ ~Owns("new", t, r)'
          /\ ~Owns("old", t, r) /\ Owns("old", t, r)'
      BY <1>1, <1>2, <1>3, <2>5, ManagerAssumption, Zenon DEF Owns, Roles, Slots
    <3>2. \A k \in Roles : \A u \in Slots :
            ~(k = "new" /\ u = t) /\ ~(k = "old" /\ u = t) => SameSlot(k, u, r)
      BY <2>1, <2>2, <2>5, Zenon
    <3> QED BY <3>1, <3>2, Moved
  <2>6. CASE r # current /\ r # new[t]
    <3>1. \A k \in Roles : \A u \in Slots : SameSlot(k, u, r)
      BY <2>1, <2>2, <2>6, Zenon
    <3> QED BY <3>1, Kept, Zenon
  <2> QED BY <2>3, <2>4, <2>5, <2>6, Zenon
<1>9. count' = count
  BY Zenon DEF SwapOpen
<1> QED BY <1>5, <1>6, <1>7, <1>8, <1>9, MoveIInv, Zenon

(* The refresh still owns a count of the old reader: it does not close.    *)
ReleaseKept(t) ==
  /\ Go(t, "swapped", "refreshed") /\ DecRef(old[t])
  /\ old' = Set(old, t, 0) /\ referenceLock' = None
  /\ UNCHANGED <<readers, current, refreshLock, operationLock, lifetime, goal, ref, new,
                 since, fresh, held, faults>>

(* So release_old closes nothing, and its error path, which would release  *)
(* the new reader although it is current, is never taken.                  *)
LEMMA ReleaseOldIsKept ==
  ASSUME IInv, NEW t \in Threads, release_old(t)
  PROVE  ReleaseKept(t)
<1>1. /\ old[t] \in Readers /\ new[t] \in Readers
      /\ Owns("old", t, old[t]) /\ Owns("refreshing", t, old[t])
  BY ManagerAssumption DEF IInv, TypeOK, ManagerTypes, ThreadTypes, Opened, Readers, Refreshing,
     ThreadInv, ShapeAt, CurrentInvAt, Owns, release_old
<1>2. "old" \in Roles /\ "refreshing" \in Roles /\ t \in Slots /\ "old" # "refreshing"
  BY Zenon DEF Roles, Slots
<1>3. count[old[t]] > 1
  BY <1>1, <1>2, TwoOwners, Zenon
<1>4. PICK failed \in {f \in 0..1 : f = 1 => Closes(old[t]) /\ faults > 0} :
        /\ Go(t, "swapped", IF failed = 1 THEN "failed" ELSE "refreshed")
        /\ count' = [count EXCEPT ![old[t]] = @ - 1, ![new[t]] = @ - failed]
        /\ faults' = faults - failed
  BY Zenon DEF release_old
<1>5. failed = 0
  BY <1>3, <1>4 DEF Closes
<1>6. count \in [Readers -> Nat] /\ faults \in Nat
  BY Zenon DEF IInv, TypeOK, ManagerTypes
<1>7. count' \in [Readers -> Int]
  BY <1>1, <1>4, <1>5, <1>6
<1>8. count'[old[t]] = count[old[t]] - 1 /\ \A r \in Readers : r # old[t] => count'[r] = count[r]
  BY <1>1, <1>4, <1>5, <1>6
<1>9. DecRef(old[t])
  <2>1. count' = [count EXCEPT ![old[t]] = count[old[t]] - 1]
    BY <1>1, <1>6, <1>7, <1>8, Zenon
  <2>2. count[old[t]] \in Nat
    BY <1>1, <1>6, Zenon
  <2> QED BY <1>3, <2>1, <2>2 DEF DecRef, Set
<1>10. faults' = faults /\ Go(t, "swapped", "refreshed")
  BY <1>4, <1>5, <1>6 DEF Go
<1>11. /\ old' = Set(old, t, 0) /\ referenceLock' = None
       /\ UNCHANGED <<readers, current, refreshLock, operationLock, lifetime, goal, ref, new,
                      since, fresh, held>>
  BY Zenon DEF release_old
<1> QED BY <1>9, <1>10, <1>11, Zenon DEF ReleaseKept

(* The old reader is released.                                             *)
LEMMA ReleaseKeptIInv ==
  ASSUME IInv, NEW t \in Threads, ReleaseKept(t)
  PROVE  IInv'
<1>1. /\ pc[t] = "swapped" /\ pc'[t] = "refreshed" /\ old'[t] = 0 /\ referenceLock' = None
      /\ UNCHANGED <<goal[t], ref[t], new[t], held[t], todo[t], since[t], fresh[t]>>
      /\ UNCHANGED <<index, version, opened, current, tracked, lifeClosed,
                    refreshLock, operationLock>>
  BY Zenon DEF IInv, TypeOK, ThreadTypes, ReleaseKept, Go, Set, locks, readers, lifetime,
     refresh
<1>2. /\ old[t] \in Readers /\ 0 \notin Readers
  BY <1>1, ThreadFacts, Zenon DEF ManagerTypes, ThreadInv, ShapeAt, Recording, Refreshing,
     Acquiring
<1>3. faults' = faults
  BY Zenon DEF ReleaseKept
<1>4. Local(t)
  BY <1>1, Zenon DEF Local, Frame, IInv, TypeOK, ThreadTypes, ManagerTypes, Opened, Control,
     Refreshing, Acquiring, ReleaseKept, Go, Set, locks, readers, lifetime, refresh
<1>5. Shared(t)
  BY <1>1, <1>2, <1>3, ManagerAssumption, ThreadFacts, Zenon DEF Shared, Mild, CurrentStep,
     LockStep, ManagerTypes, Opened, ThreadInv, LocksAt, Refreshing, Acquiring
<1>6. ThreadInv(t)'
  BY <1>1, <1>2, ManagerAssumption, ThreadFacts, Zenon DEF ThreadInv, LocksAt, ShapeAt,
     Recording, CurrentInvAt, VersionInvAt, Refreshing, Acquiring
<1>7. PICK r0 \in Readers : r0 = old[t] /\ DecRef(r0)
  BY <1>2, Zenon DEF ReleaseKept
<1>8. "old" \in Roles /\ Owns("old", t, r0) /\ ~Owns("old", t, r0)'
  BY <1>1, <1>2, <1>7, Zenon DEF Roles, Owns
<1>9. \A r \in Readers : \A k \in Roles : r # r0 \/ k # "old" => SameSlot(k, t, r)
  <2> SUFFICES ASSUME NEW r \in Readers, NEW k \in Roles, r # r0 \/ k # "old"
               PROVE  SameSlot(k, t, r)
    BY Zenon
  <2>1. t # None
    BY ManagerAssumption, Zenon
  <2> QED BY <1>1, <1>2, <1>7, <2>1, Zenon DEF SameSlot, Owns
<1> QED BY <1>1, <1>4, <1>5, <1>6, <1>7, <1>8, <1>9, LoseIInv, Zenon

(* A refresh ends.                                                         *)
LEMMA FinishRefreshIInv ==
  ASSUME IInv, NEW t \in Threads, finish_refresh(t)
  PROVE  IInv'
<1>1. /\ pc[t] \in {"unchanged", "refreshed", "failed"} /\ pc'[t] = "idle"
      /\ goal'[t] = "use" /\ ref'[t] = 0 /\ new'[t] = 0 /\ since'[t] = 0
      /\ (fresh'[t] = fresh[t] \/ (pc[t] # "failed" /\ fresh'[t] = since[t]))
      /\ refreshLock' = None
      /\ UNCHANGED <<old[t], held[t], todo[t]>>
      /\ UNCHANGED <<index, version, opened, current, tracked, lifeClosed,
                    referenceLock, operationLock>>
  BY Zenon DEF IInv, TypeOK, ThreadTypes, finish_refresh, Go, Set, locks, readers, lifetime,
     refresh
<1>2. /\ ref[t] \in Readers /\ index \in Nat /\ 0 \notin Readers
  BY <1>1, ThreadFacts, Zenon DEF ManagerTypes, ThreadInv, ShapeAt, Recording, Refreshing,
     Acquiring
<1>3. faults' \in Nat
  BY ThreadFacts DEF ManagerTypes, Fail, finish_refresh
<1>4. Local(t)
  BY <1>1, Zenon DEF Local, Frame, IInv, TypeOK, ThreadTypes, ManagerTypes, Opened, Control,
     Refreshing, Acquiring, finish_refresh, Go, Set, locks, readers, lifetime, refresh
<1>5. Shared(t)
  BY <1>1, <1>2, <1>3, ManagerAssumption, ThreadFacts, Zenon DEF Shared, Mild, CurrentStep,
     LockStep, ManagerTypes, Opened, ThreadInv, LocksAt, Refreshing, Acquiring
<1>6. ThreadInv(t)'
  BY <1>1, <1>2, ManagerAssumption, ThreadFacts DEF ThreadInv, LocksAt, ShapeAt, Recording,
     CurrentInvAt, VersionInvAt, Refreshing, Acquiring, ManagerTypes
<1>7. PICK r0 \in Readers : r0 = ref[t] /\ DecRef(r0)
  BY <1>2, Zenon DEF finish_refresh
<1>8. "refreshing" \in Roles /\ Owns("refreshing", t, r0) /\ ~Owns("refreshing", t, r0)'
  BY <1>1, <1>2, <1>7, Zenon DEF Roles, Owns
<1>9. \A r \in Readers : \A k \in Roles : r # r0 \/ k # "refreshing" => SameSlot(k, t, r)
  <2> SUFFICES ASSUME NEW r \in Readers, NEW k \in Roles, r # r0 \/ k # "refreshing"
               PROVE  SameSlot(k, t, r)
    BY Zenon
  <2>1. t # None
    BY ManagerAssumption, Zenon
  <2> QED BY <1>1, <1>2, <1>7, <2>1, Zenon DEF SameSlot, Owns
<1> QED BY <1>1, <1>4, <1>5, <1>6, <1>7, <1>8, <1>9, LoseIInv, Zenon

(* close takes the reference away.                                         *)
LEMMA CloseIInv ==
  ASSUME IInv, NEW t \in Threads, close(t)
  PROVE  IInv'
<1>1. /\ pc[t] = "idle" /\ pc'[t] = "closing" /\ old'[t] = current /\ current' = 0
      /\ referenceLock' = t /\ current # 0 /\ referenceLock = None
      /\ UNCHANGED <<goal[t], ref[t], new[t], held[t], todo[t], since[t], fresh[t]>>
      /\ UNCHANGED <<index, version, opened, tracked, lifeClosed, refreshLock,
                    operationLock>>
  BY Zenon DEF IInv, TypeOK, ThreadTypes, close, Go, Set, locks, readers, lifetime, refresh
<1>2. /\ old[t] = 0 /\ 0 \notin Readers
  BY <1>1, ThreadFacts, Zenon DEF ManagerTypes, ThreadInv, ShapeAt, Recording, Refreshing,
     Acquiring
<1>3. faults' = faults
  BY Zenon DEF close
<1>4. Local(t)
  BY <1>1, Zenon DEF Local, Frame, IInv, TypeOK, ThreadTypes, ManagerTypes, Opened, Control,
     Refreshing, Acquiring, close, Go, Set, locks, readers, lifetime, refresh
<1>5. Shared(t)
  BY <1>1, <1>2, <1>3, ManagerAssumption, ThreadFacts, Zenon DEF Shared, Mild, CurrentStep,
     LockStep, ManagerTypes, Opened, ThreadInv, LocksAt, Refreshing, Acquiring
<1>6. ThreadInv(t)'
  BY <1>1, <1>2, ManagerAssumption, ThreadFacts, Zenon DEF ThreadInv, LocksAt, ShapeAt,
     Recording, CurrentInvAt, VersionInvAt, Refreshing, Acquiring
<1>7. ASSUME NEW r \in Readers
      PROVE  Cardinality(Owners(r)') = Cardinality(Owners(r))
  <2>1. /\ \A k \in Roles : k # "manager" \/ r # current => SameSlot(k, None, r)
        /\ \A k \in Roles : k # "old" \/ r # current => SameSlot(k, t, r)
    BY <1>1, <1>2, ManagerAssumption, Zenon DEF SameSlot, Owns
  <2>2. \A k \in Roles : \A u \in Slots : u \notin {t, None} => SameSlot(k, u, r)
    BY <1>4, OtherSlots, Zenon DEF Local
  <2>3. CASE r = current
    <3>1. /\ "manager" \in Roles /\ None \in Slots /\ "old" \in Roles /\ t \in Slots
          /\ Owns("manager", None, r) /\ ~Owns("manager", None, r)'
          /\ ~Owns("old", t, r) /\ Owns("old", t, r)'
      BY <1>1, <1>2, <2>3, ManagerAssumption, Zenon DEF Owns, Roles, Slots
    <3>2. \A k \in Roles : \A u \in Slots :
            ~(k = "manager" /\ u = None) /\ ~(k = "old" /\ u = t) => SameSlot(k, u, r)
      BY <2>1, <2>2, <2>3, Zenon
    <3> QED BY <3>1, <3>2, Moved
  <2>4. CASE ~(r = current)
    <3>1. \A k \in Roles : \A u \in Slots : SameSlot(k, u, r)
      BY <2>1, <2>2, <2>4, Zenon
    <3> QED BY <3>1, Kept, Zenon
  <2> QED BY <2>3, <2>4, Zenon
<1>8. count' = count
  BY Zenon DEF close
<1> QED BY <1>4, <1>5, <1>6, <1>7, <1>8, MoveIInv, Zenon

(* close releases the reader.                                              *)
LEMMA CloseReleaseIInv ==
  ASSUME IInv, NEW t \in Threads, close_release(t)
  PROVE  IInv'
<1>1. /\ pc[t] = "closing" /\ pc'[t] = "idle" /\ old'[t] = 0 /\ referenceLock' = None
      /\ UNCHANGED <<goal[t], ref[t], new[t], held[t], todo[t], since[t], fresh[t]>>
      /\ UNCHANGED <<index, version, opened, current, tracked, lifeClosed,
                    refreshLock, operationLock>>
  BY Zenon DEF IInv, TypeOK, ThreadTypes, close_release, Go, Set, locks, readers, lifetime,
     refresh
<1>2. /\ old[t] \in Readers /\ 0 \notin Readers
  BY <1>1, ThreadFacts, Zenon DEF ManagerTypes, ThreadInv, ShapeAt, Recording, Refreshing,
     Acquiring
<1>3. faults' = faults
  BY Zenon DEF close_release
<1>4. Local(t)
  BY <1>1, Zenon DEF Local, Frame, IInv, TypeOK, ThreadTypes, ManagerTypes, Opened, Control,
     Refreshing, Acquiring, close_release, Go, Set, locks, readers, lifetime, refresh
<1>5. Shared(t)
  BY <1>1, <1>2, <1>3, ManagerAssumption, ThreadFacts, Zenon DEF Shared, Mild, CurrentStep,
     LockStep, ManagerTypes, Opened, ThreadInv, LocksAt, Refreshing, Acquiring
<1>6. ThreadInv(t)'
  BY <1>1, <1>2, ManagerAssumption, ThreadFacts, Zenon DEF ThreadInv, LocksAt, ShapeAt,
     Recording, CurrentInvAt, VersionInvAt, Refreshing, Acquiring
<1>7. PICK r0 \in Readers : r0 = old[t] /\ DecRef(r0)
  BY <1>2, Zenon DEF close_release
<1>8. "old" \in Roles /\ Owns("old", t, r0) /\ ~Owns("old", t, r0)'
  BY <1>1, <1>2, <1>7, Zenon DEF Roles, Owns
<1>9. \A r \in Readers : \A k \in Roles : r # r0 \/ k # "old" => SameSlot(k, t, r)
  <2> SUFFICES ASSUME NEW r \in Readers, NEW k \in Roles, r # r0 \/ k # "old"
               PROVE  SameSlot(k, t, r)
    BY Zenon
  <2>1. t # None
    BY ManagerAssumption, Zenon
  <2> QED BY <1>1, <1>2, <1>7, <2>1, Zenon DEF SameSlot, Owns
<1> QED BY <1>1, <1>4, <1>5, <1>6, <1>7, <1>8, <1>9, LoseIInv, Zenon

(* record begins.                                                          *)
LEMMA RecordIInv ==
  ASSUME IInv, NEW t \in Threads, record(t)
  PROVE  IInv'
<1>1. /\ pc[t] = "idle" /\ pc'[t] = "track" /\ held[t] # 0
      /\ UNCHANGED <<goal[t], ref[t], new[t], old[t], held[t], todo[t], since[t],
                    fresh[t]>>
      /\ UNCHANGED <<index, version, opened, current, tracked, lifeClosed,
                    refreshLock, referenceLock, operationLock>>
  BY Zenon DEF IInv, TypeOK, ThreadTypes, record, Go, Set, locks, readers, lifetime, refresh
<1>2. faults' = faults
  BY Zenon DEF record
<1>3. Local(t)
  BY <1>1, Zenon DEF Local, Frame, IInv, TypeOK, ThreadTypes, ManagerTypes, Opened, Control,
     Refreshing, Acquiring, record, Go, Set, locks, readers, lifetime, refresh
<1>4. Shared(t)
  BY <1>1, <1>2, ManagerAssumption, ThreadFacts, Zenon DEF Shared, Mild, CurrentStep, LockStep,
     ManagerTypes, Opened, ThreadInv, LocksAt, Refreshing, Acquiring
<1>5. ThreadInv(t)'
  BY <1>1, ManagerAssumption, ThreadFacts, Zenon DEF ThreadInv, LocksAt, ShapeAt, Recording,
     CurrentInvAt, VersionInvAt, Refreshing, Acquiring
<1>6. count' = count /\ \A r \in Readers : \A k \in Roles : SameSlot(k, t, r)
  BY <1>1, ManagerAssumption, Zenon DEF SameSlot, Owns, record
<1> QED BY <1>1, <1>3, <1>4, <1>5, <1>6, QuietIInv, Zenon

(* SearcherTracker::new takes a count.                                     *)
LEMMA TrackIInv ==
  ASSUME IInv, NEW t \in Threads, track(t)
  PROVE  IInv'
<1>1. /\ pc[t] = "track" /\ pc'[t] = "insert"
      /\ UNCHANGED <<goal[t], ref[t], new[t], old[t], held[t], todo[t], since[t],
                    fresh[t]>>
      /\ UNCHANGED <<index, version, opened, current, tracked, lifeClosed,
                    refreshLock, referenceLock, operationLock>>
  BY Zenon DEF IInv, TypeOK, ThreadTypes, track, Go, Set, locks, readers, lifetime, refresh
<1>2. /\ held[t] \in Readers /\ 0 \notin Readers
  BY <1>1, ThreadFacts, Zenon DEF ManagerTypes, ThreadInv, ShapeAt, Recording, Refreshing,
     Acquiring
<1>3. faults' = faults
  BY Zenon DEF track
<1>4. Local(t)
  BY <1>1, Zenon DEF Local, Frame, IInv, TypeOK, ThreadTypes, ManagerTypes, Opened, Control,
     Refreshing, Acquiring, track, Go, Set, locks, readers, lifetime, refresh
<1>5. Shared(t)
  BY <1>1, <1>2, <1>3, ManagerAssumption, ThreadFacts, Zenon DEF Shared, Mild, CurrentStep,
     LockStep, ManagerTypes, Opened, ThreadInv, LocksAt, Refreshing, Acquiring
<1>6. ThreadInv(t)'
  BY <1>1, <1>2, ManagerAssumption, ThreadFacts, Zenon DEF ThreadInv, LocksAt, ShapeAt,
     Recording, CurrentInvAt, VersionInvAt, Refreshing, Acquiring
<1>7. PICK r0 \in Readers : r0 = held[t] /\ IncRef(r0)
  BY <1>2, Zenon DEF track
<1>8. "tracker" \in Roles /\ ~Owns("tracker", t, r0) /\ Owns("tracker", t, r0)'
  BY <1>1, <1>2, <1>7, Zenon DEF Roles, Owns
<1>9. \A r \in Readers : \A k \in Roles : r # r0 \/ k # "tracker" => SameSlot(k, t, r)
  <2> SUFFICES ASSUME NEW r \in Readers, NEW k \in Roles, r # r0 \/ k # "tracker"
               PROVE  SameSlot(k, t, r)
    BY Zenon
  <2>1. t # None
    BY ManagerAssumption, Zenon
  <2> QED BY <1>1, <1>2, <1>7, <2>1, Zenon DEF SameSlot, Owns
<1> QED BY <1>1, <1>4, <1>5, <1>6, <1>7, <1>8, <1>9, GainIInv, Zenon

(* insert, by outcome.                                                     *)
InsertFirst(t) ==
  /\ held[t] \notin tracked /\ Go(t, "insert", "idle")
  /\ tracked' = tracked \cup {held[t]}
  /\ UNCHANGED <<readers, count, current, locks, lifeClosed, todo, goal, ref, refresh, held,
                 faults>>

InsertSecond(t) ==
  /\ held[t] \in tracked /\ Go(t, "insert", "undo")
  /\ UNCHANGED <<readers, count, current, locks, lifetime, goal, ref, refresh, held, faults>>

(* The tracker and its count go to the map.                                *)
LEMMA InsertFirstIInv ==
  ASSUME IInv, NEW t \in Threads, InsertFirst(t)
  PROVE  IInv'
<1>1. held[t] \in Opened
  BY Zenon DEF IInv, TypeOK, ThreadTypes, ThreadInv, ShapeAt, Recording, InsertFirst, Go
<1>2. /\ pc[t] = "insert" /\ pc'[t] = "idle" /\ tracked' = tracked \cup {held[t]}
      /\ held[t] \notin tracked
      /\ UNCHANGED <<goal[t], ref[t], new[t], old[t], held[t], todo[t], since[t],
                    fresh[t]>>
      /\ UNCHANGED <<index, version, opened, current, lifeClosed, refreshLock,
                    referenceLock, operationLock>>
  BY <1>1, Zenon DEF IInv, TypeOK, ThreadTypes, InsertFirst, Go, Set, locks, readers, lifetime,
     refresh
<1>3. /\ 0 \notin Readers
  BY <1>1, <1>2, ThreadFacts, Zenon DEF ManagerTypes, ThreadInv, ShapeAt, Recording, Refreshing,
     Acquiring
<1>4. faults' = faults
  BY Zenon DEF InsertFirst
<1>5. Local(t)
  BY <1>1, <1>2, Zenon DEF Local, Frame, IInv, TypeOK, ThreadTypes, ManagerTypes, Opened,
     Control, Refreshing, Acquiring, InsertFirst, Go, Set, locks, readers, lifetime, refresh
<1>6. Shared(t)
  BY <1>1, <1>2, <1>3, <1>4, ManagerAssumption, ThreadFacts, Zenon DEF Shared, Mild,
     CurrentStep, LockStep, ManagerTypes, Opened, ThreadInv, LocksAt, Refreshing, Acquiring,
     InsertFirst
<1>7. ThreadInv(t)'
  BY <1>2, <1>3, ManagerAssumption, ThreadFacts, Zenon DEF ThreadInv, LocksAt, ShapeAt,
     Recording, CurrentInvAt, VersionInvAt, Refreshing, Acquiring
<1>8. ASSUME NEW r \in Readers
      PROVE  Cardinality(Owners(r)') = Cardinality(Owners(r))
  <2>1. /\ \A k \in Roles : k # "lifetime" \/ r # held[t] => SameSlot(k, None, r)
        /\ \A k \in Roles : k # "tracker" \/ r # held[t] => SameSlot(k, t, r)
    BY <1>1, <1>2, <1>3, ManagerAssumption, Zenon DEF SameSlot, Owns
  <2>2. \A k \in Roles : \A u \in Slots : u \notin {t, None} => SameSlot(k, u, r)
    BY <1>5, OtherSlots, Zenon DEF Local
  <2>3. CASE r = held[t]
    <3>1. /\ "tracker" \in Roles /\ t \in Slots /\ "lifetime" \in Roles /\ None \in Slots
          /\ Owns("tracker", t, r) /\ ~Owns("tracker", t, r)'
          /\ ~Owns("lifetime", None, r) /\ Owns("lifetime", None, r)'
      BY <1>1, <1>2, <1>3, <2>3, ManagerAssumption, Zenon DEF Owns, Roles, Slots
    <3>2. \A k \in Roles : \A u \in Slots :
            ~(k = "tracker" /\ u = t) /\ ~(k = "lifetime" /\ u = None) => SameSlot(k, u, r)
      BY <2>1, <2>2, <2>3, Zenon
    <3> QED BY <3>1, <3>2, Moved
  <2>4. CASE ~(r = held[t])
    <3>1. \A k \in Roles : \A u \in Slots : SameSlot(k, u, r)
      BY <2>1, <2>2, <2>4, Zenon
    <3> QED BY <3>1, Kept, Zenon
  <2> QED BY <2>3, <2>4, Zenon
<1>9. count' = count
  BY Zenon DEF InsertFirst
<1> QED BY <1>5, <1>6, <1>7, <1>8, <1>9, MoveIInv, Zenon

(* Another thread recorded the reader first.                               *)
LEMMA InsertSecondIInv ==
  ASSUME IInv, NEW t \in Threads, InsertSecond(t)
  PROVE  IInv'
<1>1. /\ pc[t] = "insert" /\ pc'[t] = "undo"
      /\ UNCHANGED <<goal[t], ref[t], new[t], old[t], held[t], todo[t], since[t],
                    fresh[t]>>
      /\ UNCHANGED <<index, version, opened, current, tracked, lifeClosed,
                    refreshLock, referenceLock, operationLock>>
  BY Zenon DEF IInv, TypeOK, ThreadTypes, InsertSecond, Go, Set, locks, readers, lifetime,
     refresh
<1>2. faults' = faults
  BY Zenon DEF InsertSecond
<1>3. Local(t)
  BY <1>1, Zenon DEF Local, Frame, IInv, TypeOK, ThreadTypes, ManagerTypes, Opened, Control,
     Refreshing, Acquiring, InsertSecond, Go, Set, locks, readers, lifetime, refresh
<1>4. Shared(t)
  BY <1>1, <1>2, ManagerAssumption, ThreadFacts, Zenon DEF Shared, Mild, CurrentStep, LockStep,
     ManagerTypes, Opened, ThreadInv, LocksAt, Refreshing, Acquiring
<1>5. ThreadInv(t)'
  BY <1>1, ManagerAssumption, ThreadFacts, Zenon DEF ThreadInv, LocksAt, ShapeAt, Recording,
     CurrentInvAt, VersionInvAt, Refreshing, Acquiring
<1>6. count' = count /\ \A r \in Readers : \A k \in Roles : SameSlot(k, t, r)
  <2>1. count' = count /\ t # None
    BY ManagerAssumption, Zenon DEF InsertSecond
  <2>2. ASSUME NEW r \in Readers, NEW k \in Roles
        PROVE  SameSlot(k, t, r)
    BY <1>1, <2>1, Zenon DEF SameSlot, Owns
  <2> QED BY <2>1, <2>2, Zenon
<1> QED BY <1>1, <1>3, <1>4, <1>5, <1>6, QuietIInv, Zenon

(* The tracker that came second is closed.                                 *)
LEMMA UndoIInv ==
  ASSUME IInv, NEW t \in Threads, undo(t)
  PROVE  IInv'
<1>1. /\ pc[t] = "undo" /\ pc'[t] = "idle"
      /\ UNCHANGED <<goal[t], ref[t], new[t], old[t], held[t], todo[t], since[t],
                    fresh[t]>>
      /\ UNCHANGED <<index, version, opened, current, tracked, lifeClosed,
                    refreshLock, referenceLock, operationLock>>
  BY Zenon DEF IInv, TypeOK, ThreadTypes, undo, Go, Set, locks, readers, lifetime, refresh
<1>2. /\ held[t] \in Readers /\ 0 \notin Readers
  BY <1>1, ThreadFacts, Zenon DEF ManagerTypes, ThreadInv, ShapeAt, Recording, Refreshing,
     Acquiring
<1>3. faults' = faults
  BY Zenon DEF undo
<1>4. Local(t)
  BY <1>1, Zenon DEF Local, Frame, IInv, TypeOK, ThreadTypes, ManagerTypes, Opened, Control,
     Refreshing, Acquiring, undo, Go, Set, locks, readers, lifetime, refresh
<1>5. Shared(t)
  BY <1>1, <1>2, <1>3, ManagerAssumption, ThreadFacts, Zenon DEF Shared, Mild, CurrentStep,
     LockStep, ManagerTypes, Opened, ThreadInv, LocksAt, Refreshing, Acquiring
<1>6. ThreadInv(t)'
  BY <1>1, <1>2, ManagerAssumption, ThreadFacts, Zenon DEF ThreadInv, LocksAt, ShapeAt,
     Recording, CurrentInvAt, VersionInvAt, Refreshing, Acquiring
<1>7. PICK r0 \in Readers : r0 = held[t] /\ DecRef(r0)
  BY <1>2, Zenon DEF undo
<1>8. "tracker" \in Roles /\ Owns("tracker", t, r0) /\ ~Owns("tracker", t, r0)'
  BY <1>1, <1>2, <1>7, Zenon DEF Roles, Owns
<1>9. \A r \in Readers : \A k \in Roles : r # r0 \/ k # "tracker" => SameSlot(k, t, r)
  <2> SUFFICES ASSUME NEW r \in Readers, NEW k \in Roles, r # r0 \/ k # "tracker"
               PROVE  SameSlot(k, t, r)
    BY Zenon
  <2>1. t # None
    BY ManagerAssumption, Zenon
  <2> QED BY <1>1, <1>2, <1>7, <2>1, Zenon DEF SameSlot, Owns
<1> QED BY <1>1, <1>4, <1>5, <1>6, <1>7, <1>8, <1>9, LoseIInv, Zenon

(* The lifetime manager is asked for a searcher.                           *)
LEMMA LifetimeAcquireIInv ==
  ASSUME IInv, NEW t \in Threads, lifetime_acquire(t)
  PROVE  IInv'
<1>1. /\ pc[t] = "idle" /\ pc'[t] = "find" /\ ref'[t] \in tracked /\ held[t] = 0
      /\ UNCHANGED <<goal[t], new[t], old[t], held[t], todo[t], since[t], fresh[t]>>
      /\ UNCHANGED <<index, version, opened, current, tracked, lifeClosed,
                    refreshLock, referenceLock, operationLock>>
  BY Zenon DEF IInv, TypeOK, ThreadTypes, lifetime_acquire, Go, Set, locks, readers, lifetime,
     refresh
<1>2. /\ 0 \notin tracked
  BY <1>1, ThreadFacts, Zenon DEF ManagerTypes, ThreadInv, ShapeAt, Recording, Refreshing,
     Acquiring
<1>3. faults' = faults
  BY Zenon DEF lifetime_acquire
<1>4. Local(t)
  BY <1>1, Zenon DEF Local, Frame, IInv, TypeOK, ThreadTypes, ManagerTypes, Opened, Control,
     Refreshing, Acquiring, lifetime_acquire, Go, Set, locks, readers, lifetime, refresh
<1>5. Shared(t)
  BY <1>1, <1>2, <1>3, ManagerAssumption, ThreadFacts, Zenon DEF Shared, Mild, CurrentStep,
     LockStep, ManagerTypes, Opened, ThreadInv, LocksAt, Refreshing, Acquiring
<1>6. ThreadInv(t)'
  BY <1>1, <1>2, ManagerAssumption, ThreadFacts, Zenon DEF ThreadInv, LocksAt, ShapeAt,
     Recording, CurrentInvAt, VersionInvAt, Refreshing, Acquiring
<1>7. count' = count /\ \A r \in Readers : \A k \in Roles : SameSlot(k, t, r)
  <2>1. count' = count /\ t # None
    BY ManagerAssumption, Zenon DEF lifetime_acquire
  <2>2. ASSUME NEW r \in Readers, NEW k \in Roles
        PROVE  SameSlot(k, t, r)
    BY <1>1, <1>2, <2>1, Zenon DEF SameSlot, Owns
  <2> QED BY <2>1, <2>2, Zenon
<1> QED BY <1>1, <1>4, <1>5, <1>6, <1>7, QuietIInv, Zenon

(* found, by outcome.                                                      *)
FoundOpen(t) ==
  /\ Go(t, "find", "idle") /\ IncRef(ref[t])
  /\ held' = Set(held, t, ref[t]) /\ ref' = Set(ref, t, 0)
  /\ UNCHANGED <<readers, current, locks, lifetime, goal, refresh, faults>>

FoundClosed(t) ==
  /\ Go(t, "find", "idle") /\ ref' = Set(ref, t, 0)
  /\ UNCHANGED <<readers, count, current, locks, lifetime, goal, refresh, held, faults>>

(* The searcher of the tracker is handed out.                              *)
LEMMA FoundOpenIInv ==
  ASSUME IInv, NEW t \in Threads, FoundOpen(t)
  PROVE  IInv'
<1>1. /\ pc[t] = "find" /\ pc'[t] = "idle" /\ ref'[t] = 0 /\ held'[t] = ref[t]
      /\ UNCHANGED <<goal[t], new[t], old[t], todo[t], since[t], fresh[t]>>
      /\ UNCHANGED <<index, version, opened, current, tracked, lifeClosed,
                    refreshLock, referenceLock, operationLock>>
  BY Zenon DEF IInv, TypeOK, ThreadTypes, FoundOpen, Go, Set, locks, readers, lifetime, refresh
<1>2. /\ ref[t] \in Readers /\ held[t] = 0 /\ 0 \notin Readers
  BY <1>1, ThreadFacts, Zenon DEF ManagerTypes, ThreadInv, ShapeAt, Recording, Refreshing,
     Acquiring
<1>3. faults' = faults
  BY Zenon DEF FoundOpen
<1>4. Local(t)
  BY <1>1, Zenon DEF Local, Frame, IInv, TypeOK, ThreadTypes, ManagerTypes, Opened, Control,
     Refreshing, Acquiring, FoundOpen, Go, Set, locks, readers, lifetime, refresh
<1>5. Shared(t)
  BY <1>1, <1>2, <1>3, ManagerAssumption, ThreadFacts, Zenon DEF Shared, Mild, CurrentStep,
     LockStep, ManagerTypes, Opened, ThreadInv, LocksAt, Refreshing, Acquiring
<1>6. ThreadInv(t)'
  BY <1>1, <1>2, ManagerAssumption, ThreadFacts, Zenon DEF ThreadInv, LocksAt, ShapeAt,
     Recording, CurrentInvAt, VersionInvAt, Refreshing, Acquiring
<1>7. PICK r0 \in Readers : r0 = ref[t] /\ IncRef(r0)
  BY <1>2, Zenon DEF FoundOpen
<1>8. "held" \in Roles /\ ~Owns("held", t, r0) /\ Owns("held", t, r0)'
  BY <1>1, <1>2, <1>7, Zenon DEF Roles, Owns
<1>9. \A r \in Readers : \A k \in Roles : r # r0 \/ k # "held" => SameSlot(k, t, r)
  <2> SUFFICES ASSUME NEW r \in Readers, NEW k \in Roles, r # r0 \/ k # "held"
               PROVE  SameSlot(k, t, r)
    BY Zenon
  <2>1. t # None
    BY ManagerAssumption, Zenon
  <2> QED BY <1>1, <1>2, <1>7, <2>1, Zenon DEF SameSlot, Owns
<1> QED BY <1>1, <1>4, <1>5, <1>6, <1>7, <1>8, <1>9, GainIInv, Zenon

(* It was closed meanwhile.                                                *)
LEMMA FoundClosedIInv ==
  ASSUME IInv, NEW t \in Threads, FoundClosed(t)
  PROVE  IInv'
<1>1. /\ pc[t] = "find" /\ pc'[t] = "idle" /\ ref'[t] = 0
      /\ UNCHANGED <<goal[t], new[t], old[t], held[t], todo[t], since[t], fresh[t]>>
      /\ UNCHANGED <<index, version, opened, current, tracked, lifeClosed,
                    refreshLock, referenceLock, operationLock>>
  BY Zenon DEF IInv, TypeOK, ThreadTypes, FoundClosed, Go, Set, locks, readers, lifetime,
     refresh
<1>2. faults' = faults
  BY Zenon DEF FoundClosed
<1>3. Local(t)
  BY <1>1, Zenon DEF Local, Frame, IInv, TypeOK, ThreadTypes, ManagerTypes, Opened, Control,
     Refreshing, Acquiring, FoundClosed, Go, Set, locks, readers, lifetime, refresh
<1>4. Shared(t)
  BY <1>1, <1>2, ManagerAssumption, ThreadFacts, Zenon DEF Shared, Mild, CurrentStep, LockStep,
     ManagerTypes, Opened, ThreadInv, LocksAt, Refreshing, Acquiring
<1>5. ThreadInv(t)'
  BY <1>1, ManagerAssumption, ThreadFacts, Zenon DEF ThreadInv, LocksAt, ShapeAt, Recording,
     CurrentInvAt, VersionInvAt, Refreshing, Acquiring
<1>6. count' = count /\ \A r \in Readers : \A k \in Roles : SameSlot(k, t, r)
  BY <1>1, ManagerAssumption, Zenon DEF SameSlot, Owns, FoundClosed
<1> QED BY <1>1, <1>3, <1>4, <1>5, <1>6, QuietIInv, Zenon

(* prune chooses trackers.                                                 *)
LEMMA PruneIInv ==
  ASSUME IInv, NEW t \in Threads, prune(t)
  PROVE  IInv'
<1>1. /\ pc[t] = "idle" /\ pc'[t] = "prune" /\ todo'[t] \subseteq tracked
      /\ operationLock' = t /\ operationLock = None
      /\ UNCHANGED <<goal[t], ref[t], new[t], old[t], held[t], since[t], fresh[t]>>
      /\ UNCHANGED <<index, version, opened, current, tracked, lifeClosed,
                    refreshLock, referenceLock>>
  BY Zenon DEF IInv, TypeOK, ThreadTypes, prune, Go, Set, locks, readers, lifetime, refresh
<1>2. faults' = faults
  BY Zenon DEF prune
<1>3. Local(t)
  BY <1>1, Zenon DEF Local, Frame, IInv, TypeOK, ThreadTypes, ManagerTypes, Opened, Control,
     Refreshing, Acquiring, prune, Go, Set, locks, readers, lifetime, refresh
<1>4. Shared(t)
  BY <1>1, <1>2, ManagerAssumption, ThreadFacts, Zenon DEF Shared, Mild, CurrentStep, LockStep,
     ManagerTypes, Opened, ThreadInv, LocksAt, Refreshing, Acquiring
<1>5. ThreadInv(t)'
  BY <1>1, ManagerAssumption, ThreadFacts, Zenon DEF ThreadInv, LocksAt, ShapeAt, Recording,
     CurrentInvAt, VersionInvAt, Refreshing, Acquiring
<1>6. count' = count /\ \A r \in Readers : \A k \in Roles : SameSlot(k, t, r)
  <2>1. count' = count /\ t # None
    BY ManagerAssumption, Zenon DEF prune
  <2>2. ASSUME NEW r \in Readers, NEW k \in Roles
        PROVE  SameSlot(k, t, r)
    BY <1>1, <2>1, Zenon DEF SameSlot, Owns
  <2> QED BY <2>1, <2>2, Zenon
<1> QED BY <1>1, <1>3, <1>4, <1>5, <1>6, QuietIInv, Zenon

(* prune removes a tracker from the map.                                   *)
LEMMA PruneRemoveIInv ==
  ASSUME IInv, NEW t \in Threads, prune_remove(t)
  PROVE  IInv'
<1>1. PICK r0 \in todo[t] : /\ ref' = [ref EXCEPT ![t] = r0]
                           /\ todo' = [todo EXCEPT ![t] = todo[t] \ {r0}]
                           /\ tracked' = tracked \ {r0}
  BY Zenon DEF prune_remove, Set
<1>2. /\ r0 \in Opened /\ r0 \in tracked /\ r0 # 0 /\ todo[t] \subseteq tracked
      /\ pc[t] = "prune" /\ pc'[t] = "pruned" /\ operationLock = t
  <2>1. pc[t] = "prune" /\ pc'[t] = "pruned" /\ tracked \subseteq Opened
    BY Zenon DEF IInv, TypeOK, ManagerTypes, ThreadTypes, prune_remove, Go
  <2>2. todo[t] \subseteq tracked /\ operationLock = t
    BY <2>1, Zenon DEF IInv, ThreadInv, LocksAt, ShapeAt
  <2>3. 0 \notin Opened
    BY DEF Opened
  <2> QED BY <1>1, <2>1, <2>2, <2>3, Zenon
<1>3. /\ pc[t] = "prune" /\ pc'[t] = "pruned" /\ ref'[t] = r0 /\ todo'[t] = todo[t] \ {r0}
      /\ tracked' = tracked \ {r0}
      /\ UNCHANGED <<goal[t], new[t], old[t], held[t], since[t], fresh[t]>>
      /\ UNCHANGED <<index, version, opened, current, lifeClosed, refreshLock,
                    referenceLock, operationLock>>
  BY <1>1, <1>2, Zenon DEF IInv, TypeOK, ThreadTypes, prune_remove, Go, Set, locks, readers,
     lifetime, refresh
<1>4. /\ r0 \in tracked /\ r0 # 0 /\ todo[t] \subseteq tracked /\ 0 \notin Readers
  BY <1>1, <1>2, <1>3, ThreadFacts, Zenon DEF ManagerTypes, ThreadInv, ShapeAt, Recording,
     Refreshing, Acquiring
<1>5. faults' = faults
  BY Zenon DEF prune_remove
<1>6. Local(t)
  BY <1>1, <1>2, <1>3, Zenon DEF Local, Frame, IInv, TypeOK, ThreadTypes, ManagerTypes, Opened,
     Control, Refreshing, Acquiring, prune_remove, Go, Set, locks, readers, lifetime, refresh
<1>7. Shared(t)
  BY <1>1, <1>2, <1>3, <1>4, <1>5, ManagerAssumption, ThreadFacts, Zenon DEF Shared, Mild,
     CurrentStep, LockStep, ManagerTypes, Opened, ThreadInv, LocksAt, Refreshing, Acquiring
<1>8. ThreadInv(t)'
  BY <1>3, <1>4, ManagerAssumption, ThreadFacts, Zenon DEF ThreadInv, LocksAt, ShapeAt,
     Recording, CurrentInvAt, VersionInvAt, Refreshing, Acquiring
<1>9. ASSUME NEW r \in Readers
      PROVE  Cardinality(Owners(r)') = Cardinality(Owners(r))
  <2>1. /\ \A k \in Roles : k # "lifetime" \/ r # r0 => SameSlot(k, None, r)
        /\ \A k \in Roles : k # "refreshing" \/ r # r0 => SameSlot(k, t, r)
    BY <1>1, <1>2, <1>3, <1>4, ManagerAssumption, Zenon DEF SameSlot, Owns
  <2>2. \A k \in Roles : \A u \in Slots : u \notin {t, None} => SameSlot(k, u, r)
    BY <1>6, OtherSlots, Zenon DEF Local
  <2>3. CASE r = r0
    <3>1. /\ "lifetime" \in Roles /\ None \in Slots /\ "refreshing" \in Roles /\ t \in Slots
          /\ Owns("lifetime", None, r) /\ ~Owns("lifetime", None, r)'
          /\ ~Owns("refreshing", t, r) /\ Owns("refreshing", t, r)'
      BY <1>1, <1>2, <1>3, <1>4, <2>3, ManagerAssumption, Zenon DEF Owns, Roles, Slots
    <3>2. \A k \in Roles : \A u \in Slots :
            ~(k = "lifetime" /\ u = None) /\ ~(k = "refreshing" /\ u = t) => SameSlot(k, u, r)
      BY <2>1, <2>2, <2>3, Zenon
    <3> QED BY <3>1, <3>2, Moved
  <2>4. CASE ~(r = r0)
    <3>1. \A k \in Roles : \A u \in Slots : SameSlot(k, u, r)
      BY <2>1, <2>2, <2>4, Zenon
    <3> QED BY <3>1, Kept, Zenon
  <2> QED BY <2>3, <2>4, Zenon
<1>10. count' = count
  BY Zenon DEF prune_remove
<1> QED BY <1>6, <1>7, <1>8, <1>9, <1>10, MoveIInv, Zenon

(* prune closes the tracker it removed.                                    *)
LEMMA PruneCloseIInv ==
  ASSUME IInv, NEW t \in Threads, prune_close(t)
  PROVE  IInv'
<1>1. /\ pc[t] = "pruned" /\ pc'[t] \in {"prune", "idle"} /\ ref'[t] = 0
      /\ todo'[t] \subseteq todo[t]
      /\ operationLock' = (IF pc'[t] = "prune" THEN operationLock ELSE None)
      /\ UNCHANGED <<goal[t], new[t], old[t], held[t], since[t], fresh[t]>>
      /\ UNCHANGED <<index, version, opened, current, tracked, lifeClosed,
                    refreshLock, referenceLock>>
  <2>1. /\ pc[t] = "pruned" /\ ref'[t] = 0
        /\ UNCHANGED <<new[t], old[t], goal[t], held[t], since[t], fresh[t]>>
        /\ UNCHANGED <<index, version, opened, current, tracked, lifeClosed,
                      refreshLock, referenceLock>>
    BY Zenon DEF IInv, TypeOK, ThreadTypes, prune_close, Go, Set, locks, readers, lifetime,
       refresh
  <2>2. /\ pc'[t] \in {"prune", "idle"} /\ todo'[t] \subseteq todo[t]
        /\ operationLock' = (IF pc'[t] = "prune" THEN operationLock ELSE None)
    BY Zenon DEF IInv, TypeOK, ThreadTypes, prune_close, Go, Set
  <2> QED BY <2>1, <2>2, Zenon
<1>2. /\ ref[t] \in Readers /\ 0 \notin Readers
  BY <1>1, ThreadFacts, Zenon DEF ManagerTypes, ThreadInv, ShapeAt, Recording, Refreshing,
     Acquiring
<1>3. faults' \in Nat
  <2>1. faults' = faults \/ Fail
    BY Zenon DEF prune_close
  <2> QED BY <2>1, ThreadFacts DEF ManagerTypes, Fail
<1>4. Local(t)
  <2>1. PICK c \in {"prune", "idle"} : pc' = [pc EXCEPT ![t] = c]
    BY Zenon DEF prune_close, Go
  <2>2. PICK d \in {todo[t], {}} : todo' = [todo EXCEPT ![t] = d]
    <3>1. todo' = todo \/ todo' = [todo EXCEPT ![t] = {}]
      BY Zenon DEF prune_close, Set
    <3>2. todo = [todo EXCEPT ![t] = todo[t]]
      BY Zenon DEF IInv, TypeOK, ThreadTypes
    <3> QED BY <3>1, <3>2, Zenon
  <2>3. ref' = [ref EXCEPT ![t] = 0] /\ UNCHANGED <<opened, goal, new, old, since, fresh, held>>
    BY Zenon DEF prune_close, Set, readers, refresh
  <2>4. Frame(t)
    BY <2>1, <2>2, <2>3, Zenon DEF Frame, IInv, TypeOK, ThreadTypes
  <2>5. pc' \in [Threads -> Control] /\ todo' \in [Threads -> SUBSET Opened]
    BY <2>1, <2>2, Zenon DEF IInv, TypeOK, ThreadTypes, Control
  <2>6. ref' \in [Threads -> Opened \cup {0}]
    BY <2>3, Zenon DEF IInv, TypeOK, ThreadTypes
  <2> QED BY <2>3, <2>4, <2>5, <2>6, Zenon DEF Local, IInv, TypeOK, ThreadTypes, Opened
<1>5. Shared(t)
  BY <1>1, <1>2, <1>3, ManagerAssumption, ThreadFacts, Zenon DEF Shared, Mild, CurrentStep,
     LockStep, ManagerTypes, Opened, ThreadInv, LocksAt, Refreshing, Acquiring
<1>6. ThreadInv(t)'
  BY <1>1, <1>2, ManagerAssumption, ThreadFacts, Zenon DEF ThreadInv, LocksAt, ShapeAt,
     Recording, CurrentInvAt, VersionInvAt, Refreshing, Acquiring
<1>7. PICK r0 \in Readers : r0 = ref[t] /\ DecRef(r0)
  BY <1>2, Zenon DEF prune_close
<1>8. "refreshing" \in Roles /\ Owns("refreshing", t, r0) /\ ~Owns("refreshing", t, r0)'
  BY <1>1, <1>2, <1>7, Zenon DEF Roles, Owns
<1>9. \A r \in Readers : \A k \in Roles : r # r0 \/ k # "refreshing" => SameSlot(k, t, r)
  <2> SUFFICES ASSUME NEW r \in Readers, NEW k \in Roles, r # r0 \/ k # "refreshing"
               PROVE  SameSlot(k, t, r)
    BY Zenon
  <2>1. t # None
    BY ManagerAssumption, Zenon
  <2> QED BY <1>1, <1>2, <1>7, <2>1, Zenon DEF SameSlot, Owns
<1> QED BY <1>1, <1>4, <1>5, <1>6, <1>7, <1>8, <1>9, LoseIInv, Zenon

(* The lifetime manager is closed: its counts go to the closing thread.    *)
LEMMA LifetimeCloseIInv ==
  ASSUME IInv, NEW t \in Threads, lifetime_close(t)
  PROVE  IInv'
<1>1. /\ pc[t] = "idle" /\ pc'[t] = "closeAll" /\ todo'[t] = tracked /\ tracked' = {}
      /\ lifeClosed' = TRUE /\ operationLock' = t /\ operationLock = None
      /\ UNCHANGED <<goal[t], ref[t], new[t], old[t], held[t], since[t], fresh[t]>>
      /\ UNCHANGED <<index, version, opened, current, refreshLock, referenceLock>>
  BY Zenon DEF IInv, TypeOK, ThreadTypes, lifetime_close, Go, Set, locks, readers, lifetime,
     refresh
<1>2. /\ 0 \notin Readers
  BY <1>1, ThreadFacts, Zenon DEF ManagerTypes, ThreadInv, ShapeAt, Recording, Refreshing,
     Acquiring
<1>3. faults' = faults
  BY Zenon DEF lifetime_close
<1>4. Local(t)
  BY <1>1, Zenon DEF Local, Frame, IInv, TypeOK, ThreadTypes, ManagerTypes, Opened, Control,
     Refreshing, Acquiring, lifetime_close, Go, Set, locks, readers, lifetime, refresh
<1>5. Shared(t)
  BY <1>1, <1>2, <1>3, ManagerAssumption, ThreadFacts, Zenon DEF Shared, Mild, CurrentStep,
     LockStep, ManagerTypes, Opened, ThreadInv, LocksAt, Refreshing, Acquiring
<1>6. ThreadInv(t)'
  BY <1>1, <1>2, ManagerAssumption, ThreadFacts, Zenon DEF ThreadInv, LocksAt, ShapeAt,
     Recording, CurrentInvAt, VersionInvAt, Refreshing, Acquiring
<1>7. ASSUME NEW r \in Readers
      PROVE  Cardinality(Owners(r)') = Cardinality(Owners(r))
  <2>1. /\ \A k \in Roles : k # "lifetime" \/ r \notin tracked => SameSlot(k, None, r)
        /\ \A k \in Roles : k # "closing" \/ r \notin tracked => SameSlot(k, t, r)
    BY <1>1, <1>2, ManagerAssumption, Zenon DEF SameSlot, Owns
  <2>2. \A k \in Roles : \A u \in Slots : u \notin {t, None} => SameSlot(k, u, r)
    BY <1>4, OtherSlots, Zenon DEF Local
  <2>3. CASE r \in tracked
    <3>1. /\ "lifetime" \in Roles /\ None \in Slots /\ "closing" \in Roles /\ t \in Slots
          /\ Owns("lifetime", None, r) /\ ~Owns("lifetime", None, r)'
          /\ ~Owns("closing", t, r) /\ Owns("closing", t, r)'
      BY <1>1, <1>2, <2>3, ManagerAssumption, Zenon DEF Owns, Roles, Slots
    <3>2. \A k \in Roles : \A u \in Slots :
            ~(k = "lifetime" /\ u = None) /\ ~(k = "closing" /\ u = t) => SameSlot(k, u, r)
      BY <2>1, <2>2, <2>3, Zenon
    <3> QED BY <3>1, <3>2, Moved
  <2>4. CASE ~(r \in tracked)
    <3>1. \A k \in Roles : \A u \in Slots : SameSlot(k, u, r)
      BY <2>1, <2>2, <2>4, Zenon
    <3> QED BY <3>1, Kept, Zenon
  <2> QED BY <2>3, <2>4, Zenon
<1>8. count' = count
  BY Zenon DEF lifetime_close
<1> QED BY <1>4, <1>5, <1>6, <1>7, <1>8, MoveIInv, Zenon

(* close_all, by outcome.                                                  *)
CloseTracker(t) ==
  /\ pc[t] = "closeAll"
  /\ \E r \in todo[t] : DecRef(r) /\ todo' = Set(todo, t, todo[t] \ {r})
  /\ UNCHANGED <<readers, current, locks, tracked, lifeClosed, pc, goal, ref, refresh, held,
                 faults>>

CloseAllEnds(t) ==
  /\ todo[t] = {} /\ Go(t, "closeAll", "idle") /\ operationLock' = None
  /\ UNCHANGED <<readers, count, current, refreshLock, referenceLock, lifetime, goal, ref,
                 refresh, held, faults>>

(* One of the trackers is closed.                                          *)
LEMMA CloseTrackerIInv ==
  ASSUME IInv, NEW t \in Threads, CloseTracker(t)
  PROVE  IInv'
<1>1. PICK r0 \in todo[t] : DecRef(r0) /\ todo' = [todo EXCEPT ![t] = todo[t] \ {r0}]
  BY Zenon DEF CloseTracker, Set
<1>2. /\ pc[t] = "closeAll" /\ pc'[t] = "closeAll" /\ todo'[t] = todo[t] \ {r0}
      /\ UNCHANGED <<goal[t], ref[t], new[t], old[t], held[t], since[t], fresh[t]>>
      /\ UNCHANGED <<index, version, opened, current, tracked, lifeClosed,
                    refreshLock, referenceLock, operationLock>>
  BY <1>1, Zenon DEF IInv, TypeOK, ThreadTypes, CloseTracker, Go, Set, locks, readers, lifetime,
     refresh
<1>3. /\ r0 \in Readers /\ r0 \in todo[t] /\ 0 \notin Readers
  BY <1>1, <1>2, ThreadFacts, Zenon DEF ManagerTypes, ThreadInv, ShapeAt, Recording, Refreshing,
     Acquiring
<1>4. faults' = faults
  BY Zenon DEF CloseTracker
<1>5. Local(t)
  BY <1>1, <1>2, Zenon DEF Local, Frame, IInv, TypeOK, ThreadTypes, ManagerTypes, Opened,
     Control, Refreshing, Acquiring, CloseTracker, Go, Set, locks, readers, lifetime, refresh
<1>6. Shared(t)
  BY <1>1, <1>2, <1>3, <1>4, ManagerAssumption, ThreadFacts, Zenon DEF Shared, Mild,
     CurrentStep, LockStep, ManagerTypes, Opened, ThreadInv, LocksAt, Refreshing, Acquiring
<1>7. ThreadInv(t)'
  BY <1>2, <1>3, ManagerAssumption, ThreadFacts, Zenon DEF ThreadInv, LocksAt, ShapeAt,
     Recording, CurrentInvAt, VersionInvAt, Refreshing, Acquiring
<1>8. r0 \in Readers /\ DecRef(r0)
  BY <1>1, <1>3, Zenon
<1>9. "closing" \in Roles /\ Owns("closing", t, r0) /\ ~Owns("closing", t, r0)'
  BY <1>2, <1>3, <1>8, Zenon DEF Roles, Owns
<1>10. \A r \in Readers : \A k \in Roles : r # r0 \/ k # "closing" => SameSlot(k, t, r)
  <2> SUFFICES ASSUME NEW r \in Readers, NEW k \in Roles, r # r0 \/ k # "closing"
               PROVE  SameSlot(k, t, r)
    BY Zenon
  <2>1. t # None
    BY ManagerAssumption, Zenon
  <2> QED BY <1>2, <1>3, <1>8, <2>1, Zenon DEF SameSlot, Owns
<1> QED BY <1>2, <1>5, <1>6, <1>7, <1>8, <1>9, <1>10, LoseIInv, Zenon

(* All of them are closed.                                                 *)
LEMMA CloseAllEndsIInv ==
  ASSUME IInv, NEW t \in Threads, CloseAllEnds(t)
  PROVE  IInv'
<1>1. /\ pc[t] = "closeAll" /\ pc'[t] = "idle" /\ operationLock' = None /\ todo[t] = {}
      /\ UNCHANGED <<goal[t], ref[t], new[t], old[t], held[t], todo[t], since[t],
                    fresh[t]>>
      /\ UNCHANGED <<index, version, opened, current, tracked, lifeClosed,
                    refreshLock, referenceLock>>
  BY Zenon DEF IInv, TypeOK, ThreadTypes, CloseAllEnds, Go, Set, locks, readers, lifetime,
     refresh
<1>2. faults' = faults
  BY Zenon DEF CloseAllEnds
<1>3. Local(t)
  BY <1>1, Zenon DEF Local, Frame, IInv, TypeOK, ThreadTypes, ManagerTypes, Opened, Control,
     Refreshing, Acquiring, CloseAllEnds, Go, Set, locks, readers, lifetime, refresh
<1>4. Shared(t)
  BY <1>1, <1>2, ManagerAssumption, ThreadFacts, Zenon DEF Shared, Mild, CurrentStep, LockStep,
     ManagerTypes, Opened, ThreadInv, LocksAt, Refreshing, Acquiring
<1>5. ThreadInv(t)'
  BY <1>1, ManagerAssumption, ThreadFacts, Zenon DEF ThreadInv, LocksAt, ShapeAt, Recording,
     CurrentInvAt, VersionInvAt, Refreshing, Acquiring
<1>6. count' = count /\ \A r \in Readers : \A k \in Roles : SameSlot(k, t, r)
  BY <1>1, ManagerAssumption, Zenon DEF SameSlot, Owns, CloseAllEnds
<1> QED BY <1>1, <1>3, <1>4, <1>5, <1>6, QuietIInv, Zenon

(***************************************************************************)
(* The theorems.                                                           *)
(***************************************************************************)
(* Initially the manager owns the only count of the only reader.           *)
LEMMA InitIInv ==
  ASSUME Init
  PROVE  IInv
<1>1. TypeOK
  <2>1. ManagerTypes
    <3>1. 1 \in Readers /\ 0 \in Nat /\ 1 \in 1..1
      BY ManagerAssumption DEF Readers
    <3>2. opened \in Readers /\ current \in Opened
      BY <3>1, Zenon DEF Init, Opened
    <3> QED BY <3>2, ManagerAssumption, Zenon DEF Init, ManagerTypes
  <2>2. ThreadTypes
    BY Zenon DEF Init, ThreadTypes, Control
  <2>3. count \in [Readers -> Nat]
    BY Zenon DEF Init
  <2> QED BY <2>1, <2>2, <2>3, Zenon DEF TypeOK
<1>2. Behind /\ \A t \in Threads : ThreadInv(t)
  BY ManagerAssumption DEF Init, Behind, ThreadInv, LocksAt, ShapeAt, CurrentInvAt,
     VersionInvAt, Refreshing, Acquiring, Recording, Readers
<1>3. RefCountsExact
  <2> SUFFICES ASSUME NEW r \in Readers
               PROVE  count[r] = Cardinality(Owners(r))
    BY Zenon DEF RefCountsExact
  <2>1. \A k \in Roles : \A u \in Slots : Owns(k, u, r) <=> r = 1 /\ k = "manager" /\ u = None
    BY ManagerAssumption DEF Init, Owns, Readers, Roles, Slots
  <2>2. CASE r = 1
    <3>1. \A o \in Roles \X Slots : o[1] \in Roles /\ o[2] \in Slots /\ o = <<o[1], o[2]>>
      OBVIOUS
    <3>2. <<"manager", None>> \in Roles \X Slots
      BY Zenon DEF Roles, Slots
    <3>3. Owners(r) = {<<"manager", None>>}
      BY <2>1, <2>2, <3>1, <3>2, Zenon DEF Owners
    <3>4. Cardinality(Owners(r)) = 1
      BY <3>3, FS_Singleton, Zenon
    <3> QED BY <2>2, <3>4, ManagerAssumption, Zenon DEF Init, Readers
  <2>3. CASE r # 1
    <3>1. Owners(r) = {}
      BY <2>1, <2>3, Zenon DEF Owners
    <3>2. Cardinality(Owners(r)) = 0
      BY <3>1, FS_EmptySet, Zenon
    <3> QED BY <2>3, <3>2, Zenon DEF Init
  <2> QED BY <2>2, <2>3, Zenon
<1> QED BY <1>1, <1>2, <1>3, Zenon DEF IInv

(* Every step of the system preserves the invariant.                       *)
LEMMA NextIInv ==
  ASSUME IInv, [Next]_vars
  PROVE  IInv'
<1>1. CASE IndexChanges
  BY <1>1, IndexChangesIInv, Zenon
<1>2. ASSUME NEW t \in Threads,
             \/ acquire(t) \/ read_current(t) \/ try_inc_ref(t) \/ recheck(t) \/ release(t)
             \/ maybe_refresh(t) \/ maybe_refresh_blocking(t) \/ lock_refresh(t)
             \/ before_refresh(t) \/ refresh_if_needed(t) \/ swap_reference(t)
             \/ release_old(t) \/ finish_refresh(t) \/ close(t) \/ close_release(t)
      PROVE  IInv'
  <2>1. CASE try_inc_ref(t)
    <3>1. IncToUse(t) \/ IncToRefresh(t) \/ IncFails(t)
      BY <2>1, Zenon DEF try_inc_ref, IncToUse, IncToRefresh, IncFails
    <3> QED BY <3>1, IncToUseIInv, IncToRefreshIInv, IncFailsIInv, Zenon
  <2>2. CASE refresh_if_needed(t)
    <3>1. OpenUnchanged(t) \/ OpenNew(t) \/ OpenFails(t)
      BY <2>2, Zenon DEF refresh_if_needed, OpenUnchanged, OpenNew, OpenFails, Go, Set, readers,
         refresh
    <3> QED BY <3>1, OpenUnchangedIInv, OpenNewIInv, OpenFailsIInv, Zenon
  <2>3. CASE swap_reference(t)
    <3>1. SwapClosed(t) \/ SwapOpen(t)
      BY <2>3, Zenon DEF swap_reference, SwapClosed, SwapOpen, Go, locks, refresh
    <3> QED BY <3>1, SwapClosedIInv, SwapOpenIInv, Zenon
  <2>4. CASE release_old(t)
    BY <2>4, ReleaseOldIsKept, ReleaseKeptIInv, Zenon
  <2> QED BY <1>2, <2>1, <2>2, <2>3, <2>4, AcquireIInv, ReadCurrentIInv, RecheckIInv,
             ReleaseIInv, MaybeRefreshIInv, MaybeRefreshBlockingIInv, LockRefreshIInv,
             BeforeRefreshIInv, FinishRefreshIInv, CloseIInv, CloseReleaseIInv, Zenon
<1>3. ASSUME NEW t \in Threads,
             \/ record(t) \/ track(t) \/ insert(t) \/ undo(t) \/ lifetime_acquire(t)
             \/ found(t) \/ prune(t) \/ prune_remove(t) \/ prune_close(t)
             \/ lifetime_close(t) \/ close_all(t)
      PROVE  IInv'
  <2>1. CASE insert(t)
    <3>1. InsertFirst(t) \/ InsertSecond(t)
      <4>1. CASE held[t] \in tracked
        <5>1. tracked' = tracked
          BY <2>1, <4>1, Zenon DEF insert
        <5> QED BY <2>1, <4>1, <5>1, Zenon DEF insert, InsertSecond, Go, lifetime
      <4>2. CASE held[t] \notin tracked
        BY <2>1, <4>2, Zenon DEF insert, InsertFirst, Go
      <4> QED BY <4>1, <4>2, Zenon
    <3> QED BY <3>1, InsertFirstIInv, InsertSecondIInv, Zenon
  <2>2. CASE found(t)
    <3>1. FoundOpen(t) \/ FoundClosed(t)
      BY <2>2, Zenon DEF found, FoundOpen, FoundClosed
    <3> QED BY <3>1, FoundOpenIInv, FoundClosedIInv, Zenon
  <2>3. CASE close_all(t)
    <3>1. CloseTracker(t) \/ CloseAllEnds(t)
      BY <2>3, Zenon DEF close_all, CloseTracker, CloseAllEnds, locks, lifetime
    <3> QED BY <3>1, CloseTrackerIInv, CloseAllEndsIInv, Zenon
  <2> QED BY <1>3, <2>1, <2>2, <2>3, RecordIInv, TrackIInv, UndoIInv, LifetimeAcquireIInv,
             PruneIInv, PruneRemoveIInv, PruneCloseIInv, LifetimeCloseIInv, Zenon
<1>4. CASE UNCHANGED vars
  <2>1. TypeOK'
    BY <1>4, Zenon DEF IInv, vars, locks, readers, lifetime, refresh, TypeOK, ManagerTypes,
       ThreadTypes, Opened
  <2>2. Behind'
    BY <1>4, Zenon DEF IInv, vars, readers, Behind
  <2>3. ASSUME NEW t \in Threads
        PROVE  ThreadInv(t)'
    <3>1. ThreadInv(t)
      BY Zenon DEF IInv
    <3>2. LocksAt(t)' /\ ShapeAt(t)'
      BY <1>4, <3>1, Zenon DEF vars, locks, lifetime, refresh, ThreadInv, LocksAt,
         ShapeAt, Recording
    <3>3. CurrentInvAt(t)' /\ VersionInvAt(t)'
      BY <1>4, <3>1, Zenon DEF vars, readers, refresh, ThreadInv, CurrentInvAt, VersionInvAt
    <3> QED BY <3>2, <3>3, Zenon DEF ThreadInv
  <2>4. RefCountsExact'
    <3>1. /\ count' = count /\ current' = current /\ tracked' = tracked /\ pc' = pc
          /\ ref' = ref /\ new' = new /\ old' = old /\ held' = held /\ todo' = todo
      BY <1>4, Zenon DEF vars, lifetime, refresh
    <3> QED BY <3>1, CountIdle, Zenon
  <2> QED BY <2>1, <2>2, <2>3, <2>4, Zenon DEF IInv
<1> QED BY <1>1, <1>2, <1>3, <1>4, Zenon DEF Next

(* The inductive invariant of the managers holds, for any finite set of    *)
(* threads and any number of readers, changes and failures.                *)
THEOREM ManagerInvariance == Spec => []IInv
<1>1. Init => IInv
  BY InitIInv, Zenon
<1>2. IInv /\ [Next]_vars => IInv'
  BY NextIInv, Zenon
<1> QED BY <1>1, <1>2, PTL DEF Spec

(* The reference count of every reader is the number of its owners.        *)
THEOREM AlwaysCounted == Spec => []RefCountsExact
<1>1. IInv => RefCountsExact
  BY Zenon DEF IInv
<1> QED BY <1>1, ManagerInvariance, PTL

(* acquire never finds the current reader closed.                          *)
THEOREM NeverStuck == Spec => []AcquireNeverStuck
<1>1. IInv => AcquireNeverStuck
  BY Zenon DEF IInv, TypeOK, ThreadTypes, Control, Refreshing, Acquiring, AcquireNeverStuck
<1> QED BY <1>1, ManagerInvariance, PTL

(* After its own refresh a thread acquires a searcher that shows the index *)
(* at least as it was when it asked for the refresh.                       *)
THEOREM AlwaysSeen == Spec => RefreshedIsSeen
<1>1. ASSUME IInv, [Next]_vars
      PROVE  [\A t \in Threads :
                pc[t] = "inc" /\ held'[t] # held[t] => version[held'[t]] >= fresh[t]]_vars
  <2> SUFFICES ASSUME NEW v \in Threads, pc[v] = "inc", held'[v] # held[v], Next
               PROVE  version[held'[v]] >= fresh[v]
    BY <1>1, Zenon DEF vars
  <2>1. held'[v] = ref[v]
    <3>1. PICK t \in Threads : try_inc_ref(t) \/ release(t) \/ found(t)
      BY Zenon DEF Next, IndexChanges, acquire, read_current, recheck, maybe_refresh,
         maybe_refresh_blocking, lock_refresh, before_refresh, refresh_if_needed,
         swap_reference, release_old, finish_refresh, close, close_release, record, track,
         insert, undo, lifetime_acquire, prune, prune_remove, prune_close, lifetime_close,
         close_all, locks, lifetime, refresh
    <3>2. held \in [Threads -> Opened \cup {0}]
      BY <1>1, Zenon DEF IInv, TypeOK, ThreadTypes
    <3>3. t = v
      BY <3>1, <3>2, Zenon DEF try_inc_ref, release, found, Set
    <3>4. try_inc_ref(v)
      BY <3>1, <3>3, Zenon DEF release, found, Go
    <3> QED BY <3>2, <3>4, Zenon DEF try_inc_ref, Set
  <2>2. /\ ref[v] \in Readers /\ version \in [Readers -> Nat] /\ fresh[v] \in Nat
        /\ fresh[v] <= version[ref[v]]
    <3>1. ref[v] \in Opened \cup {0} /\ ref[v] # 0 /\ opened \in Readers
      BY <1>1, Zenon DEF IInv, TypeOK, ManagerTypes, ThreadTypes, ThreadInv, ShapeAt
    <3>2. ref[v] \in Readers
      BY <3>1, ManagerAssumption DEF Opened, Readers
    <3>3. version \in [Readers -> Nat] /\ fresh[v] \in Nat
      BY <1>1, Zenon DEF IInv, TypeOK, ManagerTypes, ThreadTypes
    <3>4. fresh[v] <= version[ref[v]]
      BY <1>1, Zenon DEF IInv, ThreadInv, VersionInvAt
    <3> QED BY <3>2, <3>3, <3>4, Zenon
  <2> QED BY <2>1, <2>2, Zenon
<1> QED BY <1>1, ManagerInvariance, PTL DEF Spec, RefreshedIsSeen
=============================================================================
