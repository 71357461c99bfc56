---------------------- MODULE PersistentSnapshotsProofs ----------------------
(***************************************************************************)
(* The inductive invariant of PersistentSnapshots, and the proof that      *)
(* persisted snapshots survive for any bounds.                             *)
(***************************************************************************)
EXTENDS PersistentSnapshots, TLAPS

Kinds == {"snapshot", "release", "releaseGen"}
Steps == {"create", "sync", "delete"}

(* Types of all variables.                                                 *)
TypeOK ==
  /\ open \in BOOLEAN
  /\ held \in [Commits -> Nat]
  /\ nextGen \in Nat
  /\ call \in [step : Steps, kind : Kinds, commit : Commits] \cup {Idle}
  /\ present \subseteq FileGens /\ ghosts \subseteq FileGens
  /\ data \in [FileGens -> [Commits -> Nat]]
  /\ synced \subseteq FileGens /\ torn \subseteq FileGens
  /\ points \subseteq Commits
  /\ last \in Commits
  /\ acked \in [Commits -> Nat] /\ short \subseteq Commits

(* The counts before the call in progress, to which a failure goes back.   *)
Base == IF call = Idle THEN held ELSE Undone(call.commit)

Covers(f, g) == \A c \in Commits : f[c] >= g[c]

(* What is promised is counted, before the call and after it.              *)
Counted ==
  open => Covers(held, Due) /\ Covers(Base, acked)

(* The newest commit is a commit point, and so is what a call snapshots.   *)
PointsInv ==
  /\ last \in points /\ \A c \in points : c <= last
  /\ call.kind = "snapshot" => call.commit = last
  /\ \A c \in Commits : acked[c] > 0 => c \in points

(* The file before the next one is durable and is read as covering the     *)
(* counts.  Only files before the next one are torn.                       *)
SavedInv ==
  open =>
    /\ nextGen > 0 => /\ nextGen - 1 \in present \cap synced
                      /\ Covers(Loaded(nextGen - 1), Base)
    /\ nextGen = 0 => Base = NoCounts
    /\ \A g \in torn : g < nextGen

(* A file of the next generation, left over or in the making, covers what  *)
(* is promised, less what a failed release left out: it may become the     *)
(* newest one by a crash.                                                  *)
NextInv ==
  open =>
    /\ present \cup ghosts \subseteq 0..nextGen
    /\ call.step \in {"idle", "create"} /\ nextGen \in present \cup ghosts =>
         Covers(data[nextGen], Less(acked, short))
    /\ call = Idle /\ nextGen \in present => Covers(data[nextGen], Less(held, short))
    /\ call.step \in {"sync", "delete"} =>
         nextGen \in present /\ data[nextGen] = held /\ short = {}
    /\ call.step = "delete" => nextGen \in synced /\ ghosts = {}

(* After a crash the newest file covers what is promised.                  *)
ClosedInv ==
  ~open =>
    /\ call = Idle /\ synced = present /\ ghosts = {}
    /\ \/ present = {} /\ acked = NoCounts
       \/ \E g \in present : (\A h \in present : h <= g) /\ Covers(data[g], Less(acked, short))
    /\ torn \subseteq present

IInv == TypeOK /\ Counted /\ PointsInv /\ SavedInv /\ NextInv /\ ClosedInv
-----------------------------------------------------------------------------
(* The invariant holds initially.                                          *)
LEMMA InitIInv == Init => IInv
<1> SUFFICES ASSUME Init PROVE IInv
  OBVIOUS
<1> USE SnapshotBounds DEF Init, Commits, FileGens, NoCounts, Idle
<1>1. TypeOK
  BY DEF TypeOK
<1>2. Counted
  BY DEF Counted, Base, Due, Covers
<1>3. PointsInv
  BY DEF PointsInv
<1>4. SavedInv
  BY DEF SavedInv, Base
<1>5. NextInv
  BY DEF NextInv
<1>6. ClosedInv
  BY DEF ClosedInv
<1> QED
  BY <1>1, <1>2, <1>3, <1>4, <1>5, <1>6 DEF IInv

(* A commit keeps what is counted, and the newest commit.                  *)
LEMMA KeptPoints ==
  ASSUME NEW C \in SUBSET Commits, NEW m \in C, \A c \in C : c <= m,
         NEW f \in [Commits -> Nat]
  PROVE  Kept(C, f) = {c \in C : c = m \/ f[c] > 0}
<1> DEFINE Top(x) == x \in C /\ \A y \in C : x >= y
<1>1. \A x \in C : Top(x) <=> x = m
  BY DEF Commits
<1>2. Max(C) = CHOOSE x \in C : Top(x)
  BY Zenon DEF Max
<1>3. Max(C) = m
  BY <1>1, <1>2
<1> QED
  BY <1>3 DEF Kept

(* Counting and uncounting undo each other.                                *)
LEMMA IncDec ==
  ASSUME NEW f \in [Commits -> Nat], NEW c \in Commits
  PROVE  /\ Inc(f, c) \in [Commits -> Nat]
         /\ Dec(Inc(f, c), c) = f
         /\ f[c] > 0 => Dec(f, c) \in [Commits -> Nat] /\ Inc(Dec(f, c), c) = f
<1>1. \A n \in Nat : n + 1 \in Nat /\ (n + 1) - 1 = n /\ (n > 0 => n - 1 \in Nat /\ (n - 1) + 1 = n)
  OBVIOUS
<1> QED
  BY <1>1 DEF Inc, Dec

(* Less takes away, keeps the order, and is what Dec does to a count.      *)
LEMMA LessFacts ==
  ASSUME NEW f \in [Commits -> Nat], NEW S
  PROVE  /\ Less(f, S) \in [Commits -> Nat]
         /\ Covers(f, Less(f, S))
         /\ \A g \in [Commits -> Nat] : Covers(f, g) => Covers(Less(f, S), Less(g, S))
         /\ S = {} => Less(f, S) = f
         /\ \A c \in Commits : f[c] > 0 /\ S = {c} => Less(f, S) = Dec(f, c)
<1>1. Less(f, S) \in [Commits -> Nat] /\ Covers(f, Less(f, S))
  BY DEF Less, Covers
<1>2. ASSUME NEW g \in [Commits -> Nat], Covers(f, g) PROVE Covers(Less(f, S), Less(g, S))
  BY <1>2 DEF Less, Covers
<1>3. S = {} => Less(f, S) = f
  BY DEF Less
<1>4. ASSUME NEW c \in Commits, f[c] > 0, S = {c} PROVE Less(f, S) = Dec(f, c)
  BY <1>4 DEF Less, Dec
<1> QED
  BY <1>1, <1>2, <1>3, <1>4

(* A covered count is covered by what covers its cover.                    *)
LEMMA CoversTrans ==
  ASSUME NEW f \in [Commits -> Nat], NEW g \in [Commits -> Nat], NEW h \in [Commits -> Nat],
         Covers(f, g), Covers(g, h)
  PROVE  Covers(f, h)
BY DEF Covers

(* The promises left after a call are at most the ones before it.          *)
LEMMA DueFacts ==
  ASSUME TypeOK
  PROVE  Due \in [Commits -> Nat] /\ Covers(acked, Due)
<1>1. acked \in [Commits -> Nat]
  BY DEF TypeOK
<1>2. Covers(acked, acked)
  BY <1>1 DEF Covers
<1> QED
  BY <1>1, <1>2, LessFacts DEF Due

(* OnCommit preserves the invariant.                                       *)
LEMMA OnCommitIInv == IInv /\ OnCommit => IInv'
<1> SUFFICES ASSUME IInv, OnCommit PROVE IInv'
  OBVIOUS
<1> USE DEF IInv
<1>1. points' = {c \in points \union {last + 1} : c = last + 1 \/ held[c] > 0}
  <2>1. points \union {last + 1} \subseteq Commits
    BY DEF OnCommit, TypeOK
  <2>2. \A c \in points \union {last + 1} : c <= last + 1
    BY DEF PointsInv, TypeOK, Commits
  <2>3. held \in [Commits -> Nat] /\ points' = Kept(points \union {last + 1}, held)
    BY DEF OnCommit, TypeOK
  <2> QED
    BY <2>1, <2>2, <2>3, KeptPoints
<1>2. TypeOK'
  BY <1>1 DEF OnCommit, TypeOK, files, history
<1>3. Counted' /\ SavedInv' /\ NextInv' /\ ClosedInv'
  BY DEF OnCommit, Counted, SavedInv, NextInv, ClosedInv, Base, Due, Covers, Undone, Loaded,
         Less, files, history
<1>4. PointsInv'
  <2>1. ASSUME NEW c \in Commits, acked'[c] > 0 PROVE c \in points'
    <3>1. acked' = acked /\ c \in points
      BY <2>1 DEF OnCommit, PointsInv, history
    <3>2. held[c] > 0
      BY <2>1, <3>1 DEF OnCommit, Counted, Base, Covers, TypeOK
    <3> QED
      BY <1>1, <3>1, <3>2
  <2>2. last' = last + 1 /\ last \in Int /\ \A c \in points : c \in Int /\ c <= last
    BY DEF OnCommit, PointsInv, TypeOK, Commits
  <2>3. last' \in points' /\ \A c \in points' : c <= last'
    BY <1>1, <2>2
  <2>4. call'.kind = "none"
    BY DEF OnCommit, Idle
  <2> QED
    BY <2>1, <2>3, <2>4 DEF PointsInv
<1> QED
  BY <1>2, <1>3, <1>4

(* Snapshot preserves the invariant.                                       *)
LEMMA SnapshotIInv == IInv /\ Snapshot => IInv'
<1> SUFFICES ASSUME IInv, Snapshot PROVE IInv'
  OBVIOUS
<1> USE DEF IInv, Snapshot, files, index, history
<1>1. TypeOK'
  BY DEF TypeOK, Inc, Steps, Kinds
<1>2. call' # Idle /\ call = Idle
  BY DEF Idle
<1>3. Base' = held
  BY <1>2, IncDec DEF Base, Undone, TypeOK
<1>4. Counted'
  BY <1>2, <1>3 DEF Counted, Base, Due, Covers, Inc, TypeOK
<1>5. PointsInv'
  BY DEF PointsInv
<1>6. SavedInv'
  BY <1>2, <1>3 DEF SavedInv, Base, Loaded, Covers
<1>7. NextInv'
  BY <1>2 DEF NextInv, Covers, Less, Idle
<1>8. ClosedInv'
  BY DEF ClosedInv
<1> QED
  BY <1>1, <1>4, <1>5, <1>6, <1>7, <1>8

(* Release preserves the invariant.                                        *)
LEMMA ReleaseIInv ==
  ASSUME NEW c \in Commits, NEW kind \in {"release", "releaseGen"}
  PROVE  IInv /\ Release(c, kind) => IInv'
<1> SUFFICES ASSUME IInv, Release(c, kind) PROVE IInv'
  OBVIOUS
<1> USE DEF IInv, Release, files, index
<1>1. call' # Idle /\ call = Idle /\ held \in [Commits -> Nat] /\ held[c] > 0
  BY DEF Idle, TypeOK
<1>2. held' \in [Commits -> Nat] /\ Inc(held', c) = held
  BY <1>1, IncDec
<1>3. /\ \A x \in Commits : held'[x] <= held[x]
      /\ \A x \in Commits \ {c} : held'[x] = held[x]
      /\ held'[c] = held[c] - 1
  BY <1>1 DEF Dec
<1>4. acked' \in [Commits -> Nat] /\ Covers(acked, acked')
  <2>1. acked \in [Commits -> Nat] /\ Covers(acked, acked)
    BY DEF Covers, TypeOK
  <2> QED
    BY <2>1, LessFacts
<1>5. Covers(held, acked) /\ Base = held
  BY <1>1 DEF Counted, Base
<1>6. Base' = IF kind = "release" THEN held ELSE held'
  BY <1>1, <1>2 DEF Base, Undone
<1>7. TypeOK'
  BY <1>1, <1>2, <1>4 DEF TypeOK, Steps, Kinds
<1>8. Counted'
  <2>1. Due' = Less(acked, {c})
    BY DEF Due
  <2>2. Covers(held', Less(acked, {c}))
    <3>1. acked \in [Commits -> Nat]
      BY DEF TypeOK
    <3>2. Covers(Less(held, {c}), Less(acked, {c})) /\ Less(held, {c}) = held'
      BY <3>1, <1>1, <1>5, LessFacts
    <3> QED
      BY <3>2
  <2>3. Covers(Base', acked')
    BY <1>5, <1>6, <2>2
  <2> QED
    BY <2>1, <2>2, <2>3 DEF Counted
<1>9. PointsInv'
  <2>1. call'.kind # "snapshot" /\ points' = points /\ last' = last
    OBVIOUS
  <2>2. \A x \in Commits : acked'[x] > 0 => acked[x] > 0
    <3>1. acked \in [Commits -> Nat] /\ acked' \in [Commits -> Nat]
      BY <1>4 DEF TypeOK
    <3> HIDE DEF Release, IInv
    <3> QED
      BY <1>4, <3>1 DEF Covers
  <2> QED
    BY <2>1, <2>2 DEF PointsInv
<1>10. SavedInv'
  <2>1. /\ open /\ open' /\ nextGen' = nextGen /\ data' = data /\ present' = present
        /\ synced' = synced /\ torn' = torn
    OBVIOUS
  <2>2. Base' \in [Commits -> Nat] /\ \A x \in Commits : Base'[x] <= held[x]
    BY <1>1, <1>2, <1>3, <1>6
  <2>3. nextGen = 0 => Base' = NoCounts
    <3>1. SUFFICES ASSUME nextGen = 0 PROVE FALSE
      OBVIOUS
    <3>2. held = NoCounts
      BY <2>1, <3>1, <1>5 DEF SavedInv
    <3> QED
      BY <3>2, <1>1 DEF NoCounts
  <2>4. nextGen > 0 => Covers(Loaded(nextGen - 1), Base')
    <3>1. SUFFICES ASSUME nextGen > 0 PROVE Covers(Loaded(nextGen - 1), Base')
      OBVIOUS
    <3>2. nextGen - 1 \in FileGens /\ Covers(Loaded(nextGen - 1), held)
      BY <2>1, <3>1, <1>5 DEF SavedInv, TypeOK
    <3>3. Loaded(nextGen - 1) \in [Commits -> Nat]
      BY <3>2 DEF Loaded, NoCounts, TypeOK
    <3> QED
      BY <3>2, <3>3, <2>2, <1>1 DEF Covers
  <2>5. Loaded(nextGen - 1)' = Loaded(nextGen - 1)
    BY <2>1 DEF Loaded
  <2> QED
    BY <2>1, <2>3, <2>4, <2>5 DEF SavedInv
<1>11. NextInv'
  <2>1. Covers(Less(acked, short), Less(acked', short))
    BY <1>4, LessFacts DEF TypeOK
  <2>2. /\ Less(acked, short) \in [Commits -> Nat] /\ Less(acked', short) \in [Commits -> Nat]
        /\ short' = short
    BY <1>4, LessFacts DEF TypeOK
  <2>3. ASSUME nextGen \in present \cup ghosts PROVE Covers(data[nextGen], Less(acked', short))
    <3>1. data[nextGen] \in [Commits -> Nat] /\ Covers(data[nextGen], Less(acked, short))
      BY <2>3, <1>1 DEF NextInv, TypeOK, Idle
    <3> QED
      BY <3>1, <2>1, <2>2, CoversTrans
  <2>4. present \cup ghosts \subseteq 0..nextGen
    BY DEF NextInv
  <2> QED
    BY <1>1, <2>2, <2>3, <2>4 DEF NextInv
<1>12. ClosedInv'
  BY DEF ClosedInv
<1> QED
  BY <1>7, <1>8, <1>9, <1>10, <1>11, <1>12

(* CreateFile preserves the invariant.                                     *)
LEMMA CreateFileIInv == IInv /\ CreateFile => IInv'
<1> SUFFICES ASSUME IInv, CreateFile PROVE IInv'
  OBVIOUS
<1> USE DEF IInv, CreateFile, index
<1>1. /\ call # Idle /\ call' # Idle
      /\ call \in [step : Steps, kind : Kinds, commit : Commits]
      /\ call'.kind = call.kind /\ call'.commit = call.commit /\ call'.step = "sync"
  BY DEF Idle, TypeOK, Steps, Kinds
<1>2. Base' = Base
  BY <1>1 DEF Base, Undone
<1>3. open
  BY <1>1 DEF ClosedInv
<1>4. nextGen \in FileGens /\ data'[nextGen] = held
        /\ \A g \in FileGens \ {nextGen} : data'[g] = data[g]
  BY DEF TypeOK
<1>5. TypeOK'
  BY <1>1 DEF TypeOK, Steps
<1>6. Counted'
  BY <1>1, <1>2 DEF Counted, Covers, Due, Less
<1>7. PointsInv'
  BY <1>1 DEF PointsInv
<1>8. SavedInv'
  <2>1. nextGen > 0 => nextGen - 1 \in FileGens \ {nextGen}
    BY <1>4, SnapshotBounds DEF FileGens
  <2>2. nextGen > 0 => Loaded(nextGen - 1)' = Loaded(nextGen - 1)
    BY <2>1, <1>4 DEF Loaded
  <2>3. nextGen > 0 => nextGen - 1 \in present' \cap synced'
    BY <2>1, <1>3 DEF SavedInv
  <2>4. nextGen' = nextGen /\ open' = open /\ torn' \subseteq torn
    OBVIOUS
  <2> QED
    BY <2>2, <2>3, <2>4, <1>2, <1>3 DEF SavedInv, Covers
<1>9. NextInv'
  BY <1>1, <1>3, <1>4 DEF NextInv, TypeOK, Idle
<1>10. ClosedInv'
  BY <1>3 DEF ClosedInv
<1> QED
  BY <1>5, <1>6, <1>7, <1>8, <1>9, <1>10

(* SyncFile preserves the invariant.                                       *)
LEMMA SyncFileIInv == IInv /\ SyncFile => IInv'
<1> SUFFICES ASSUME IInv, SyncFile PROVE IInv'
  OBVIOUS
<1> USE DEF IInv, SyncFile, index, history
<1>1. /\ call # Idle /\ call' # Idle
      /\ call \in [step : Steps, kind : Kinds, commit : Commits]
      /\ call'.kind = call.kind /\ call'.commit = call.commit /\ call'.step = "delete"
  BY DEF Idle, TypeOK, Steps, Kinds
<1>2. Base' = Base
  BY <1>1 DEF Base, Undone
<1>3. open /\ nextGen \in present
  BY <1>1 DEF ClosedInv, NextInv
<1>4. TypeOK'
  BY <1>1, <1>3 DEF TypeOK, Steps
<1>5. Counted'
  BY <1>1, <1>2 DEF Counted, Covers, Due, Less
<1>6. PointsInv'
  BY <1>1 DEF PointsInv
<1>7. SavedInv'
  BY <1>2, <1>3 DEF SavedInv, Covers, Loaded
<1>8. NextInv'
  BY <1>1, <1>3 DEF NextInv, Idle
<1>9. ClosedInv'
  BY <1>3 DEF ClosedInv
<1> QED
  BY <1>4, <1>5, <1>6, <1>7, <1>8, <1>9

(* DeletePrevious preserves the invariant.                                 *)
LEMMA DeletePreviousIInv == IInv /\ DeletePrevious => IInv'
<1> SUFFICES ASSUME IInv, DeletePrevious PROVE IInv'
  OBVIOUS
<1> USE DEF IInv, DeletePrevious, index
<1>1. call # Idle /\ call \in [step : Steps, kind : Kinds, commit : Commits]
  BY DEF Idle, TypeOK, Steps, Kinds
<1>2. open /\ nextGen \in present \cap synced /\ data[nextGen] = held
        /\ nextGen \in FileGens /\ nextGen \in Nat /\ short = {}
  BY <1>1 DEF ClosedInv, NextInv, TypeOK
<1>3. call'.kind = "none" /\ call'.step = "idle" /\ Base' = held
  BY DEF Base, Idle
<1>4. acked' \in [Commits -> Nat]
  BY <1>1, IncDec, DueFacts DEF TypeOK
<1>5. Covers(held, acked')
  <2>1. CASE call.kind = "snapshot"
    <3>1. Base = Dec(held, call.commit)
      BY <1>1, <2>1 DEF Base, Undone
    <3>2. \A c \in Commits : acked'[c] = IF c = call.commit THEN acked[c] + 1 ELSE acked[c]
      BY <2>1, <1>1 DEF Inc, TypeOK
    <3>3. \A c \in Commits : Base[c] = IF c = call.commit THEN held[c] - 1 ELSE held[c]
      BY <3>1 DEF Dec, TypeOK
    <3> QED
      BY <3>2, <3>3, <1>2 DEF Covers, Counted, TypeOK
  <2>2. CASE call.kind # "snapshot"
    BY <2>2, <1>2 DEF Counted
  <2> QED
    BY <2>1, <2>2
<1>6. TypeOK'
  BY <1>2, <1>4 DEF TypeOK
<1>7. Counted'
  BY <1>2, <1>3, <1>5 DEF Counted, Due
<1>8. PointsInv'
  <2>1. CASE call.kind = "snapshot"
    BY <2>1, <1>1, <1>3 DEF PointsInv, Inc, TypeOK
  <2>2. CASE call.kind # "snapshot"
    BY <2>2, <1>1, <1>3, DueFacts DEF PointsInv, Covers, TypeOK
  <2> QED
    BY <2>1, <2>2
<1>9. nextGen' > 0 /\ nextGen' - 1 = nextGen
  BY <1>2
<1>10. SavedInv'
  <2>1. nextGen \notin torn /\ \A g \in torn : g \in Nat /\ g < nextGen
    BY <1>2 DEF SavedInv, TypeOK, FileGens
  <2>2. Loaded(nextGen - 1)' = held
    BY <2>1, <1>2, <1>9 DEF Loaded
  <2>3. nextGen \in present' \cap synced'
    BY <1>2
  <2>4. Covers(held, held)
    BY DEF Covers, TypeOK
  <2>5. \A g \in torn' : g < nextGen'
    BY <2>1, <1>2
  <2> QED
    BY <2>2, <2>3, <2>4, <2>5, <1>2, <1>3, <1>9 DEF SavedInv
<1>11. NextInv'
  <2>1. present' \cup ghosts' \subseteq 0..nextGen
    BY <1>2 DEF NextInv
  <2>2. nextGen' = nextGen + 1 /\ nextGen' \notin 0..nextGen /\ 0..nextGen \subseteq 0..nextGen'
    BY <1>2
  <2>3. nextGen' \notin present' \cup ghosts' /\ present' \cup ghosts' \subseteq 0..nextGen'
    BY <2>1, <2>2
  <2> QED
    BY <1>3, <2>3 DEF NextInv
<1>12. ClosedInv'
  BY <1>2 DEF ClosedInv
<1> QED
  BY <1>6, <1>7, <1>8, <1>10, <1>11, <1>12

(* PersistFails preserves the invariant.                                   *)
LEMMA PersistFailsIInv == IInv /\ PersistFails => IInv'
<1> SUFFICES ASSUME IInv, PersistFails PROVE IInv'
  OBVIOUS
<1> USE DEF IInv, PersistFails, index
<1>1. call # Idle /\ call \in [step : Steps, kind : Kinds, commit : Commits]
  BY DEF Idle, TypeOK, Steps, Kinds
<1>2. open
  BY <1>1 DEF ClosedInv
<1>3. held' = Base /\ Base' = Base /\ call'.kind = "none" /\ call'.step = "idle"
  BY <1>1 DEF Base, Idle
<1>4. held' \in [Commits -> Nat]
  <2>1. CASE call.kind = "snapshot"
    <3>1. Base = Dec(held, call.commit)
      BY <1>1, <2>1 DEF Base, Undone
    <3>2. Base[call.commit] = held[call.commit] - 1
      BY <3>1, <1>1 DEF Dec, TypeOK
    <3>3. held[call.commit] > 0
      BY <3>2, <1>1, <1>2 DEF Counted, Covers, TypeOK
    <3> QED
      BY <3>1, <3>3, <1>1, <1>3, IncDec DEF TypeOK
  <2>2. CASE call.kind # "snapshot"
    BY <2>2, <1>1, IncDec DEF Undone, TypeOK
  <2> QED
    BY <2>1, <2>2
<1>5. present' \subseteq present /\ present' \cup ghosts' = present \cup ghosts
  OBVIOUS
<1>6. TypeOK'
  <2>1. short' \subseteq Commits
    BY <1>1 DEF TypeOK
  <2> QED
    BY <2>1, <1>4, <1>5 DEF TypeOK
<1>7. Counted'
  BY <1>2, <1>3 DEF Counted, Due
<1>8. PointsInv'
  BY <1>3 DEF PointsInv
<1>9. SavedInv'
  <2>1. nextGen > 0 => nextGen - 1 \in present'
    BY <1>2 DEF SavedInv, TypeOK
  <2>2. Loaded(nextGen - 1)' = Loaded(nextGen - 1)
    BY DEF Loaded
  <2>3. Base' = Base /\ torn' = torn /\ synced' = synced /\ nextGen' = nextGen
    BY <1>3
  <2> QED
    BY <2>1, <2>2, <2>3, <1>2 DEF SavedInv
<1>10. NextInv'
  <2>1. CASE call.step = "create"
    <3>1. nextGen \notin present' /\ short' = short /\ acked' = acked /\ data' = data
      BY <2>1
    <3> QED
      BY <2>1, <3>1, <1>2, <1>3, <1>5 DEF NextInv
  <2>2. CASE call.step = "sync"
    <3>1. data[nextGen] = held /\ held \in [Commits -> Nat] /\ acked \in [Commits -> Nat]
      BY <2>2, <1>2 DEF NextInv, TypeOK
    <3>2. Covers(held, Less(acked, short')) /\ Covers(held, Less(held', short'))
      <4>1. CASE call.kind = "release"
        <5>1. short' = {call.commit} /\ Covers(held, Less(acked, {call.commit}))
          BY <2>2, <4>1, <1>2 DEF Counted, Due
        <5>2. held' = Inc(held, call.commit)
          BY <4>1 DEF Undone
        <5>3. held = Less(held', {call.commit})
          BY <5>2, <3>1, <1>1 DEF Inc, Less
        <5> QED
          BY <5>1, <5>3, <3>1 DEF Covers
      <4>2. CASE call.kind # "release"
        <5>1. short' = {} /\ Covers(held, acked)
          BY <2>2, <4>2, <1>2 DEF Counted, Due
        <5>2. Covers(held, held')
          BY <4>2, <3>1, <1>1 DEF Undone, Dec, Covers
        <5>3. Less(acked, {}) = acked /\ Less(held', {}) = held'
          BY <3>1, <1>4, LessFacts
        <5> QED
          BY <5>1, <5>2, <5>3
      <4> QED
        BY <4>1, <4>2
    <3> QED
      BY <3>1, <3>2, <2>2, <1>2, <1>3, <1>5 DEF NextInv
  <2> QED
    BY <2>1, <2>2
<1>11. ClosedInv'
  BY <1>2 DEF ClosedInv
<1> QED
  BY <1>6, <1>7, <1>8, <1>9, <1>10, <1>11

(* Crash preserves the invariant: of the files it may leave, the newest is *)
(* that of the next generation, or the one before it, which is durable.    *)
LEMMA CrashIInv ==
  ASSUME NEW lost, NEW back, NEW broken
  PROVE  IInv /\ Crash(lost, back, broken) => IInv'
<1> SUFFICES ASSUME IInv, Crash(lost, back, broken) PROVE IInv'
  OBVIOUS
<1> USE DEF IInv, Crash, index
<1>1. open /\ call'.kind = "none" /\ call'.step = "idle" /\ ~open'
  BY DEF Idle
<1>2. TypeOK' /\ acked' = Due /\ data' = data
  BY DueFacts DEF TypeOK, NoCounts
<1>3. PointsInv'
  BY <1>1, DueFacts DEF PointsInv, Covers, TypeOK
<1>4. ClosedInv'
  <2>1. present' \subseteq 0..nextGen /\ nextGen \in Nat
    BY <1>1 DEF NextInv, TypeOK
  <2>2. synced' = present' /\ ghosts' = {} /\ torn' \subseteq present' /\ call' = Idle
    OBVIOUS
  <2>3. /\ acked \in [Commits -> Nat] /\ Due \in [Commits -> Nat] /\ Covers(acked, Due)
        /\ held \in [Commits -> Nat] /\ data \in [FileGens -> [Commits -> Nat]]
        /\ present' \subseteq FileGens
    BY <1>2, DueFacts DEF TypeOK
  <2>4. CASE nextGen \in present'
    <3>1. \A h \in present' : h <= nextGen
      BY <2>1
    <3>2. Covers(data[nextGen], Less(Due, short))
      <4>1. CASE call.step \in {"idle", "create"}
        <5>1. Covers(data[nextGen], Less(acked, short))
          BY <2>4, <4>1, <1>1 DEF NextInv
        <5>2. /\ Covers(Less(acked, short), Less(Due, short))
              /\ Less(acked, short) \in [Commits -> Nat] /\ Less(Due, short) \in [Commits -> Nat]
          BY <2>3, LessFacts
        <5>3. data[nextGen] \in [Commits -> Nat]
          BY <2>3, <2>4
        <5> QED
          BY <5>1, <5>2, <5>3, CoversTrans
      <4>2. CASE call.step \in {"sync", "delete"}
        <5>1. data[nextGen] = held /\ short = {} /\ Covers(held, Due)
          BY <4>2, <1>1 DEF NextInv, Counted
        <5> QED
          BY <5>1, <2>3, LessFacts
      <4>3. call.step \in {"idle", "create", "sync", "delete"}
        BY DEF TypeOK, Steps, Idle
      <4> QED
        BY <4>1, <4>2, <4>3
    <3>3. short' = short
      BY <2>4
    <3> QED
      BY <2>2, <2>4, <3>1, <3>2, <3>3, <1>1, <1>2 DEF ClosedInv
  <2>5. CASE nextGen \notin present' /\ nextGen > 0
    <3>1. nextGen - 1 \in present' /\ Covers(Loaded(nextGen - 1), Base)
      BY <2>5, <1>1 DEF SavedInv
    <3>2. \A h \in present' : h <= nextGen - 1
      BY <2>1, <2>5
    <3>3. data[nextGen - 1] \in [Commits -> Nat] /\ Covers(Base, acked)
      BY <2>3, <3>1, <1>1 DEF Counted
    <3>4. Covers(data[nextGen - 1], acked)
      <4>1. \A c \in Commits : Loaded(nextGen - 1)[c] \in Nat
                               /\ data[nextGen - 1][c] >= Loaded(nextGen - 1)[c]
        BY <3>3 DEF Loaded, NoCounts
      <4>2. \A c \in Commits : Base[c] \in Int
        BY <2>3 DEF Base, Undone, Dec, Inc
      <4> QED
        BY <4>1, <4>2, <3>1, <3>3, <2>3 DEF Covers
    <3>5. Less(Due, {}) = Due /\ short' = {}
      BY <2>3, <2>5, LessFacts
    <3>6. Covers(data[nextGen - 1], Due)
      BY <3>3, <3>4, <2>3, CoversTrans
    <3> QED
      BY <2>2, <3>1, <3>2, <3>5, <3>6, <1>1, <1>2 DEF ClosedInv
  <2>6. CASE nextGen \notin present' /\ ~(nextGen > 0)
    <3>1. present' = {}
      BY <2>1, <2>6
    <3>2. Base = NoCounts /\ Covers(Base, acked)
      BY <2>1, <2>6, <1>1 DEF SavedInv, Counted
    <3>3. \A c \in Commits : Due[c] = 0
      BY <3>2, <2>3 DEF Covers, NoCounts
    <3>4. acked' = NoCounts
      BY <3>3, <2>3, <1>2 DEF NoCounts
    <3> QED
      BY <2>2, <3>1, <3>4, <1>1 DEF ClosedInv
  <2> QED
    BY <2>4, <2>5, <2>6
<1> QED
  BY <1>1, <1>2, <1>3, <1>4 DEF Counted, SavedInv, NextInv

(* Reopen preserves the invariant.                                         *)
LEMMA ReopenIInv == IInv /\ Reopen => IInv'
<1> SUFFICES ASSUME IInv, Reopen PROVE IInv'
  OBVIOUS
<1> USE DEF IInv, Reopen
<1>1. ~open /\ open' /\ call = Idle /\ call' = Idle /\ synced = present /\ ghosts = {}
        /\ Base' = held'
  BY DEF ClosedInv, Base
<1>2. /\ held' \in [Commits -> Nat] /\ acked' \in [Commits -> Nat]
      /\ Covers(held', acked') /\ Covers(acked, acked')
      /\ \/ present' = {} /\ ghosts' = {} /\ nextGen' = 0
            /\ held' = NoCounts /\ acked' = NoCounts
         \/ \E g \in present :
              /\ present' = {g} /\ ghosts' = present \ {g} /\ nextGen' = g + 1
              /\ \A h \in present : h <= g
              /\ Loaded(g) = held'
  <2>1. CASE present = {}
    BY <2>1, <1>1 DEF ClosedInv, Covers, NoCounts, Restart
  <2>2. CASE present # {}
    <3>1. PICK g \in present : /\ \A h \in present : h <= g
                              /\ Covers(data[g], Less(acked, short))
      BY <2>2, <1>1 DEF ClosedInv
    <3>2. LoadedGen(present) = g
      <4> DEFINE Top(x) == \A y \in present : x >= y
      <4>1. \A x \in present : Top(x) <=> x = g
        BY <3>1 DEF TypeOK, FileGens
      <4>2. LoadedGen(present) = CHOOSE x \in present : Top(x)
        BY Zenon DEF LoadedGen, Max
      <4> QED
        BY <4>1, <4>2
    <3>3. /\ held' = Loaded(g) /\ nextGen' = g + 1
          /\ acked' = (IF g \in torn THEN NoCounts ELSE Less(acked, short))
          /\ present' = {g} /\ ghosts' = present \ {g}
      BY <2>2, <3>2 DEF Restart
    <3>4. data[g] \in [Commits -> Nat] /\ NoCounts \in [Commits -> Nat]
            /\ acked \in [Commits -> Nat]
      BY DEF TypeOK, NoCounts
    <3>5. Less(acked, short) \in [Commits -> Nat] /\ Covers(acked, Less(acked, short))
      BY <3>4, LessFacts
    <3> QED
      BY <3>1, <3>3, <3>4, <3>5 DEF Loaded, Covers, NoCounts
  <2> QED
    BY <2>1, <2>2
<1>3. points' = {c \in points : c = last \/ held'[c] > 0}
  <2>1. points \in SUBSET Commits /\ last \in points /\ \A c \in points : c <= last
    BY DEF PointsInv, TypeOK
  <2> QED
    BY <2>1, <1>2, KeptPoints
<1>4. TypeOK'
  <2>1. present' \subseteq FileGens /\ ghosts' \subseteq FileGens
    BY <1>2 DEF TypeOK
  <2>2. nextGen' \in Nat
    BY <1>2 DEF TypeOK, FileGens
  <2> QED
    BY <2>1, <2>2, <1>1, <1>2, <1>3 DEF TypeOK
<1>5. Counted'
  BY <1>1, <1>2 DEF Counted, Due, Idle
<1>6. PointsInv'
  <2>1. ASSUME NEW c \in Commits, acked'[c] > 0 PROVE c \in points'
    BY <2>1, <1>2, <1>3 DEF PointsInv, Covers, TypeOK
  <2> QED
    BY <2>1, <1>1, <1>3 DEF PointsInv
<1>7. SavedInv' /\ NextInv'
  <2>1. CASE nextGen' = 0
    <3>1. present' = {} /\ ghosts' = {} /\ held' = NoCounts /\ present = {}
      BY <2>1, <1>2 DEF TypeOK, FileGens
    <3>2. torn' = {}
      BY <3>1, <1>1 DEF ClosedInv
    <3> QED
      BY <2>1, <3>1, <3>2, <1>1 DEF SavedInv, NextInv, Idle
  <2>2. CASE nextGen' # 0
    <3>1. PICK g \in present : /\ present' = {g} /\ ghosts' = present \ {g}
                               /\ nextGen' = g + 1 /\ (\A h \in present : h <= g)
                               /\ Loaded(g) = held'
      BY <2>2, <1>2
    <3>2. g \in Nat /\ nextGen' > 0 /\ nextGen' - 1 = g /\ present \subseteq Nat
      BY <3>1 DEF TypeOK, FileGens
    <3>3. present \subseteq 0..nextGen' /\ nextGen' \notin present
      BY <3>1, <3>2
    <3>4. Loaded(g)' = held' /\ Covers(held', held')
      BY <3>1, <1>2 DEF Loaded, Covers
    <3>5. SavedInv'
      <4>1. \A h \in torn' : h < nextGen'
        <5>1. torn' \subseteq present
          BY <1>1 DEF ClosedInv
        <5>2. \A h \in present : h \in Nat /\ h <= g
          BY <3>1, <3>2
        <5>3. nextGen' = g + 1
          BY <3>1
        <5> HIDE DEF Reopen, IInv
        <5> QED
          BY <5>1, <5>2, <5>3, <3>2
      <4>2. g \in present' \cap synced'
        BY <3>1, <1>1
      <4> QED
        BY <4>1, <4>2, <3>2, <3>4, <1>1 DEF SavedInv
    <3>6. NextInv'
      BY <3>1, <3>2, <3>3, <1>1 DEF NextInv, Idle
    <3> QED
      BY <3>5, <3>6
  <2> QED
    BY <2>1, <2>2
<1>8. ClosedInv'
  BY <1>1 DEF ClosedInv
<1> QED
  BY <1>4, <1>5, <1>6, <1>7, <1>8

(* The invariant holds in every state.                                     *)
THEOREM SnapshotInvariance == Spec => []IInv
<1>1. Init => IInv
  BY InitIInv
<1>2. IInv /\ [Next]_vars => IInv'
  <2> SUFFICES ASSUME IInv, [Next]_vars PROVE IInv'
    OBVIOUS
  <2>1. CASE OnCommit \/ Snapshot \/ CreateFile \/ SyncFile \/ DeletePrevious
    BY <2>1, OnCommitIInv, SnapshotIInv, CreateFileIInv, SyncFileIInv, DeletePreviousIInv
  <2>2. CASE PersistFails \/ Reopen
    BY <2>2, PersistFailsIInv, ReopenIInv
  <2>3. ASSUME NEW c \in Commits, NEW kind \in {"release", "releaseGen"}, Release(c, kind)
        PROVE  IInv'
    BY <2>3, ReleaseIInv
  <2>4. ASSUME NEW lost, NEW broken, NEW back, Crash(lost, back, broken)
        PROVE  IInv'
    BY <2>4, CrashIInv
  <2>5. CASE UNCHANGED vars
    BY <2>5 DEF vars, files, index, history, IInv, TypeOK, Counted, PointsInv, SavedInv,
                NextInv, ClosedInv, Base, Due, Undone, Covers, Loaded, Less
  <2> QED
    BY <2>1, <2>2, <2>3, <2>4, <2>5 DEF Next
<1> QED
  BY <1>1, <1>2, PTL DEF Spec

(* A snapshot that returned keeps its commit until its promise ends: given *)
(* up by its owner, or broken at a restart by a torn or a left-over file.  *)
THEOREM AlwaysPersisted == Spec => []SnapshotsPersist
<1>1. IInv => SnapshotsPersist
  BY DEF IInv, PointsInv, SnapshotsPersist
<1> QED
  BY <1>1, SnapshotInvariance, PTL

(* Between calls a restart would read what memory holds, less what the     *)
(* file left by a failed release does not count.                           *)
THEOREM AlwaysCovered == Spec => []DiskCoversMemory
<1>1. IInv => DiskCoversMemory
  <2> SUFFICES ASSUME IInv, open, call = Idle, NEW c \in Commits
               PROVE  Restart[c] >= (IF nextGen \in present THEN Less(held, short)[c] ELSE held[c])
    BY DEF DiskCoversMemory
  <2>1. /\ TypeOK /\ SavedInv /\ NextInv /\ Base = held
        /\ present \subseteq 0..nextGen /\ nextGen \in Nat
    BY DEF IInv, Base, NextInv, TypeOK
  <2>2. ASSUME NEW g \in present, \A h \in present : h <= g PROVE Restart = Loaded(g)
    <3> DEFINE Top(x) == \A y \in present : x >= y
    <3>1. \A x \in present : Top(x) <=> x = g
      BY <2>1, <2>2
    <3>2. LoadedGen(present) = CHOOSE x \in present : Top(x)
      BY Zenon DEF LoadedGen, Max
    <3>3. LoadedGen(present) = g
      BY <3>1, <3>2
    <3> QED
      BY <3>3 DEF Restart
  <2>3. CASE nextGen \in present
    <3>1. Restart = Loaded(nextGen)
      BY <2>1, <2>2, <2>3
    <3>2. nextGen \notin torn
      BY <2>1 DEF SavedInv
    <3>3. Covers(data[nextGen], Less(held, short))
      BY <2>1, <2>3 DEF NextInv
    <3> QED
      BY <2>3, <3>1, <3>2, <3>3 DEF Loaded, Covers
  <2>4. CASE nextGen \notin present /\ nextGen > 0
    <3>1. nextGen - 1 \in present /\ \A h \in present : h <= nextGen - 1
      BY <2>1, <2>4 DEF SavedInv
    <3>2. Restart = Loaded(nextGen - 1)
      BY <2>2, <3>1
    <3> QED
      BY <2>1, <2>4, <3>2 DEF SavedInv, Covers
  <2>5. CASE nextGen \notin present /\ nextGen = 0
    <3>1. present = {} /\ held = NoCounts
      BY <2>1, <2>5 DEF SavedInv
    <3> QED
      BY <3>1, <2>5 DEF Restart, NoCounts
  <2> QED
    BY <2>1, <2>3, <2>4, <2>5
<1> QED
  BY <1>1, SnapshotInvariance, PTL
=============================================================================
