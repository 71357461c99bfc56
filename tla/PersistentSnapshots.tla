------------------------- MODULE PersistentSnapshots -------------------------
(***************************************************************************)
(* PersistentSnapshotDeletionPolicy: the snapshot counts are written to a  *)
(* file snapshots_N on every snapshot and release, and read back by the    *)
(* next policy object.  Its calls hold the policy's lock from start to end,*)
(* so calls do not overlap, and on_commit waits for them; a crash can come *)
(* between any two steps.                                                  *)
(*                                                                         *)
(* persist() never calls sync_metadata: syncing a file is taken to make    *)
(* its directory entry durable, with every directory operation before it.  *)
(***************************************************************************)
EXTENDS Naturals, FiniteSets, FiniteSetsExt

CONSTANTS MaxCommit,  \* bound: commits 1 .. MaxCommit
          MaxFile,    \* bound: files snapshots_0 .. snapshots_MaxFile
          MaxHeld,    \* bound: snapshots of one commit
          MaxCrashes, \* bound: crashes
          MaxFails    \* bound: I/O errors

ASSUME SnapshotBounds ==
  /\ MaxCommit \in Nat \ {0} /\ MaxFile \in Nat /\ MaxHeld \in Nat
  /\ MaxCrashes \in Nat /\ MaxFails \in Nat

Commits == 1 .. MaxCommit
FileGens == 0 .. MaxFile
Counts == [Commits -> 0 .. MaxHeld]
NoCounts == [c \in Commits |-> 0]

VARIABLES
  open,      \* a policy object and its writer exist
  held,      \* ref_counts
  nextGen,   \* next_write_gen
  call,      \* the call in progress: its step, its kind, its commit
  present,   \* snapshots_N files in the directory
  data,      \* what snapshots_N says
  synced,    \* files that cannot be torn any more
  torn,      \* files that were
  ghosts,    \* files whose deletion a crash may undo
  points,    \* commit points in the index directory
  last,      \* the newest one
  acked,     \* promises: snapshots that returned and were not given up
  short,     \* the commit, if any, that snapshots_{nextGen} counts once less
             \* than memory, left by a release that failed
  crashes, fails

files == <<present, data, synced, torn, ghosts>>
index == <<points, last>>
history == <<acked, short, crashes, fails>>
vars == <<open, held, nextGen, call, files, index, history>>

Idle == [step |-> "idle", kind |-> "none", commit |-> 1]
Inc(f, c) == [f EXCEPT ![c] = @ + 1]
Dec(f, c) == [f EXCEPT ![c] = @ - 1]

\* f, with one count less of each commit in S.
Less(f, S) == [c \in Commits |-> IF c \in S /\ f[c] > 0 THEN f[c] - 1 ELSE f[c]]

\* The promises that are left when a release returns, or does not live to.
Due == IF call.kind = "release" THEN Less(acked, {call.commit}) ELSE acked

\* KeepOnlyLastCommitDeletionPolicy behind SnapshotCommitPoint::delete.
Kept(C, counts) == { c \in C : c = Max(C) \/ counts[c] > 0 }

\* IndexWriter::commit: the policy's on_commit.
OnCommit ==
  /\ open /\ call = Idle /\ last + 1 \in Commits
  /\ last' = last + 1
  /\ points' = Kept(points \union {last + 1}, held)
  /\ UNCHANGED <<open, held, nextGen, call, files, history>>

\* snapshot(): base.snapshot(), then persist().
Snapshot ==
  /\ open /\ call = Idle /\ held[last] < MaxHeld
  /\ held' = Inc(held, last)
  /\ call' = [step |-> "create", kind |-> "snapshot", commit |-> last]
  /\ UNCHANGED <<open, nextGen, files, index, history>>

\* release(commit) and release_gen(generation).  release_gen gives the snapshot up
\* at once: it does not count it again when persist() fails.
Release(c, kind) ==
  /\ open /\ call = Idle /\ held[c] > 0
  /\ held' = Dec(held, c)
  /\ acked' = IF kind = "releaseGen" THEN Less(acked, {c}) ELSE acked
  /\ call' = [step |-> "create", kind |-> kind, commit |-> c]
  /\ UNCHANGED <<open, nextGen, files, index, short, crashes, fails>>

\* persist(): create_output, which needs a new name, and the contents.
CreateFile ==
  /\ call.step = "create" /\ nextGen \in FileGens \ present
  /\ present' = present \union {nextGen}
  /\ synced' = synced \ {nextGen} /\ torn' = torn \ {nextGen}
  /\ data' = [data EXCEPT ![nextGen] = held]
  /\ ghosts' = ghosts \ {nextGen}
  /\ short' = {}
  /\ call' = [call EXCEPT !.step = "sync"]
  /\ UNCHANGED <<open, held, nextGen, index, acked, crashes, fails>>

\* dir.sync(snapshots_N)
SyncFile ==
  /\ call.step = "sync"
  /\ synced' = synced \union {nextGen}
  /\ ghosts' = {}
  /\ call' = [call EXCEPT !.step = "delete"]
  /\ UNCHANGED <<open, held, nextGen, present, data, torn, index, history>>

\* The previous file is deleted, next_write_gen advances, the call returns.
DeletePrevious ==
  /\ call.step = "delete"
  /\ present' = present \ {nextGen - 1}
  /\ ghosts' = ghosts \union ({nextGen - 1} \intersect present)
  /\ nextGen' = nextGen + 1
  /\ acked' = IF call.kind = "snapshot" THEN Inc(acked, call.commit) ELSE Due
  /\ call' = Idle
  /\ UNCHANGED <<open, held, data, synced, torn, index, short, crashes, fails>>

\* Mutant: the count of a snapshot that was not saved stays.
UndoneKept(c) == held

\* The handlers of a failed persist(): snapshot releases, release counts the
\* commit again, release_gen leaves the count as it is.
Undone(c) ==
  CASE call.kind = "snapshot" -> Dec(held, c)
    [] call.kind = "release" -> Inc(held, c)
    [] OTHER -> held

\* persist() fails: a file that could not be created or written is deleted
\* (also when the name was taken by a file whose sync failed), one that could
\* not be synced stays, with the counts of the call that failed.
PersistFails ==
  /\ \/ /\ call.step = "create"
        /\ \/ nextGen \in present /\ UNCHANGED fails
           \/ fails < MaxFails /\ fails' = fails + 1
        /\ present' = present \ {nextGen}
        /\ ghosts' = ghosts \union ({nextGen} \intersect present)
        /\ UNCHANGED short
     \/ /\ call.step = "sync" /\ fails < MaxFails
        /\ fails' = fails + 1
        /\ short' = IF call.kind = "release" THEN {call.commit} ELSE {}
        /\ UNCHANGED <<present, ghosts>>
  /\ held' = Undone(call.commit)
  /\ call' = Idle
  /\ UNCHANGED <<open, nextGen, data, synced, torn, index, acked, crashes>>

\* The process or the machine stops.  Files that were not synced may be gone or
\* torn, deletions may be undone.
Crash(lost, back, broken) ==
  /\ open /\ crashes < MaxCrashes
  /\ lost \subseteq present \ synced /\ back \subseteq ghosts
  /\ present' = (present \ lost) \union back
  /\ broken \subseteq present' \ synced
  /\ torn' = (torn \intersect present') \union broken
  /\ synced' = present' /\ ghosts' = {}
  /\ open' = FALSE /\ call' = Idle /\ held' = NoCounts /\ nextGen' = 0
  /\ acked' = Due
  /\ short' = IF nextGen \in present' THEN short ELSE {}
  /\ crashes' = crashes + 1
  /\ UNCHANGED <<data, index, fails>>

\* Mutant: the oldest file is read.
LoadedGenOldest(P) == Min(P)

\* load_prior_snapshots: the file with the highest generation counts, an I/O
\* error while reading it included.
LoadedGen(P) == Max(P)
Loaded(g) == IF g \in torn THEN NoCounts ELSE data[g]

\* What a new policy object reads.
Restart == IF present = {} THEN NoCounts ELSE Loaded(LoadedGen(present))

\* A new policy, with_open_mode(CreateOrAppend), and a writer that opens with
\* it: the other files are deleted, on_init deletes commits without snapshots.
\* Two files break promises: a torn one all of them, and the one a failed release
\* left behind the one that release was about.
Reopen ==
  /\ ~open
  /\ open' = TRUE
  /\ held' = Restart
  /\ IF present = {} THEN nextGen' = 0 /\ UNCHANGED <<present, ghosts, acked>>
     ELSE LET g == LoadedGen(present)
          IN  /\ nextGen' = g + 1
              /\ acked' = IF g \in torn THEN NoCounts ELSE Less(acked, short)
              /\ present' = {g} /\ ghosts' = present \ {g}
  /\ short' = {}
  /\ points' = Kept(points, held')
  /\ UNCHANGED <<call, data, synced, torn, last, crashes, fails>>

Init ==
  /\ open = TRUE /\ held = NoCounts /\ nextGen = 0 /\ call = Idle
  /\ present = {} /\ data = [g \in FileGens |-> NoCounts]
  /\ synced = {} /\ torn = {} /\ ghosts = {}
  /\ points = {1} /\ last = 1
  /\ acked = NoCounts /\ short = {} /\ crashes = 0 /\ fails = 0

Next ==
  \/ OnCommit \/ Snapshot
  \/ \E c \in Commits : \E kind \in {"release", "releaseGen"} : Release(c, kind)
  \/ CreateFile \/ SyncFile \/ DeletePrevious \/ PersistFails
  \/ \E lost \in SUBSET (present \ synced), back \in SUBSET ghosts :
       \E broken \in SUBSET ((present \union ghosts) \ synced) : Crash(lost, back, broken)
  \/ Reopen

Spec == Init /\ [][Next]_vars

----------------------------------------------------------------------------
\* A snapshot that returned keeps its commit, over commits, failed calls, crashes
\* and new policy objects, until a release of it returns or is cut off by a crash,
\* or release_gen is called for it.  A failed release does not give it up.  The
\* promise ends in two more ways, both at a restart: the newest file is torn, or it
\* is the one that a failed release of this commit could not sync.
SnapshotsPersist == \A c \in Commits : acked[c] > 0 => c \in points

\* Between calls a restart would read, from the newest file, at least the counts
\* that memory holds.  The code misses this in one case, which is left out here:
\* release() counts the commit again when dir.sync fails, but the file that was
\* written, with one count less, stays and is the newest one.
DiskCoversMemory ==
  open /\ call = Idle =>
    \A c \in Commits :
      Restart[c] >= (IF nextGen \in present THEN Less(held, short)[c] ELSE held[c])
=============================================================================
