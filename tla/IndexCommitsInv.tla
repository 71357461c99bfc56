-------------------------- MODULE IndexCommitsInv ---------------------------
(***************************************************************************)
(* The inductive invariant of the commits.  CommitPointsSurvive needs that *)
(* what is about to be removed leaves every commit point whole until its   *)
(* segments_N is gone (PointsFirst), which rests on exact reference counts *)
(* (Counted) and on what every phase of a commit has synced.               *)
(***************************************************************************)
EXTENDS IndexCommits

\* The records.
WriterRecord ==
  [open : BOOLEAN, infos : SUBSET Segs, rollback : SUBSET Segs, gen : 0 .. MaxGen,
   lastGen : 0 .. MaxGen, counter : Nat, changeCount : Nat, lastCommitCC : Nat]
MergeRecord == [sources : SUBSET Segs, target : 0 .. MaxSeg, commit : BOOLEAN]
Phases == {"idle", "await", "start", "writing", "sync", "synced", "failed",
           "prepared", "renamed"}
CommitRecord == [phase : Phases, segs : SUBSET Segs, counter : Nat,
                 gen : 0 .. MaxGen, cc : Nat, files : SUBSET Names]
ReaderRecord == [open : BOOLEAN, segs : SUBSET Segs]
FinderRecord == [pc : {"idle", "list", "read", "open", "done", "failed"},
                 tried : 0 .. MaxGen, gen : 0 .. MaxGen, todo : SUBSET Names]

\* Types of all variables.
TypeOK ==
  /\ names \in SUBSET Names /\ recent \in SUBSET (SUBSET Names)
  /\ synced \in SUBSET Names
  /\ content \in [Gens -> [segs : SUBSET Segs, counter : Nat]]
  /\ iw \in WriterRecord /\ flushing \in SUBSET Segs /\ merging \in MergeRecord
  /\ refs \in [Names -> Nat] /\ commits \in SUBSET Gens
  /\ lastFiles \in SUBSET Names /\ orphans \in SUBSET Names
  /\ deleting \in [Stages -> SUBSET Names]
  /\ ci \in CommitRecord
  /\ counts \in [Gens -> Nat] /\ lastCommit \in 0 .. MaxGen
  /\ nrt \in ReaderRecord /\ dr \in FinderRecord
  /\ acked \in 0 .. MaxGen /\ crashes \in Nat /\ fails \in Nat

\* Files on their way out, a commit just renamed, segments being written.
Condemned(f) == \E i \in Stages : f \in deleting[i]
Renamed(g) == ci.phase = "renamed" /\ g = ci.gen
InFlight(n) == n \in flushing \/ (n \in Segs /\ n = merging.target)
Written == {"writing", "sync", "synced", "failed", "prepared", "renamed"}

\* What belongs together: copies of the same thing, what is empty when its owner
\* is not there, and what excludes what under IndexWriter.inner.
Shape ==
  /\ names \in recent
  /\ lastFiles = FilesOf(iw.infos) /\ ci.files = FilesOf(ci.segs)
  /\ merging.sources \subseteq iw.infos
  /\ ~nrt.open => nrt.segs = {}
  /\ ci.phase = "idle" => ci = IdleCommit
  /\ ci.phase \in {"writing", "renamed"} => deleting = NoRemovals
  /\ ~iw.open => /\ ci.phase = "idle" /\ flushing = {} /\ merging = NoMerge
                 /\ nrt = NoReader /\ commits = {} /\ iw.infos = {}
                 /\ \A g \in Gens : ~Condemned(Segments(g))

\* The reference count of every file is the number of its holders.
Counted == \A f \in Names : refs[f] = Holders(f)

\* A referenced file is in the directory, and nobody is about to remove it.
ReferencedLive ==
  \A f \in Names : refs[f] > 0 => f \in names /\ ~Condemned(f)

\* A file of a commit point goes after the commit point itself.
PointsFirst ==
  \A i \in Stages : \A f \in deleting[i] : \A g \in CommitsIn(names) :
    f \in CommitFiles(g) => \E j \in 0 .. i : Segments(g) \in deleting[j]

\* The deleter knows every commit point, apart from one being made.
PointsKnown ==
  iw.open => \A g \in CommitsIn(names) :
               g \in commits \/ Condemned(Segments(g)) \/ Renamed(g)

\* The acknowledged commit is the newest that stays, in every listing.
AckedKept ==
  /\ acked # 0 => /\ ~Condemned(Segments(acked))
                  /\ \A L \in recent : Segments(acked) \in L
  /\ \A g \in CommitsIn(names) :
       g <= acked \/ Condemned(Segments(g)) \/ Renamed(g)
  /\ iw.open => /\ lastCommit = acked /\ iw.lastGen = acked
                /\ acked <= iw.gen
                /\ \A g \in commits : g <= acked

\* A snapshotted commit is in every listing and nobody is about to remove it.
SnapshotsDurable ==
  \A g \in Gens : counts[g] > 0 =>
    ~Condemned(Segments(g)) /\ \A L \in recent : Segments(g) \in L

\* Names in the directory have been taken.
NamesTaken ==
  iw.open =>
    /\ \A n \in Segs : SegFile(n) \in names => n < iw.counter
    /\ \A g \in Gens : Segments(g) \in names => g <= iw.gen
    /\ \A g \in Gens : Pending(g) \in names =>
         g <= iw.gen \/ (g = ci.gen /\ ci.phase \in Written)

\* The commit in progress, phase by phase.
CommitInProgress ==
  /\ ci.phase \in {"await", "start", "prepared", "renamed"} => ci.gen = iw.gen
  /\ ci.phase \in {"writing", "sync", "synced", "failed"} => ci.gen = iw.gen + 1
  /\ ci.phase \in Written => /\ ci.gen \in Gens /\ acked < ci.gen
                             /\ content[ci.gen].segs = ci.segs
                             /\ counts[ci.gen] = 0
  /\ ci.phase \in {"sync", "synced", "prepared"} => Pending(ci.gen) \in synced
  /\ ci.phase \in {"synced", "prepared", "renamed"} => ci.files \subseteq synced
  /\ ci.phase = "renamed" => Segments(ci.gen) \in names /\ Segments(ci.gen) \in synced

\* A segment being written belongs to its writer alone.
Fresh ==
  /\ merging.target \notin flushing
  /\ \A n \in Segs : InFlight(n) => /\ SegFile(n) \in names
                                    /\ ~Condemned(SegFile(n))
                                    /\ refs[SegFile(n)] = 0

\* The change counts tell whether infos have changed since they were copied.
ChangesCounted ==
  /\ iw.open =>
       /\ iw.lastCommitCC <= iw.changeCount
       /\ iw.changeCount = iw.lastCommitCC =>
            iw.lastGen # 0 /\ iw.infos = content[iw.lastGen].segs
  /\ ci.phase # "idle" =>
       /\ iw.lastCommitCC <= ci.cc /\ ci.cc <= iw.changeCount
       /\ ci.cc = iw.changeCount => ci.segs = iw.infos

\* A reader has a commit ahead of it that is not older than the one it tries.
ReaderAhead ==
  fails = 0 =>
    /\ \A g \in Gens : Condemned(Segments(g)) => g < acked
    /\ dr.pc # "failed"
    /\ dr.pc = "list" => \E g \in CommitsIn(names) : dr.tried < g
    /\ dr.pc \in {"read", "open"} =>
         dr.gen \in Gens /\ \E g \in CommitsIn(names) : dr.gen <= g
    /\ dr.pc = "open" => dr.todo \subseteq FilesOf(content[dr.gen].segs)

\* Every file of the directory has someone who knows about it.
Owned ==
  /\ iw.open => \A f \in names :
       \/ refs[f] > 0 \/ Condemned(f) \/ f \in orphans
       \/ \E n \in Segs : InFlight(n) /\ f = SegFile(n)
       \/ ci.phase \in {"writing", "sync", "synced", "prepared"} /\ f = Pending(ci.gen)
       \/ ci.phase = "renamed" /\ f = Segments(ci.gen)
  /\ ~iw.open /\ crashes = 0 => \A f \in names :
       \/ Condemned(f) \/ f \in orphans
       \/ \E g \in CommitsIn(names) : f \in CommitFiles(g)

\* The inductive invariant.
IInv == /\ TypeOK /\ Shape /\ Counted /\ ReferencedLive /\ PointsFirst
        /\ PointsKnown /\ AckedKept /\ SnapshotsDurable /\ NamesTaken
        /\ CommitInProgress /\ Fresh /\ ChangesCounted /\ ReaderAhead /\ Owned
        /\ CommitPointsSurvive
=============================================================================
