---------------------------- MODULE IndexCommits ----------------------------
(***************************************************************************)
(* Commit points of an index: the two-phase commit of IndexWriter and      *)
(* SegmentInfos, the reference counts of IndexFileDeleter/FileDeleter, the *)
(* deletion policies (KeepOnlyLastCommit wrapped in SnapshotDeletionPolicy)*)
(* rollback, reopening after a crash, and readers of the directory.        *)
(*                                                                         *)
(* Names are pairs: <<"seg", n>> stands for all files of segment _n,       *)
(* <<"pending", g>> for pending_segments_g, <<"segments", g>> for          *)
(* segments_g.  `recent' holds every listing the directory may come back   *)
(* with after a crash: those since the last sync_metadata (the file system *)
(* journals directory operations in order).  A file whose contents were    *)
(* not fsynced may be torn after a crash.                                  *)
(***************************************************************************)
EXTENDS Naturals, Sequences, FiniteSets, FiniteSetsExt

CONSTANTS MaxSeg,       \* bound: segment names _0 .. _(MaxSeg-1)
          MaxGen,       \* bound: generations 1 .. MaxGen
          MaxCrashes,   \* bound: crashes of the machine
          MaxFails,     \* bound: I/O errors met by a commit
          MaxSnapshots, \* bound: snapshots held of one commit
          UseReaders,   \* whether NRT and directory readers are modelled
          UseMerges     \* whether merges run

ASSUME BoundsAssumption ==
  /\ MaxSeg \in Nat \ {0} /\ MaxGen \in Nat \ {0}
  /\ MaxCrashes \in Nat /\ MaxFails \in Nat /\ MaxSnapshots \in Nat
  /\ UseReaders \in BOOLEAN /\ UseMerges \in BOOLEAN

Segs == 0 .. (MaxSeg - 1)
Gens == 1 .. MaxGen
SegFile(n) == <<"seg", n>>
Pending(g) == <<"pending", g>>
Segments(g) == <<"segments", g>>
FilesOf(S) == { SegFile(n) : n \in S }
Names == FilesOf(Segs) \union { Pending(g) : g \in Gens }
                       \union { Segments(g) : g \in Gens }

VARIABLES
  \* the directory
  names,     \* the current listing
  recent,    \* listings a crash may leave behind
  synced,    \* names whose contents are durable
  content,   \* what segments_g says: its segments and the name counter
  \* SegmentInfos and IndexWriterInner
  iw,        \* open, infos, rollback, gen, lastGen, counter, changeCount,
             \*   lastCommitCC
  flushing,  \* segments written by a DWPT and not yet published
  merging,   \* the running merge: its sources, its target (MaxSeg: not yet
             \*   written) and whether a commit waits for it
  \* IndexFileDeleter
  refs, commits, lastFiles,
  orphans,   \* files nobody deletes while the writer is open: flushed
             \*   segments delete_all dropped, targets of merges aborted while
             \*   being written; after it, files of readers that outlive it
  deleting,  \* files whose removal the holder of IndexWriter.inner has decided,
             \*   by the stage at which they go
  \* CommitInner
  ci,        \* phase, segs, counter, gen, cc (pending_commit_change_count),
             \*   files (files_to_commit)
  \* SnapshotDeletionPolicy
  counts, lastCommit,
  \* readers
  nrt,       \* an NRT reader: open, and the segments it holds
  dr,        \* a directory reader running FindSegmentsFile::run
  \* history
  acked,     \* the newest generation finish_commit reported as done
  crashes, fails

disk == <<names, recent, synced, content>>
deleter == <<refs, commits, lastFiles, orphans>>
policy == <<counts, lastCommit>>
history == <<acked, crashes, fails>>
vars == <<disk, iw, flushing, merging, deleter, deleting, ci, policy, nrt, dr,
          history>>

NoMerge == [sources |-> {}, target |-> MaxSeg, commit |-> FALSE]
NoReader == [open |-> FALSE, segs |-> {}]
IdleCommit == [phase |-> "idle", segs |-> {}, counter |-> 0, gen |-> 0,
               cc |-> 0, files |-> {}]
IdleFinder == [pc |-> "idle", tried |-> 0, gen |-> 0, todo |-> {}]
ClosedWriter == [open |-> FALSE, infos |-> {}, rollback |-> {}, gen |-> 0,
                 lastGen |-> 0, counter |-> 0, changeCount |-> 0,
                 lastCommitCC |-> 0]

----------------------------------------------------------------------------
(* The directory *)

CommitsIn(L) == { g \in Gens : Segments(g) \in L }
Newest(L) == IF CommitsIn(L) = {} THEN 0 ELSE Max(CommitsIn(L))

\* A directory operation that leaves the listing L.  Past the last crash the
\* bounds allow, the earlier listings no longer matter.
Listings(old, L) == IF crashes < MaxCrashes THEN old \union {L} ELSE {L}
List(L) == /\ names' = L
           /\ recent' = Listings(recent, L)

\* Directory::sync_metadata: the current listing is durable.
SyncedListing(L) == /\ names' = L
                    /\ recent' = {L}

\* CommitPoint::files, SegmentInfos::files(true)
CommitFiles(g) == FilesOf(content[g].segs) \union {Segments(g)}

----------------------------------------------------------------------------
(* FileDeleter and IndexFileDeleter *)

\* The calls of delete_files that one critical section makes, by their order:
\* the first, one for each position of `with' (delete_commits: the generations,
\* oldest first) and the last.
LastStage == MaxGen + 1
Stages == 0 .. LastStage
Removals(first, with, last) ==
  [i \in Stages |-> IF i = 0 THEN first ELSE IF i = LastStage THEN last
                    ELSE IF i \in DOMAIN with THEN with[i] ELSE {}]
NoRemovals == [i \in Stages |-> {}]

\* FileDeleter::inc_ref_files
IncRef(r, F) == [f \in Names |-> IF f \in F THEN r[f] + 1 ELSE r[f]]

\* FileDeleter::dec_ref_files
DecRef(r, F) == [f \in Names |-> IF f \in F /\ r[f] > 0 THEN r[f] - 1 ELSE r[f]]

\* Mutant: a file with one holder left is deleted.
DroppedEarly(r, F) == { f \in F : r[f] <= 1 }

\* The files of F that FileDeleter::dec_ref hands to delete_files.
Dropped(r, F) == { f \in F : r[f] = 0 }

\* Mutant: snapshots do not protect a commit.
DeletableHeld(C, held) == C

\* CommitPoint::delete, behind SnapshotCommitPoint::delete: a snapshotted
\* commit is kept.
Deletable(C, held) == { g \in C : held[g] = 0 }

\* KeepOnlyLastCommitDeletionPolicy::on_commit and on_init over the commits C,
\* each wrapped in a SnapshotCommitPoint.
OnCommit(C, held) == IF C = {} THEN {} ELSE Deletable(C \ {Max(C)}, held)

\* IndexFileDeleter::delete_commits: the reference counts once the commits D
\* are gone, and the removals, oldest commit first.
RefsWithout(r, D) ==
  [f \in Names |-> r[f] - Cardinality({ g \in D : f \in CommitFiles(g) })]
DeletedWith(g, r, D) ==
  { f \in CommitFiles(g) : /\ r[f] = 0
                           /\ \A h \in D : f \in CommitFiles(h) => h <= g }
DeleteCommits(r, D) == [g \in D |-> DeletedWith(g, RefsWithout(r, D), D)]

\* IndexFileDeleter::checkpoint(infos, false): what is referenced now is
\* protected before what was referenced last is released.
Checkpoint(r, S) == DecRef(IncRef(r, FilesOf(S)), lastFiles)

\* Mutant: segments_N files last.
NextToDeleteLast(F) ==
  LET others == { f \in F : f[1] # "segments" }
  IN  IF others # {} THEN others ELSE F

\* FileDeleter::delete_files: the files the deleter gave up are removed one by
\* one, segments_N files before any other, under IndexWriter.inner.
NextToDelete(F) ==
  LET points == { f \in F : f[1] = "segments" }
  IN  IF points # {} THEN points ELSE F
DeleteFile ==
  /\ \E i \in Stages :
       /\ \A j \in Stages : j < i => deleting[j] = {}
       /\ \E f \in NextToDelete(deleting[i]) :
            /\ List(names \ {f})
            /\ deleting' = [deleting EXCEPT ![i] = @ \ {f}]
  /\ UNCHANGED <<synced, content, iw, flushing, merging, deleter, ci, policy,
                 nrt, dr, history>>

----------------------------------------------------------------------------
(* Flushes and merges, as far as they write and publish files *)

\* IndexWriter.inner is free: no thread is in the middle of removing files or
\* of the two parts of a commit that run under it.
InnerFree == deleting = NoRemovals /\ ci.phase \notin {"writing", "renamed"}
Writing == iw.open /\ InnerFree

\* checkpoint() with the infos S, from the reference counts r: the change is
\* counted and the deleter follows.  first: files deleted before that.
CheckpointWith(S, r, first) ==
  /\ iw' = [iw EXCEPT !.infos = S, !.changeCount = @ + 1]
  /\ refs' = Checkpoint(r, S)
  /\ lastFiles' = FilesOf(S)
  /\ deleting' = Removals(first, <<>>, Dropped(Checkpoint(r, S), lastFiles))
  /\ UNCHANGED commits

\* Bound: `synced' knows names, not inodes, so a segment name is not taken again
\* while a crash may bring back a failed commit that holds an earlier file of
\* that name.
NoTwin(n) == \A L \in recent : \A g \in CommitsIn(L) : n \notin content[g].segs

\* IndexWriter::new_segment_name, then the DWPT writes the segment's files.
WriteFlush ==
  /\ Writing /\ iw.counter \in Segs /\ NoTwin(iw.counter)
  /\ List(names \union {SegFile(iw.counter)})
  /\ synced' = synced \ {SegFile(iw.counter)}
  /\ flushing' = flushing \union {iw.counter}
  /\ iw' = [iw EXCEPT !.counter = @ + 1, !.changeCount = @ + 1]
  /\ UNCHANGED <<content, merging, deleter, deleting, ci, policy, nrt, dr,
                 history>>

\* publish_flushed_segment: the segment joins the infos, checkpoint().
PublishFlush(n) ==
  /\ Writing /\ n \in flushing
  /\ flushing' = flushing \ {n}
  /\ CheckpointWith(iw.infos \union {n}, refs, {})
  /\ UNCHANGED <<disk, orphans, merging, ci, policy, nrt, dr, history>>

\* flush_failed: the files of the segment are deleted unless referenced.
\* published: publish_flushed_segment finds all documents deleted and drops the
\* segment again; its two checkpoints only count.
DiscardFlush(n, published) ==
  /\ Writing /\ n \in flushing
  /\ flushing' = flushing \ {n}
  /\ deleting' = Removals({}, <<>>, Dropped(refs, {SegFile(n)}))
  /\ iw' = [iw EXCEPT !.changeCount = IF published THEN @ + 2 ELSE @]
  /\ UNCHANGED <<disk, merging, deleter, ci, policy, nrt, dr, history>>

\* register_merge and init_merge_readers: the files of the sources are
\* referenced while the merge runs.
RegisterMerge(S, forCommit) ==
  /\ merging' = [sources |-> S, target |-> MaxSeg, commit |-> forCommit]

StartMerge(S) ==
  /\ UseMerges /\ Writing /\ merging = NoMerge
  /\ S # {} /\ S \subseteq iw.infos
  /\ RegisterMerge(S, FALSE)
  /\ refs' = IncRef(refs, FilesOf(S))
  /\ UNCHANGED <<disk, iw, flushing, commits, lastFiles, orphans, deleting, ci,
                 policy, nrt, dr, history>>

\* merge_middle writes the files of the target.
WriteMerge ==
  /\ Writing /\ merging # NoMerge /\ merging.target = MaxSeg
  /\ iw.counter \in Segs /\ NoTwin(iw.counter)
  /\ List(names \union {SegFile(iw.counter)})
  /\ synced' = synced \ {SegFile(iw.counter)}
  /\ merging' = [merging EXCEPT !.target = iw.counter]
  /\ iw' = [iw EXCEPT !.counter = @ + 1, !.changeCount = @ + 1]
  /\ UNCHANGED <<content, flushing, deleter, deleting, ci, policy, nrt, dr,
                 history>>

\* Mutant: the files of the sources stay protected.
ProtectMergedOnly(r, t) == IncRef(r, {SegFile(t)})

\* PointInTimeOneMerge::merge_finished for a commit that still waits: the merged
\* segment replaces its sources in the infos to commit, and so in the files the
\* commit protects.
JoinsCommit(drop) == merging.commit /\ ci.phase = "await" /\ ~drop
MergedIntoCommit(t) ==
  LET S == (ci.segs \ merging.sources) \union {t}
  IN  [ci EXCEPT !.segs = S, !.files = FilesOf(S),
                 !.counter = IF @ > t THEN @ ELSE t + 1]
ProtectMerged(r, t) ==
  DecRef(IncRef(r, {SegFile(t)}), FilesOf(ci.segs \intersect merging.sources))

\* commit_merge: apply_merge_changes; a merged segment without live documents is
\* dropped and its files deleted; close_merge_readers; checkpoint().
CommitMerge(drop) ==
  /\ Writing /\ merging.target \in Segs
  /\ merging' = NoMerge
  /\ LET t == merging.target
         S == (iw.infos \ merging.sources) \union (IF drop THEN {} ELSE {t})
         r == IF JoinsCommit(drop) THEN ProtectMerged(refs, t) ELSE refs
     IN  CheckpointWith(S, DecRef(r, FilesOf(merging.sources)),
                        IF drop THEN {SegFile(t)} ELSE {})
  /\ ci' = IF JoinsCommit(drop) THEN MergedIntoCommit(merging.target) ELSE ci
  /\ UNCHANGED <<disk, flushing, orphans, policy, nrt, dr, history>>

\* Mutant: commit_merge forgets the target of an aborted merge.
AbortMergeKeeps(writing) ==
  /\ Writing /\ merging # NoMerge
  /\ merging' = NoMerge
  /\ refs' = DecRef(refs, FilesOf(merging.sources))
  /\ deleting' = Removals({}, <<>>, Dropped(refs', FilesOf(merging.sources)))
  /\ orphans' = IF writing THEN orphans \union FilesOf({merging.target} \intersect Segs)
                ELSE orphans
  /\ UNCHANGED <<disk, iw, flushing, commits, lastFiles, ci, policy, nrt, dr,
                 history>>

\* An aborted merge: close_merge_readers.  commit_merge, and the code around the
\* compound file, first call deleter.delete_new_files(files of the target).  An
\* abort noticed while the merge writes, by the rate limiter or by the checks of
\* merge_middle, returns before the target knows its files: they stay.
AbortMerge(writing) ==
  /\ Writing /\ merging # NoMerge
  /\ merging' = NoMerge
  /\ refs' = DecRef(refs, FilesOf(merging.sources))
  /\ LET target == FilesOf({merging.target} \intersect Segs)
     IN  /\ deleting' = Removals(IF writing THEN {} ELSE target, <<>>,
                                 Dropped(refs', FilesOf(merging.sources)))
         /\ orphans' = IF writing THEN orphans \union target ELSE orphans
  /\ UNCHANGED <<disk, iw, flushing, commits, lastFiles, ci, policy, nrt, dr,
                 history>>

\* delete_all: flushed segments whose tickets are purged (D) are dropped without
\* deleting their files, running merges have been aborted, the infos are emptied
\* and the deleter follows.
DeleteAll(D) ==
  /\ Writing /\ merging = NoMerge /\ iw.infos # {}
  /\ D \subseteq flushing
  /\ flushing' = flushing \ D
  /\ orphans' = orphans \union FilesOf(D)
  /\ CheckpointWith({}, refs, {})
  /\ UNCHANGED <<disk, merging, ci, policy, nrt, dr, history>>

----------------------------------------------------------------------------
(* Opening a writer *)

\* Mutant: files of unfinished commits are not looked at.
InflatedGenOfCommits(L, gen) == gen

\* inflate_gens: the next generation and segment name lie beyond every file
\* seen in the directory.
GenerationsIn(L) == { g \in Gens : {Segments(g), Pending(g)} \intersect L # {} }
InflatedGen(L, gen) == Max(GenerationsIn(L) \union {gen})
InflatedCounter(L, counter) ==
  Max({ n + 1 : n \in { m \in Segs : SegFile(m) \in L } } \union {counter})

\* SegmentInfos::read_latest_commit, or the fresh infos of a new index.
LatestCommit ==
  IF Newest(names) = 0 THEN [segs |-> {}, counter |-> 0]
  ELSE content[Newest(names)]

\* The constructor of IndexWriter with OpenMode::Create, or Append with an
\* index, and IndexFileDeleter::new: references of all commits, unreferenced
\* files removed, the policy's on_init, the checkpoint of the infos.
Open(create) ==
  /\ ~iw.open /\ deleting = NoRemovals
  /\ Newest(names) = 0 => create
  /\ LET S == IF create THEN {} ELSE LatestCommit.segs
         C == CommitsIn(names)
         D == OnCommit(C, counts)
         counted == [f \in Names |->
                      Cardinality({ g \in C : f \in CommitFiles(g) })]
         protected == IncRef(counted, FilesOf(S))
         change == IF create THEN 1 ELSE 0
     IN  /\ iw' = [open |-> TRUE, infos |-> S, rollback |-> S,
                   gen |-> InflatedGen(names, Newest(names)),
                   lastGen |-> Newest(names),
                   counter |-> InflatedCounter(names, LatestCommit.counter),
                   changeCount |-> change, lastCommitCC |-> 0]
         /\ refs' = RefsWithout(protected, D)
         /\ commits' = C \ D
         /\ lastFiles' = FilesOf(S)
         /\ deleting' = Removals({ f \in names : counted[f] = 0 },
                                 DeleteCommits(protected, D), {})
         /\ lastCommit' = Newest(names)
  /\ orphans' = {}
  /\ UNCHANGED <<disk, flushing, merging, ci, counts, nrt, dr, history>>

----------------------------------------------------------------------------
(* prepare_commit_internal and start_commit, under the commit lock *)

\* The infos are cloned and their files referenced while the full flush still
\* holds; with a merge wait time the commit first lets a merge of S finish.
PrepareCommit(S) ==
  /\ Writing /\ ci.phase = "idle"
  /\ S \subseteq iw.infos
  /\ S # {} => UseMerges /\ merging = NoMerge
  /\ LET cc == IF iw.changeCount # iw.lastCommitCC THEN iw.changeCount + 1
               ELSE iw.changeCount
     IN  /\ iw' = [iw EXCEPT !.changeCount = cc]
         /\ ci' = [phase |-> IF S = {} THEN "start" ELSE "await",
                   segs |-> iw.infos, counter |-> iw.counter, gen |-> iw.gen,
                   cc |-> cc, files |-> FilesOf(iw.infos)]
  /\ IF S = {} THEN UNCHANGED merging ELSE RegisterMerge(S, TRUE)
  /\ refs' = IncRef(IncRef(refs, FilesOf(iw.infos)), FilesOf(S))
  /\ UNCHANGED <<disk, flushing, commits, lastFiles, orphans, deleting, policy,
                 nrt, dr, history>>

\* await_merges returned or timed out: stop_adding_merged_segments.
StopAwaiting ==
  /\ Writing /\ ci.phase = "await"
  /\ ci' = [ci EXCEPT !.phase = "start"]
  /\ UNCHANGED <<disk, iw, flushing, merging, deleter, deleting, policy, nrt,
                 dr, history>>

\* The files of the commit are released and the commit is over.
EndCommit(r, first, with) ==
  /\ refs' = DecRef(r, ci.files)
  /\ deleting' = Removals(first, with, Dropped(refs', ci.files))
  /\ ci' = IdleCommit

\* start_commit with no changes pending: nothing is written.
NoChanges == ci.cc = iw.lastCommitCC
SkipCommit ==
  /\ Writing /\ ci.phase = "start" /\ NoChanges
  /\ EndCommit(refs, {}, <<>>)
  /\ UNCHANGED <<disk, iw, flushing, merging, commits, lastFiles, orphans,
                 policy, nrt, dr, history>>

\* SegmentInfos::prepare_commit: sync_metadata, then write_with_directory
\* advances the generation and creates pending_segments_N.
CreatePending ==
  /\ Writing /\ ci.phase = "start" /\ ~NoChanges
  /\ ci.gen + 1 \in Gens
  /\ names' = names \union {Pending(ci.gen + 1)}
  /\ recent' = Listings({names}, names')
  /\ synced' = synced \ {Pending(ci.gen + 1)}
  /\ content' = [content EXCEPT ![ci.gen + 1] =
                   [segs |-> ci.segs, counter |-> ci.counter]]
  /\ ci' = [ci EXCEPT !.phase = "writing", !.gen = @ + 1]
  /\ UNCHANGED <<iw, flushing, merging, deleter, deleting, policy, nrt, dr,
                 history>>

\* write_with_directory syncs the pending file; pending_commit is set.
SyncPending ==
  /\ ci.phase = "writing"
  /\ synced' = synced \union {Pending(ci.gen)}
  /\ ci' = [ci EXCEPT !.phase = "sync"]
  /\ UNCHANGED <<names, recent, content, iw, flushing, merging, deleter,
                 deleting, policy, nrt, dr, history>>

\* An I/O error while writing or syncing: the pending file is deleted
\* (write_with_directory, rollback_commit), the files are released.
CommitFails ==
  /\ fails < MaxFails
  /\ ci.phase \in {"writing", "sync"}
  /\ List(names \ {Pending(ci.gen)})
  /\ ci' = [ci EXCEPT !.phase = "failed"]
  /\ fails' = fails + 1
  /\ UNCHANGED <<synced, content, iw, flushing, merging, deleter, deleting,
                 policy, nrt, dr, acked, crashes>>

\* directory.sync(files), without the lock.
SyncFiles ==
  /\ ci.phase = "sync"
  /\ synced' = synced \union ci.files
  /\ ci' = [ci EXCEPT !.phase = "synced"]
  /\ UNCHANGED <<names, recent, content, iw, flushing, merging, deleter,
                 deleting, policy, nrt, dr, history>>

\* The master infos record the generation prepared, on error or success.
UpdateGeneration ==
  /\ Writing
  /\ iw' = [iw EXCEPT !.gen = ci.gen]
  /\ \/ /\ ci.phase = "synced"
        /\ ci' = [ci EXCEPT !.phase = "prepared"]
        /\ UNCHANGED <<refs, deleting>>
     \/ /\ ci.phase = "failed"
        /\ EndCommit(refs, {}, <<>>)
  /\ UNCHANGED <<disk, flushing, merging, commits, lastFiles, orphans, policy,
                 nrt, dr, history>>

----------------------------------------------------------------------------
(* finish_commit, under the commit lock and IndexWriter.inner *)

\* SegmentInfos::finish_commit: rename pending_segments_N to segments_N.
RenamePending ==
  /\ Writing /\ ci.phase = "prepared"
  /\ List((names \ {Pending(ci.gen)}) \union {Segments(ci.gen)})
  /\ synced' = IF Pending(ci.gen) \in synced
               THEN synced \union {Segments(ci.gen)}
               ELSE synced \ {Segments(ci.gen)}
  /\ ci' = [ci EXCEPT !.phase = "renamed"]
  /\ UNCHANGED <<content, iw, flushing, merging, deleter, deleting, policy,
                 nrt, dr, history>>

\* rename or sync_metadata failed: whichever of the two files exists is deleted
\* and the commit's files are released.
FinishFails ==
  /\ fails < MaxFails
  /\ (Writing /\ ci.phase = "prepared") \/ ci.phase = "renamed"
  /\ fails' = fails + 1
  /\ EndCommit(refs, {Pending(ci.gen), Segments(ci.gen)} \intersect names, <<>>)
  /\ UNCHANGED <<disk, iw, flushing, merging, commits, lastFiles, orphans,
                 policy, nrt, dr, acked, crashes>>

\* Mutants: without sync_metadata; with the change count of now instead of the
\* one the commit was cloned at.
FinishCommitUnsynced ==
  /\ ci.phase = "renamed"
  /\ LET C == commits \union {ci.gen}
         D == OnCommit(C, counts)
         r == IncRef(refs, CommitFiles(ci.gen))
     IN  /\ commits' = C \ D
         /\ EndCommit(RefsWithout(r, D), {}, DeleteCommits(r, D))
  /\ lastCommit' = ci.gen
  /\ iw' = [iw EXCEPT !.gen = ci.gen, !.lastGen = ci.gen,
                      !.lastCommitCC = ci.cc, !.rollback = ci.segs]
  /\ acked' = ci.gen
  /\ UNCHANGED <<disk, flushing, merging, lastFiles, orphans, counts, nrt, dr,
                 crashes, fails>>

FinishCommitCountsNow ==
  /\ ci.phase = "renamed"
  /\ SyncedListing(names)
  /\ LET C == commits \union {ci.gen}
         D == OnCommit(C, counts)
         r == IncRef(refs, CommitFiles(ci.gen))
     IN  /\ commits' = C \ D
         /\ EndCommit(RefsWithout(r, D), {}, DeleteCommits(r, D))
  /\ lastCommit' = ci.gen
  /\ iw' = [iw EXCEPT !.gen = ci.gen, !.lastGen = ci.gen,
                      !.lastCommitCC = iw.changeCount, !.rollback = ci.segs]
  /\ acked' = ci.gen
  /\ UNCHANGED <<synced, content, flushing, merging, lastFiles, orphans,
                 counts, nrt, dr, crashes, fails>>

\* sync_metadata, deleter.checkpoint(pending, true) with the policy's
\* on_commit, then the generation, the change count and the rollback segments
\* follow and files_to_commit is released.
CommittedRefs == IncRef(refs, CommitFiles(ci.gen))
FinishCommit ==
  /\ ci.phase = "renamed"
  /\ SyncedListing(names)
  /\ LET C == commits \union {ci.gen}
         D == OnCommit(C, counts)
     IN  /\ commits' = C \ D
         /\ EndCommit(RefsWithout(CommittedRefs, D), {},
                      DeleteCommits(CommittedRefs, D))
  /\ lastCommit' = ci.gen
  /\ iw' = [iw EXCEPT !.gen = ci.gen, !.lastGen = ci.gen,
                      !.lastCommitCC = ci.cc, !.rollback = ci.segs]
  /\ acked' = ci.gen
  /\ UNCHANGED <<synced, content, flushing, merging, lastFiles, orphans,
                 counts, nrt, dr, crashes, fails>>

\* rollback_internal_no_commit once merges and flushes are out of the way: the
\* pending commit is undone, the infos go back to the last commit, the deleter
\* checkpoints, refreshes and closes.
Rollback ==
  /\ Writing /\ ci.phase \in {"idle", "prepared"}
  /\ flushing = {} /\ merging = NoMerge
  /\ LET undone == DecRef(refs, ci.files)
         back == Checkpoint(undone, iw.rollback)
         pending == {Pending(ci.gen)} \intersect names
         closed == DecRef(back, FilesOf(iw.rollback))
     IN  /\ deleting' = Removals(pending,
                                 <<{ f \in names \ pending : back[f] = 0 }>>,
                                 Dropped(closed, FilesOf(iw.rollback)))
         /\ refs' = [f \in Names |-> 0]
  /\ iw' = ClosedWriter
  /\ ci' = IdleCommit
  /\ commits' = {} /\ lastFiles' = {}
  /\ orphans' = FilesOf(nrt.segs) /\ nrt' = NoReader
  /\ UNCHANGED <<disk, flushing, merging, policy, dr, history>>

----------------------------------------------------------------------------
(* The policy, readers, crashes *)

\* SnapshotDeletionPolicy::snapshot of the last commit, under its own lock.
Snapshot ==
  /\ iw.open /\ lastCommit # 0 /\ counts[lastCommit] < MaxSnapshots
  /\ counts' = [counts EXCEPT ![lastCommit] = @ + 1]
  /\ UNCHANGED <<disk, iw, flushing, merging, deleter, deleting, ci,
                 lastCommit, nrt, dr, history>>

\* SnapshotDeletionPolicy::release
Release(g) ==
  /\ iw.open /\ counts[g] > 0
  /\ counts' = [counts EXCEPT ![g] = @ - 1]
  /\ UNCHANGED <<disk, iw, flushing, merging, deleter, deleting, ci,
                 lastCommit, nrt, dr, history>>

\* delete_unused_files: IndexFileDeleter::revisit_policy.
DeleteUnusedFiles ==
  /\ Writing
  /\ LET D == OnCommit(commits, counts)
     IN  /\ D # {}
         /\ commits' = commits \ D
         /\ refs' = RefsWithout(refs, D)
         /\ deleting' = Removals({}, DeleteCommits(refs, D), {})
  /\ UNCHANGED <<disk, iw, flushing, merging, lastFiles, orphans, ci, policy,
                 nrt, dr, history>>

\* get_reader and the close of its reader: inc_ref_deleter, dec_ref_deleter.
OpenReader ==
  /\ UseReaders /\ Writing /\ ~nrt.open
  /\ nrt' = [open |-> TRUE, segs |-> iw.infos]
  /\ refs' = IncRef(refs, FilesOf(iw.infos))
  /\ UNCHANGED <<disk, iw, flushing, merging, commits, lastFiles, orphans,
                 deleting, ci, policy, dr, history>>

CloseReader ==
  /\ Writing /\ nrt.open
  /\ nrt' = NoReader
  /\ refs' = DecRef(refs, FilesOf(nrt.segs))
  /\ deleting' = Removals({}, <<>>, Dropped(refs', FilesOf(nrt.segs)))
  /\ UNCHANGED <<disk, iw, flushing, merging, commits, lastFiles, orphans, ci,
                 policy, dr, history>>

\* Mutant: progress by more than one generation is asked for.
ListCommitsFar ==
  /\ UseReaders /\ dr.pc = "list"
  /\ dr' = IF Newest(names) > dr.tried + 1 \/ dr.tried = 0
           THEN [dr EXCEPT !.pc = "read", !.gen = Newest(names)]
           ELSE [dr EXCEPT !.pc = "failed"]
  /\ UNCHANGED <<disk, iw, flushing, merging, deleter, deleting, ci, policy,
                 nrt, history>>

\* FindSegmentsFile::run of a reader in another process: list, and go on only
\* with a generation newer than the one that just failed.
ListCommits ==
  /\ UseReaders /\ dr.pc = "list"
  /\ dr' = IF Newest(names) > dr.tried
           THEN [dr EXCEPT !.pc = "read", !.gen = Newest(names)]
           ELSE [dr EXCEPT !.pc = "failed"]
  /\ UNCHANGED <<disk, iw, flushing, merging, deleter, deleting, ci, policy,
                 nrt, history>>

StartReading ==
  /\ UseReaders /\ dr.pc \in {"idle", "done"} /\ Newest(names) # 0
  /\ dr' = [IdleFinder EXCEPT !.pc = "list"]
  /\ UNCHANGED <<disk, iw, flushing, merging, deleter, deleting, ci, policy,
                 nrt, history>>

\* A file that cannot be opened ends the attempt with an I/O error.
Retry == [dr EXCEPT !.pc = "list", !.tried = dr.gen, !.todo = {}]

\* read_commit of segments_N
ReadCommit ==
  /\ dr.pc = "read"
  /\ dr' = IF Segments(dr.gen) \notin names THEN Retry
           ELSE [dr EXCEPT !.todo = FilesOf(content[dr.gen].segs),
                           !.pc = IF content[dr.gen].segs = {} THEN "done"
                                  ELSE "open"]
  /\ UNCHANGED <<disk, iw, flushing, merging, deleter, deleting, ci, policy,
                 nrt, history>>

\* The segment readers open the files of the segments.
OpenFile ==
  /\ dr.pc = "open"
  /\ \E f \in dr.todo :
       dr' = IF f \notin names THEN Retry
             ELSE [dr EXCEPT !.todo = @ \ {f},
                             !.pc = IF dr.todo = {f} THEN "done" ELSE "open"]
  /\ UNCHANGED <<disk, iw, flushing, merging, deleter, deleting, ci, policy,
                 nrt, history>>

\* The machine stops: the directory comes back with one of the recent listings,
\* files that were not synced may be torn (they stay out of `synced'), and all
\* state in memory is gone.  keep: a PersistentSnapshotDeletionPolicy brings its
\* snapshots back.
Crash(L, torn, keep) ==
  /\ crashes < MaxCrashes /\ iw.open
  /\ L \in recent /\ torn \subseteq (L \ synced)
  /\ names' = L /\ recent' = {L} /\ synced' = L \ torn
  /\ iw' = ClosedWriter /\ ci' = IdleCommit /\ dr' = IdleFinder
  /\ flushing' = {} /\ merging' = NoMerge /\ nrt' = NoReader
  /\ refs' = [f \in Names |-> 0] /\ commits' = {} /\ lastFiles' = {}
  /\ orphans' = {} /\ deleting' = NoRemovals
  /\ counts' = IF keep THEN counts ELSE [g \in Gens |-> 0]
  /\ lastCommit' = 0
  /\ acked' = Newest(L)
  /\ crashes' = crashes + 1
  /\ UNCHANGED <<content, fails>>

----------------------------------------------------------------------------
Init ==
  /\ names = {} /\ recent = {{}} /\ synced = {}
  /\ content = [g \in Gens |-> [segs |-> {}, counter |-> 0]]
  /\ iw = ClosedWriter /\ flushing = {} /\ merging = NoMerge
  /\ refs = [f \in Names |-> 0] /\ commits = {} /\ lastFiles = {}
  /\ orphans = {} /\ deleting = NoRemovals /\ ci = IdleCommit
  /\ counts = [g \in Gens |-> 0] /\ lastCommit = 0
  /\ nrt = NoReader /\ dr = IdleFinder
  /\ acked = 0 /\ crashes = 0 /\ fails = 0

WriterSteps ==
  \/ \E create \in BOOLEAN : Open(create)
  \/ WriteFlush
  \/ \E n \in Segs : PublishFlush(n)
  \/ \E n \in Segs : \E published \in BOOLEAN : DiscardFlush(n, published)
  \/ \E S \in SUBSET Segs : StartMerge(S) \/ PrepareCommit(S) \/ DeleteAll(S)
  \/ WriteMerge
  \/ \E writing \in BOOLEAN : AbortMerge(writing)
  \/ \E drop \in BOOLEAN : CommitMerge(drop)
  \/ Rollback \/ DeleteUnusedFiles \/ DeleteFile

CommitSteps ==
  \/ StopAwaiting \/ SkipCommit \/ CreatePending \/ SyncPending \/ SyncFiles
  \/ UpdateGeneration \/ RenamePending \/ FinishCommit
  \/ CommitFails \/ FinishFails

OtherSteps ==
  \/ Snapshot
  \/ \E g \in Gens : Release(g)
  \/ OpenReader \/ CloseReader
  \/ StartReading \/ ListCommits \/ ReadCommit \/ OpenFile
  \/ \E L \in recent : \E torn \in SUBSET (L \ synced) :
       \E keep \in BOOLEAN : Crash(L, torn, keep)

Next == WriterSteps \/ CommitSteps \/ OtherSteps

Spec == Init /\ [][Next]_vars

----------------------------------------------------------------------------
(* Properties *)

\* Whatever listing a crash brings back, every segments_N in it is whole: its
\* own bytes and those of all its segments are there and synced.  It rests on
\* the order of finish_commit (sync files, write and sync pending, rename), on
\* files_to_commit being referenced, and on delete_files removing segments_N
\* before the files it names.
CommitPointsSurvive ==
  \A L \in recent : \A g \in CommitsIn(L) :
    CommitFiles(g) \subseteq (L \intersect synced)

\* A commit that finish_commit reported as done is not lost by a crash: every
\* listing that may come back holds it or a newer one.
AckedCommitsSurvive == \A L \in recent : Newest(L) >= acked

\* The deleter's reference count of a file is the number of its holders: commit
\* points, the current infos (last_files), the commit in progress, the running
\* merge and the NRT reader.
Held(f, F) == IF f \in F THEN 1 ELSE 0
Holders(f) ==
  Cardinality({ g \in commits : f \in CommitFiles(g) })
    + Held(f, lastFiles) + Held(f, ci.files)
    + Held(f, FilesOf(merging.sources)) + Held(f, FilesOf(nrt.segs))
CountsExact == iw.open => \A f \in Names : refs[f] = Holders(f)

\* A file someone still counts on is in the directory.
ReferencedFilesExist == \A f \in Names : refs[f] > 0 => f \in names

\* When nothing is in flight, every file of the directory is referenced or is one
\* of the two kinds the code leaves behind: flushed segments whose tickets
\* delete_all purged, and targets of merges aborted while they were written.  No
\* other path forgets to delete what it released.  These go too at the latest with
\* rollback (and so with close): then the directory holds its commit points and
\* their files, and those of an open reader, and the newest commit point is the
\* last commit that succeeded.
NothingLeaks ==
  /\ iw.open /\ InnerFree /\ ci.phase = "idle" /\ flushing = {}
          /\ merging = NoMerge
       => \A f \in names : refs[f] > 0 \/ f \in orphans
  /\ ~iw.open /\ deleting = NoRemovals /\ crashes = 0
       => /\ Newest(names) = acked
          /\ \A f \in names \ orphans :
               \E g \in CommitsIn(names) : f \in CommitFiles(g)

\* The names the writer takes next (segment names from the counter, generations
\* after the last one) are not in the directory, so nothing written before a
\* crash or a failed commit is written over: inflate_gens, update_generation.
NextNamesAreFree ==
  iw.open =>
    /\ \A n \in Segs : n >= iw.counter => SegFile(n) \notin names
    /\ \A g \in Gens : g > iw.gen /\ g > ci.gen =>
         {Pending(g), Segments(g)} \intersect names = {}

\* A snapshotted commit stays readable until it is released, over commits,
\* rollbacks and writers: segments_N and all its files are in the directory.
SnapshotsKept ==
  \A g \in Gens : counts[g] > 0 => CommitFiles(g) \subseteq names

\* While no change is counted since the last commit, the infos are those of
\* the last commit: skipping start_commit loses nothing.
UnchangedMeansCommitted ==
  iw.open /\ iw.changeCount = iw.lastCommitCC
    => iw.lastGen # 0 /\ iw.infos = content[iw.lastGen].segs

\* A reader that opens the index while the writer commits and deletes old
\* commits always finds one: FindSegmentsFile::run retries only with a newer
\* generation, and gets one.  (A commit that fails after the rename removes
\* its segments_N again; a reader that had picked it sees no progress.)
ReaderFindsCommit == fails = 0 => dr.pc # "failed"
=============================================================================
