------------------------- MODULE IndexCommitsSteps --------------------------
(***************************************************************************)
(* The steps of a commit up to its rename, and those that write or remove  *)
(* one file, keep the invariant of IndexCommitsInv.                        *)
(***************************************************************************)
EXTENDS IndexCommitsFacts

-----------------------------------------------------------------------------
(* Commits *)

\* files_to_commit is released and nothing is pending any more.
LEMMA CommitReleased ==
  ASSUME IInv, Writing, ci.phase \in {"start", "failed"}, EndCommit(refs, {}, <<>>),
         iw' \in WriterRecord, iw'.open, iw'.lastGen = iw.lastGen, iw.gen <= iw'.gen,
         iw'.infos = iw.infos,
         UNCHANGED <<names, recent, synced, content, flushing, merging, commits, lastFiles,
                     orphans, counts, lastCommit, nrt, dr, acked, crashes, fails>>
  PROVE  /\ TypeOK' /\ Shape' /\ Counted' /\ ReferencedLive' /\ PointsFirst'
         /\ PointsKnown' /\ AckedKept' /\ SnapshotsDurable' /\ ReaderAhead'
         /\ CommitPointsSurvive' /\ Fresh' /\ Owned'
<1>0. PICK F : F = ci.files
  BY Zenon
<1>1. /\ ci' = IdleCommit /\ refs' = DecRef(refs, F)
      /\ deleting' = Removals({}, <<>>, Dropped(refs', F))
  BY <1>0, Zenon DEF EndCommit
<1>2. /\ iw.open /\ ci.phase # "writing" /\ ci.phase # "renamed"
  BY LockFree, Zenon
<1>3. TypeOK /\ Shape /\ Counted /\ Fresh
  BY Zenon DEF IInv
<1>4. /\ ci' \in CommitRecord /\ ci'.phase = "idle" /\ ci'.segs = {} /\ ci'.files = {}
      /\ ci'.phase # "renamed"
      /\ ci.phase \notin {"sync", "synced", "prepared"} /\ ci'.phase \notin {"writing", "renamed"}
  BY <1>1, BoundsAssumption DEF CommitRecord, IdleCommit, Phases
<1>5. F \in SUBSET Names /\ F \subseteq FilesOf(Segs) /\ {} \in SUBSET Names
  BY <1>0, <1>3, Fields, SegmentFiles, Zenon
<1>6. /\ refs' \in [Names -> Nat]
      /\ \A f \in Names : refs'[f] = refs[f] - Held(f, F)
  <2>1. refs \in [Names -> Nat]
    BY <1>3, Zenon DEF TypeOK
  <2>2. \A f \in Names : Held(f, F) <= refs[f]
    BY <1>0, <1>3, CountParts
  <2> QED BY <1>1, <2>1, <2>2, DecRefIs, Zenon
<1>7. /\ deleting' \in [Stages -> SUBSET Names]
      /\ \A f : Condemned(f)' <=> f \in {} \/ (f \in F /\ refs'[f] = 0)
  BY <1>1, <1>5, Removed, Zenon
<1>8. TypeOK'
  BY <1>3, <1>4, <1>6, <1>7, Zenon DEF TypeOK
<1>9. Counted'
  <2>1. ASSUME NEW f \in Names PROVE refs'[f] = Holders(f)'
    <3>1. Holders(f)' = Cardinality(PointsOf(commits, f)) + Held(f, lastFiles)
                      + Held(f, {}) + Held(f, FilesOf(merging.sources))
                      + Held(f, FilesOf(nrt.segs))
      BY <1>4, Zenon DEF Holders, PointsOf, CommitFiles
    <3>2. Held(f, {}) = 0
      BY Zenon DEF Held
    <3> QED BY <1>0, <1>3, <1>6, <3>1, <3>2, CountParts
  <2> QED BY <2>1, Zenon DEF Counted
<1>10. \A f : /\ Referenced(f)' => Referenced(f)
              /\ Referenced(f) => Referenced(f)' \/ f \in F
  <2>1. ASSUME NEW f
        PROVE  (Referenced(f)' => Referenced(f)) /\ (Referenced(f) => Referenced(f)' \/ f \in F)
    <3>1. f \notin ci'.files
      BY <1>4, Zenon
    <3> QED BY <1>0, <3>1, Zenon DEF Referenced, CommitFiles
  <2> QED BY <2>1, Zenon
<1>11. \A f \in Names : Referenced(f)' => f \in names
  BY <1>3, <1>10, ReferencedCounts, Zenon DEF IInv, ReferencedLive
<1>12. \A f : Condemned(f)' <=> f \in F /\ ~Referenced(f)'
  BY <1>5, <1>7, <1>8, <1>9, ReferencedCountsNext, Zenon
<1>13. \A m \in Segs : InFlight(m)' <=> InFlight(m)
  BY Zenon DEF InFlight
<1>14. \A m \in Segs : InFlight(m) => ~Referenced(SegFile(m)) /\ SegFile(m) \notin F
  BY <1>0, <1>3, NamesAre, ReferencedCounts, Zenon DEF Fresh, Referenced
<1>15. \A m \in Segs : InFlight(m)' =>
         InFlight(m) /\ ~Referenced(SegFile(m))' /\ ~Condemned(SegFile(m))'
  BY <1>10, <1>12, <1>13, <1>14, Zenon
<1>16. merging'.target \notin flushing'
  BY <1>3, Zenon DEF Fresh
<1>17. /\ ReferencedLive' /\ PointsFirst' /\ PointsKnown' /\ AckedKept'
       /\ SnapshotsDurable' /\ ReaderAhead' /\ CommitPointsSurvive'
       /\ Fresh' /\ Owned'
  <2>1. \A f : Condemned(f)' => f \in FilesOf(Segs) /\ ~Referenced(f)'
    BY <1>5, <1>12, Zenon
  <2>2. \A f \in names : Referenced(f) => Referenced(f)' \/ Condemned(f)'
    BY <1>10, <1>12, Zenon
  <2>3. UNCHANGED <<disk, commits, policy, history, dr>>
    BY Zenon DEF disk, policy, history
  <2>4. orphans \subseteq orphans'
    BY Zenon
  <2> QED BY <1>4, <1>8, <1>9, <1>11, <1>13, <1>15, <1>16, <2>1, <2>2, <2>3, <2>4,
             Released, Zenon
<1>18. Shape'
  <2>1. ci'.files = FilesOf(ci'.segs)
    BY <1>4, FilesOfIs, Zenon
  <2> QED BY <1>1, <1>2, <1>3, <1>4, <2>1, Zenon DEF Shape, IdleCommit
<1> QED BY <1>8, <1>9, <1>17, <1>18, Zenon

\* start_commit without changes keeps the invariant.
LEMMA SkipCommitStep ==
  ASSUME IInv, SkipCommit
  PROVE  IInv'
<1>1. /\ Writing /\ ci.phase = "start" /\ EndCommit(refs, {}, <<>>)
      /\ UNCHANGED <<names, recent, synced, content, iw, flushing, merging, commits,
                     lastFiles, orphans, counts, lastCommit, nrt, dr, acked, crashes, fails>>
  BY Zenon DEF SkipCommit, disk, policy, history
<1>2. iw' \in WriterRecord /\ iw'.open /\ iw.gen <= iw'.gen
  <2>1. iw.open /\ TypeOK
    BY <1>1, LockFree, Zenon DEF IInv
  <2>2. iw.gen <= iw.gen
    BY <2>1, Fields
  <2> QED BY <1>1, <2>1, <2>2, Zenon DEF TypeOK
<1>3. /\ TypeOK' /\ Shape' /\ Counted' /\ ReferencedLive' /\ PointsFirst'
      /\ PointsKnown' /\ AckedKept' /\ SnapshotsDurable' /\ ReaderAhead'
      /\ CommitPointsSurvive' /\ Fresh' /\ Owned'
  BY <1>1, <1>2, CommitReleased, Zenon
<1>4. /\ ci'.phase = "idle" /\ ci'.phase \notin Written /\ ci.phase \notin Written
      /\ ci'.phase \notin {"await", "start", "prepared", "renamed"}
      /\ ci'.phase \notin {"writing", "sync", "synced", "failed"}
  BY <1>1, Zenon DEF EndCommit, IdleCommit, Written
<1>5. NamesTaken'
  BY <1>1, <1>4, Zenon DEF IInv, NamesTaken
<1>6. CommitInProgress'
  BY <1>4, Zenon DEF CommitInProgress
<1>7. ChangesCounted'
  BY <1>1, <1>4, Zenon DEF IInv, ChangesCounted
<1> QED BY <1>3, <1>5, <1>6, <1>7, Zenon DEF IInv

\* A commit moves to its next phase without touching a file.
LEMMA PhaseMoves ==
  ASSUME IInv,
         UNCHANGED <<names, recent, content, flushing, merging, refs, commits, lastFiles,
                     orphans, deleting, counts, lastCommit, nrt, dr, acked, crashes, fails>>,
         synced \subseteq synced', synced' \in SUBSET Names,
         iw' = iw \/ iw' = [iw EXCEPT !.gen = ci.gen], iw.gen <= iw'.gen,
         NEW p \in Phases \ {"idle", "writing", "renamed"}, ci' = [ci EXCEPT !.phase = p],
         ci.phase \notin {"idle", "renamed"}, iw.open,
         ci.phase \in Written <=> p \in Written,
         ci.phase \in {"writing", "sync", "synced", "prepared"}
           => p \in {"writing", "sync", "synced", "prepared"},
         CommitInProgress'
  PROVE  IInv'
<1>1. TypeOK /\ Shape
  BY Zenon DEF IInv
<1>2. /\ ci' \in CommitRecord /\ ci'.phase = p /\ ci'.segs = ci.segs /\ ci'.gen = ci.gen
      /\ ci'.cc = ci.cc /\ ci'.files = ci.files
  BY <1>1, Zenon DEF TypeOK, CommitRecord
<1>3. /\ iw' \in WriterRecord /\ iw'.open = iw.open /\ iw'.infos = iw.infos
      /\ iw'.lastGen = iw.lastGen /\ iw'.counter = iw.counter
      /\ iw'.changeCount = iw.changeCount /\ iw'.lastCommitCC = iw.lastCommitCC
  BY <1>1, Zenon DEF TypeOK, WriterRecord, CommitRecord
<1>4. p # "idle" /\ p # "writing" /\ p # "renamed"
  BY Zenon
<1>5. TypeOK'
  BY <1>1, <1>2, <1>3, Zenon DEF TypeOK
<1>6. Shape'
  BY <1>1, <1>2, <1>3, <1>4, Zenon DEF Shape, IdleCommit
<1>7. Counted' /\ ReferencedLive' /\ PointsFirst' /\ PointsKnown' /\ SnapshotsDurable'
  BY <1>2, <1>3, <1>4, CountedKept, ReferencedLiveKept, PointsFirstKept, PointsKnownKept,
     SnapshotsKeptKept, Zenon DEF IInv
<1>8. acked <= iw'.gen /\ \A g \in Gens : g <= iw.gen => g <= iw'.gen
  <2>1. acked <= iw.gen
    BY Zenon DEF IInv, AckedKept
  <2>2. acked \in Nat /\ iw.gen \in Nat /\ iw'.gen \in Nat
    BY <1>1, <1>3, BoundsAssumption DEF TypeOK, WriterRecord
  <2> QED BY <2>1, <2>2 DEF Gens
<1>9. AckedKept'
  BY <1>2, <1>3, <1>4, <1>8, Zenon DEF IInv, AckedKept, CommitsIn, Condemned, Renamed
<1>10. NamesTaken'
  BY <1>2, <1>3, <1>8, Zenon DEF IInv, NamesTaken
<1>11. Fresh' /\ ChangesCounted' /\ ReaderAhead'
  BY <1>2, <1>3, <1>4, FreshKept, ChangesCountedKept, ReaderAheadKept, Zenon DEF IInv
<1>12. Owned'
  <2>1. ci.phase # "renamed"
    BY Zenon
  <2> QED BY <1>2, <1>3, <2>1, Zenon DEF IInv, Owned, InFlight, Condemned, CommitsIn, CommitFiles
<1>13. CommitPointsSurvive'
  BY Zenon DEF IInv, CommitPointsSurvive, CommitsIn, CommitFiles
<1> QED BY <1>5, <1>6, <1>7, <1>9, <1>10, <1>11, <1>12, <1>13, Zenon DEF IInv

\* await_merges keeps the invariant.
LEMMA StopAwaitingStep ==
  ASSUME IInv, StopAwaiting
  PROVE  IInv'
<1>1. /\ Writing /\ ci.phase = "await" /\ ci' = [ci EXCEPT !.phase = "start"]
      /\ UNCHANGED <<names, recent, synced, content, iw, flushing, merging, refs, commits,
                     lastFiles, orphans, deleting, counts, lastCommit, nrt, dr, acked,
                     crashes, fails>>
  BY Zenon DEF StopAwaiting, disk, deleter, policy, history
<1>2. iw.open /\ TypeOK
  BY <1>1, Zenon DEF IInv, Writing
<1>3. CommitInProgress'
  BY <1>1, <1>2 DEF IInv, CommitInProgress, TypeOK, CommitRecord, Written
<1>4. /\ synced \subseteq synced' /\ synced' \in SUBSET Names /\ iw.gen <= iw'.gen
  BY <1>1, <1>2, Fields DEF TypeOK
<1>5. /\ ci.phase \notin {"idle", "renamed"} /\ ci.phase \notin Written
      /\ "start" \notin Written
      /\ ci.phase \notin {"writing", "sync", "synced", "prepared"}
      /\ "start" \in Phases \ {"idle", "writing", "renamed"}
  BY <1>1, Zenon DEF Written, Phases
<1> QED BY <1>1, <1>2, <1>3, <1>4, <1>5, PhaseMoves, Zenon

\* The sync of the pending file keeps the invariant.
LEMMA SyncPendingStep ==
  ASSUME IInv, SyncPending
  PROVE  IInv'
<1>1. /\ ci.phase = "writing" /\ synced' = synced \union {Pending(ci.gen)}
      /\ ci' = [ci EXCEPT !.phase = "sync"]
      /\ UNCHANGED <<names, recent, content, iw, flushing, merging, refs, commits,
                     lastFiles, orphans, deleting, counts, lastCommit, nrt, dr, acked,
                     crashes, fails>>
  BY Zenon DEF SyncPending, deleter, policy, history
<1>2. TypeOK /\ Shape /\ CommitInProgress
  BY Zenon DEF IInv
<1>3. "writing" # "idle" /\ "writing" \in Written
  BY Zenon DEF Written
<1>4. iw.open /\ ci.gen \in Gens
  BY <1>1, <1>2, <1>3, Fields, Zenon DEF Shape, CommitInProgress
<1>5. CommitInProgress'
  BY <1>1, <1>2, Zenon DEF CommitInProgress, TypeOK, CommitRecord, Written
<1>6. /\ synced \subseteq synced' /\ synced' \in SUBSET Names /\ iw.gen <= iw'.gen
  BY <1>1, <1>2, <1>4, NamesAre, Fields DEF TypeOK
<1>7. /\ ci.phase \notin {"idle", "renamed"} /\ ci.phase \in Written
      /\ "sync" \in Written /\ "sync" \in {"writing", "sync", "synced", "prepared"}
      /\ "sync" \in Phases \ {"idle", "writing", "renamed"}
  BY <1>1, Zenon DEF Written, Phases
<1> QED BY <1>1, <1>4, <1>5, <1>6, <1>7, PhaseMoves, Zenon

\* The sync of the files of a commit keeps the invariant.
LEMMA SyncFilesStep ==
  ASSUME IInv, SyncFiles
  PROVE  IInv'
<1>1. /\ ci.phase = "sync" /\ synced' = synced \union ci.files
      /\ ci' = [ci EXCEPT !.phase = "synced"]
      /\ UNCHANGED <<names, recent, content, iw, flushing, merging, refs, commits,
                     lastFiles, orphans, deleting, counts, lastCommit, nrt, dr, acked,
                     crashes, fails>>
  BY Zenon DEF SyncFiles, deleter, policy, history
<1>2. TypeOK /\ Shape /\ CommitInProgress
  BY Zenon DEF IInv
<1>3. "sync" # "idle"
  BY Zenon
<1>4. iw.open
  BY <1>1, <1>2, <1>3, Fields, Zenon DEF Shape
<1>5. CommitInProgress'
  BY <1>1, <1>2, Zenon DEF CommitInProgress, TypeOK, CommitRecord, Written
<1>6. /\ synced \subseteq synced' /\ synced' \in SUBSET Names /\ iw.gen <= iw'.gen
  BY <1>1, <1>2, Fields DEF TypeOK
<1>7. /\ ci.phase \notin {"idle", "renamed"} /\ ci.phase \in Written
      /\ "synced" \in Written /\ "synced" \in {"writing", "sync", "synced", "prepared"}
      /\ "synced" \in Phases \ {"idle", "writing", "renamed"}
  BY <1>1, Zenon DEF Written, Phases
<1> QED BY <1>1, <1>4, <1>5, <1>6, <1>7, PhaseMoves, Zenon

\* update_generation keeps the invariant.
LEMMA UpdateGenerationStep ==
  ASSUME IInv, UpdateGeneration
  PROVE  IInv'
<1>1. /\ Writing /\ iw' = [iw EXCEPT !.gen = ci.gen]
      /\ \/ /\ ci.phase = "synced" /\ ci' = [ci EXCEPT !.phase = "prepared"]
            /\ UNCHANGED <<refs, deleting>>
         \/ ci.phase = "failed" /\ EndCommit(refs, {}, <<>>)
      /\ UNCHANGED <<names, recent, synced, content, flushing, merging, commits,
                     lastFiles, orphans, counts, lastCommit, nrt, dr, acked, crashes, fails>>
  BY Zenon DEF UpdateGeneration, disk, policy, history
<1>2. TypeOK /\ CommitInProgress /\ iw.open
  BY <1>1, Zenon DEF IInv, Writing
<1>3. ci.gen = iw.gen + 1 /\ iw.gen \in Nat /\ ci.gen \in 0 .. MaxGen
  BY <1>1, <1>2, Fields DEF CommitInProgress
<1>4. /\ iw' \in WriterRecord /\ iw'.open = iw.open /\ iw'.infos = iw.infos
      /\ iw'.lastGen = iw.lastGen /\ iw'.counter = iw.counter /\ iw'.gen = ci.gen
      /\ iw'.changeCount = iw.changeCount /\ iw'.lastCommitCC = iw.lastCommitCC
      /\ iw.gen <= iw'.gen
  <2>1. iw \in WriterRecord /\ iw' = [iw EXCEPT !.gen = ci.gen]
    BY <1>1, <1>2, Zenon DEF TypeOK
  <2> QED BY <1>3, <2>1 DEF WriterRecord
<1>5. CASE ci.phase = "synced" /\ ci' = [ci EXCEPT !.phase = "prepared"]
           /\ UNCHANGED <<refs, deleting>>
  <2>1. CommitInProgress'
    BY <1>1, <1>2, <1>4, <1>5 DEF CommitInProgress, TypeOK, CommitRecord, Written
  <2>2. synced \subseteq synced' /\ synced' \in SUBSET Names
    BY <1>1, <1>2, Zenon DEF TypeOK
  <2>3. /\ ci.phase \notin {"idle", "renamed"} /\ ci.phase \in Written
        /\ "prepared" \in Written /\ "prepared" \in {"writing", "sync", "synced", "prepared"}
        /\ "prepared" \in Phases \ {"idle", "writing", "renamed"}
    BY <1>5, Zenon DEF Written, Phases
  <2> QED BY <1>1, <1>2, <1>4, <1>5, <2>1, <2>2, <2>3, PhaseMoves, Zenon
<1>6. CASE ci.phase = "failed" /\ EndCommit(refs, {}, <<>>)
  <2>1. /\ TypeOK' /\ Shape' /\ Counted' /\ ReferencedLive' /\ PointsFirst'
        /\ PointsKnown' /\ AckedKept' /\ SnapshotsDurable' /\ ReaderAhead'
        /\ CommitPointsSurvive' /\ Fresh' /\ Owned'
    BY <1>1, <1>2, <1>4, <1>6, CommitReleased, Zenon
  <2>2. /\ ci'.phase = "idle" /\ ci'.phase \notin Written
        /\ ci'.phase \notin {"await", "start", "prepared", "renamed"}
        /\ ci'.phase \notin {"writing", "sync", "synced", "failed"}
    BY <1>6, Zenon DEF EndCommit, IdleCommit, Written
  <2>3. \A g \in Gens : g <= iw.gen \/ g = ci.gen => g <= iw'.gen
    BY <1>3, <1>4 DEF Gens
  <2>4. NamesTaken'
    BY <1>1, <1>2, <1>4, <2>3, Zenon DEF IInv, NamesTaken
  <2>5. CommitInProgress'
    BY <2>2, Zenon DEF CommitInProgress
  <2>6. ChangesCounted'
    BY <1>1, <1>4, <2>2, Zenon DEF IInv, ChangesCounted
  <2> QED BY <2>1, <2>4, <2>5, <2>6, Zenon DEF IInv
<1> QED BY <1>1, <1>5, <1>6, Zenon

\* prepare_commit_internal keeps the invariant.
LEMMA PrepareCommitStep ==
  ASSUME IInv, NEW S \in SUBSET Segs, PrepareCommit(S)
  PROVE  IInv'
<1>0. PICK cc : cc = IF iw.changeCount # iw.lastCommitCC THEN iw.changeCount + 1
                     ELSE iw.changeCount
  BY Zenon
<1>1. /\ Writing /\ ci.phase = "idle" /\ S \subseteq iw.infos
      /\ S # {} => merging = NoMerge
      /\ iw' = [iw EXCEPT !.changeCount = cc]
      /\ ci' = [phase |-> IF S = {} THEN "start" ELSE "await",
                segs |-> iw.infos, counter |-> iw.counter, gen |-> iw.gen,
                cc |-> cc, files |-> FilesOf(iw.infos)]
      /\ merging' = IF S = {} THEN merging
                    ELSE [sources |-> S, target |-> MaxSeg, commit |-> TRUE]
      /\ refs' = IncRef(IncRef(refs, FilesOf(iw.infos)), FilesOf(S))
      /\ UNCHANGED <<names, recent, synced, content, flushing, commits, lastFiles,
                     orphans, deleting, counts, lastCommit, nrt, dr, acked, crashes, fails>>
  BY <1>0, Zenon DEF PrepareCommit, RegisterMerge, disk, policy, history
<1>2. /\ iw.open /\ \A f : ~Condemned(f)
  BY <1>1, LockFree, Zenon
<1>3. TypeOK /\ Shape /\ Counted /\ Fresh /\ ChangesCounted
  BY Zenon DEF IInv
<1>4. /\ iw.infos \in SUBSET Segs /\ iw.counter \in Nat /\ iw.gen \in 0 .. MaxGen
      /\ iw.changeCount \in Nat /\ iw.lastCommitCC \in Nat /\ cc \in Nat
      /\ FilesOf(iw.infos) \in SUBSET Names
  <2>1. /\ iw.infos \in SUBSET Segs /\ iw.counter \in Nat /\ iw.gen \in 0 .. MaxGen
        /\ iw.changeCount \in Nat /\ iw.lastCommitCC \in Nat
    BY <1>3, Fields, Zenon
  <2>2. FilesOf(iw.infos) \in SUBSET Names
    BY <2>1, FilesOfIs, Zenon
  <2> QED BY <1>0, <2>1, <2>2
<1>5. /\ iw' \in WriterRecord /\ iw'.open = iw.open /\ iw'.infos = iw.infos
      /\ iw'.lastGen = iw.lastGen /\ iw'.counter = iw.counter /\ iw'.gen = iw.gen
      /\ iw'.changeCount = cc /\ iw'.lastCommitCC = iw.lastCommitCC
      /\ iw.gen <= iw'.gen
  BY <1>1, <1>3, <1>4 DEF TypeOK, WriterRecord
<1>6. /\ ci' \in CommitRecord /\ ci'.phase \in {"start", "await"} /\ ci'.segs = iw.infos
      /\ ci'.gen = iw.gen /\ ci'.cc = cc /\ ci'.files = FilesOf(iw.infos)
      /\ ci'.phase \notin {"idle", "writing", "renamed"} /\ ci'.phase \notin Written
      /\ ci.phase \notin Written /\ ci.phase \notin {"sync", "synced", "prepared"}
      /\ ci'.phase # "renamed" /\ ci'.phase # "writing" /\ ci'.phase # "idle"
  BY <1>1, <1>4, Zenon DEF CommitRecord, Phases, Written
<1>7. ci.files = {} /\ lastFiles = FilesOf(iw.infos)
  <2>1. IdleCommit.files = {}
    BY Zenon DEF IdleCommit
  <2> QED BY <1>1, <1>3, <2>1, Zenon DEF Shape
<1>8. /\ merging' \in MergeRecord /\ MaxSeg \notin Segs
      /\ merging'.target = merging.target
      /\ \A f : Held(f, FilesOf(merging'.sources))
                  = Held(f, FilesOf(merging.sources)) + Held(f, FilesOf(S))
      /\ merging'.sources \subseteq iw.infos
      /\ \A f : f \in FilesOf(merging.sources) => f \in FilesOf(merging'.sources)
  <2>1. MaxSeg \notin Segs
    BY BoundsAssumption DEF Segs
  <2>2. CASE S = {}
    <3>1. merging' = merging /\ \A f : Held(f, FilesOf(S)) = 0
      BY <1>1, <2>2, FilesOfIs, Zenon DEF Held
    <3>2. \A f : Held(f, FilesOf(merging.sources)) \in {0, 1}
      BY HeldIs, Zenon
    <3>3. \A f : Held(f, FilesOf(merging'.sources))
                  = Held(f, FilesOf(merging.sources)) + Held(f, FilesOf(S))
      BY <3>1, <3>2
    <3> QED BY <1>3, <2>1, <3>1, <3>3, Zenon DEF TypeOK, Shape
  <2>3. CASE S # {}
    <3>1. merging = NoMerge
          /\ merging' = [sources |-> S, target |-> MaxSeg, commit |-> TRUE]
      BY <1>1, <2>3, Zenon
    <3>2. /\ merging' \in MergeRecord /\ merging'.sources = S
          /\ merging'.target = merging.target /\ merging.sources = {}
      BY <3>1, BoundsAssumption DEF MergeRecord, NoMerge
    <3>3. \A f : f \notin FilesOf(merging.sources) /\ Held(f, FilesOf(merging.sources)) = 0
      BY <3>2, FilesOfIs, Zenon DEF Held
    <3>4. \A f : Held(f, FilesOf(S)) \in {0, 1}
      BY HeldIs, Zenon
    <3>5. \A f : Held(f, FilesOf(merging'.sources))
                  = Held(f, FilesOf(merging.sources)) + Held(f, FilesOf(S))
      BY <3>2, <3>3, <3>4
    <3> QED BY <1>1, <2>1, <3>2, <3>3, <3>5, Zenon
  <2> QED BY <2>2, <2>3, Zenon
<1>9. /\ refs' \in [Names -> Nat]
      /\ \A f \in Names : refs'[f] = refs[f] + Held(f, FilesOf(iw.infos)) + Held(f, FilesOf(S))
  <2>1. PICK q : q = IncRef(refs, FilesOf(iw.infos))
    BY Zenon
  <2>2. q \in [Names -> Nat] /\ \A f \in Names : q[f] = refs[f] + Held(f, FilesOf(iw.infos))
    BY <1>3, <2>1, IncRefIs, Zenon DEF TypeOK
  <2>3. refs' = IncRef(q, FilesOf(S))
    BY <1>1, <2>1, Zenon
  <2> QED BY <2>2, <2>3, IncRefIs, Zenon
<1>10. TypeOK'
  BY <1>1, <1>3, <1>5, <1>6, <1>8, <1>9, Zenon DEF TypeOK
<1>11. Counted'
  <2>1. ASSUME NEW f \in Names PROVE refs'[f] = Holders(f)'
    <3>1. Holders(f)' = Cardinality(PointsOf(commits, f)) + Held(f, lastFiles)
                      + Held(f, FilesOf(iw.infos)) + Held(f, FilesOf(merging'.sources))
                      + Held(f, FilesOf(nrt.segs))
      BY <1>1, <1>6, Zenon DEF Holders, PointsOf, CommitFiles
    <3>2. /\ Held(f, ci.files) = 0 /\ Held(f, FilesOf(iw.infos)) \in {0, 1}
          /\ Held(f, FilesOf(S)) \in {0, 1}
      BY <1>7, Zenon DEF Held
    <3> QED BY <1>3, <1>8, <1>9, <3>1, <3>2, CountParts
  <2> QED BY <2>1, Zenon DEF Counted
<1>12. \A f : Referenced(f)' <=> Referenced(f)
  <2>1. ASSUME NEW f PROVE Referenced(f)' <=> Referenced(f)
    <3>1. f \in FilesOf(merging'.sources) => f \in lastFiles
      BY <1>7, <1>8, FilesOfSubset, Zenon
    <3>2. f \notin ci.files
      BY <1>7, Zenon
    <3>3. f \in FilesOf(merging.sources) => f \in lastFiles'
      BY <1>1, <1>8, <3>1, Zenon
    <3> QED BY <1>1, <1>6, <1>7, <3>1, <3>2, <3>3, Zenon DEF Referenced, CommitFiles
  <2> QED BY <2>1, Zenon
<1>13. \A f \in Names : Referenced(f)' => f \in names
  BY <1>3, <1>12, ReferencedCounts, Zenon DEF IInv, ReferencedLive
<1>14. \A f : ~Condemned(f)'
  BY <1>1, <1>2, Zenon DEF Condemned
<1>15. \A m \in Segs : InFlight(m)' <=> InFlight(m)
  BY <1>1, <1>8, Zenon DEF InFlight
<1>16. \A m \in Segs : InFlight(m)' => ~Referenced(SegFile(m))'
  BY <1>3, <1>12, <1>15, NamesAre, ReferencedCounts, Zenon DEF Fresh
<1>17. merging'.target \notin flushing'
  BY <1>1, <1>3, <1>8, Zenon DEF Fresh
<1>18. /\ ReferencedLive' /\ PointsFirst' /\ PointsKnown' /\ AckedKept'
       /\ SnapshotsDurable' /\ ReaderAhead' /\ CommitPointsSurvive'
       /\ Fresh' /\ Owned'
  <2>1. UNCHANGED <<disk, commits, policy, history, dr>> /\ orphans \subseteq orphans'
    BY <1>1, Zenon DEF disk, policy, history
  <2> QED BY <1>1, <1>2, <1>5, <1>6, <1>10, <1>11, <1>12, <1>13, <1>14, <1>15, <1>16, <1>17,
             <2>1, Released, Zenon
<1>19. Shape'
  BY <1>1, <1>2, <1>3, <1>5, <1>6, <1>7, <1>8, Zenon DEF Shape
<1>20. NamesTaken'
  <2>1. /\ \A n \in Segs : SegFile(n) \in names => n < iw.counter
        /\ \A g \in Gens : Segments(g) \in names => g <= iw.gen
        /\ \A g \in Gens : Pending(g) \in names => g <= iw.gen
    BY <1>2, <1>6, Zenon DEF IInv, NamesTaken
  <2> QED BY <1>1, <1>5, <2>1, Zenon DEF NamesTaken
<1>21. CommitInProgress'
  BY <1>5, <1>6, Zenon DEF CommitInProgress
<1>22. ChangesCounted'
  <2>1. iw.lastCommitCC <= cc /\ cc <= cc /\ (cc = iw.lastCommitCC => iw.changeCount = iw.lastCommitCC)
    BY <1>0, <1>2, <1>3, <1>4 DEF ChangesCounted
  <2> QED BY <1>1, <1>2, <1>3, <1>5, <1>6, <2>1, Zenon DEF ChangesCounted
<1> QED BY <1>10, <1>11, <1>18, <1>19, <1>20, <1>21, <1>22, Zenon DEF IInv

-----------------------------------------------------------------------------
(* Writing files *)

\* The listings a directory operation adds.
LEMMA ListingsAre ==
  ASSUME NEW old, NEW L
  PROVE  /\ L \in Listings(old, L)
         /\ \A K \in Listings(old, L) : K \in old \/ K = L
BY Zenon DEF Listings

\* Listings in which no commit point is lost keep acknowledged and snapshotted
\* commits.
LEMMA Relisted ==
  ASSUME IInv, \A L \in recent' : L \in recent \/ L = names',
         \A g \in Gens : Segments(g) \in names => Segments(g) \in names',
         UNCHANGED <<deleting, counts, acked>>
  PROVE  /\ SnapshotsDurable'
         /\ acked # 0 => /\ ~Condemned(Segments(acked))'
                         /\ \A L \in recent' : Segments(acked) \in L
<1>1. names \in recent
  BY Zenon DEF IInv, Shape
<1>2. SnapshotsDurable'
  BY <1>1, Zenon DEF IInv, SnapshotsDurable, Condemned
<1>3. ASSUME acked # 0
      PROVE  ~Condemned(Segments(acked))' /\ \A L \in recent' : Segments(acked) \in L
  <2>1. acked \in Gens
    BY <1>3, BoundsAssumption DEF IInv, TypeOK, Gens
  <2>2. ~Condemned(Segments(acked)) /\ \A L \in recent : Segments(acked) \in L
    BY <1>3, Zenon DEF IInv, AckedKept
  <2> QED BY <1>1, <2>1, <2>2, Zenon DEF Condemned
<1> QED BY <1>2, <1>3, Zenon

\* A pending file has no references.
LEMMA PendingUnreferenced ==
  IInv => \A g \in Gens : ~Referenced(Pending(g)) /\ refs[Pending(g)] = 0
<1>1. SUFFICES ASSUME IInv, NEW g \in Gens
               PROVE  ~Referenced(Pending(g)) /\ refs[Pending(g)] = 0
  BY Zenon
<1>2. TypeOK /\ Shape /\ Counted
  BY <1>1, Zenon DEF IInv
<1>3. lastFiles = FilesOf(iw.infos) /\ ci.files = FilesOf(ci.segs)
  BY <1>2, Zenon DEF Shape
<1>4. ~Referenced(Pending(g))
  BY <1>3, CommitFilesIs, FilesOfIs, Zenon DEF Referenced
<1> QED BY <1>2, <1>4, NamesAre, ReferencedCounts, Zenon

\* new_segment_name takes a name and counts a change, and touches nothing else of
\* the writer.
NameTaken(w) == [w EXCEPT !.counter = @ + 1, !.changeCount = @ + 1]

LEMMA NameTakenIs ==
  ASSUME NEW w \in WriterRecord, NEW v, v = NameTaken(w)
  PROVE  /\ v \in WriterRecord /\ v.open = w.open /\ v.infos = w.infos
         /\ v.lastGen = w.lastGen /\ v.counter = w.counter + 1 /\ v.gen = w.gen
         /\ v.changeCount = w.changeCount + 1 /\ v.lastCommitCC = w.lastCommitCC
<1>1. PICK c \in Nat, d \in Nat : c = w.counter + 1 /\ d = w.changeCount + 1
  BY DEF WriterRecord
<1> DEFINE r == [w EXCEPT !.counter = c]
<1>2. /\ r \in WriterRecord /\ r.open = w.open /\ r.infos = w.infos
      /\ r.lastGen = w.lastGen /\ r.counter = c /\ r.gen = w.gen
      /\ r.lastCommitCC = w.lastCommitCC
  BY SMT DEF WriterRecord
<1>3. v = [r EXCEPT !.changeCount = d]
  BY <1>1, SMT DEF WriterRecord, NameTaken
<1> HIDE DEF r
<1>4. ASSUME NEW u, u = [r EXCEPT !.changeCount = d]
      PROVE  /\ u \in WriterRecord /\ u.open = r.open /\ u.infos = r.infos
             /\ u.lastGen = r.lastGen /\ u.counter = r.counter /\ u.gen = r.gen
             /\ u.changeCount = d /\ u.lastCommitCC = r.lastCommitCC
  BY <1>2, <1>4, SMT DEF WriterRecord
<1> QED BY <1>1, <1>2, <1>3, <1>4, Zenon

\* The files of a new segment are written.
LEMMA SegmentWritten ==
  ASSUME IInv, Writing, iw.counter \in Segs, NoTwin(iw.counter),
         NEW f0, f0 = SegFile(iw.counter),
         List(names \union {f0}), synced' = synced \ {f0},
         iw' = NameTaken(iw),
         merging' \in MergeRecord, merging'.sources = merging.sources,
         flushing' \in SUBSET Segs, merging'.target \notin flushing',
         \A m \in Segs : InFlight(m)' <=> InFlight(m) \/ m = iw.counter,
         UNCHANGED <<content, refs, commits, lastFiles, orphans, deleting, ci, counts,
                     lastCommit, nrt, dr, acked, crashes, fails>>
  PROVE  IInv'
<1>1. /\ iw.open /\ ci.phase # "writing" /\ ci.phase # "renamed"
      /\ \A f : ~Condemned(f)
  BY LockFree, Zenon
<1>2. /\ TypeOK /\ Shape /\ Counted /\ Fresh /\ ReferencedLive /\ NamesTaken
      /\ CommitInProgress /\ Owned /\ CommitPointsSurvive /\ names \in recent
  BY Zenon DEF IInv, Shape
<1>3. f0 \in Names /\ f0 \notin names
  <2>1. f0 \notin names
    <3>1. iw.counter \in Nat
      BY <1>2, Fields, Zenon
    <3>2. ~(iw.counter < iw.counter)
      BY <3>1
    <3> QED BY <1>1, <1>2, <3>2, Zenon DEF NamesTaken
  <2> QED BY <2>1, NamesAre, Zenon
<1>4. refs[f0] = 0 /\ ~Referenced(f0) /\ f0 \notin ci.files
  BY <1>2, <1>3, ReferencedCounts, Zenon DEF ReferencedLive, Referenced
<1>5. /\ names' = names \union {f0} /\ names' \in recent'
      /\ \A L \in recent' : L \in recent \/ L = names'
  BY ListingsAre, Zenon DEF List
<1>6. /\ iw' \in WriterRecord /\ iw'.open = iw.open /\ iw'.infos = iw.infos
      /\ iw'.lastGen = iw.lastGen /\ iw'.counter = iw.counter + 1 /\ iw'.gen = iw.gen
      /\ iw'.changeCount = iw.changeCount + 1 /\ iw'.lastCommitCC = iw.lastCommitCC
  BY <1>2, NameTakenIs, Zenon DEF TypeOK
<1>7. \A g : Segments(g) # f0 /\ Pending(g) # f0
  BY NamesDiffer, Zenon
<1>8. CommitsIn(names)' = CommitsIn(names)
  BY <1>5, <1>7, Zenon DEF CommitsIn
<1>9. TypeOK'
  <2>1. names' \in SUBSET Names /\ synced' \in SUBSET Names
    BY <1>2, <1>3, <1>5, Zenon DEF TypeOK
  <2>2. recent' \in SUBSET (SUBSET Names)
    BY <1>2, <1>5, <2>1, Zenon DEF TypeOK
  <2> QED BY <1>2, <1>6, <2>1, <2>2, Zenon DEF TypeOK
<1>10. Shape'
  BY <1>1, <1>2, <1>5, <1>6, Zenon DEF Shape, IdleCommit
<1>11. Counted' /\ ChangesCounted'
  BY <1>1, <1>6, CountedKept, ChangeCounted, Zenon DEF IInv
<1>12. ReferencedLive'
  BY <1>2, <1>5, Zenon DEF ReferencedLive, Condemned
<1>13. \A f : ~Condemned(f)'
  BY <1>1, Zenon DEF Condemned
<1>14. PointsFirst' /\ PointsKnown' /\ ReaderAhead'
  <2>1. PointsFirst'
    BY <1>13, Zenon DEF PointsFirst, Condemned
  <2>2. PointsKnown'
    BY <1>1, <1>6, <1>8, Zenon DEF IInv, PointsKnown, Renamed
  <2>3. ReaderAhead'
    BY <1>8, <1>13, Zenon DEF IInv, ReaderAhead
  <2> QED BY <2>1, <2>2, <2>3, Zenon
<1>15. /\ SnapshotsDurable'
       /\ acked # 0 => /\ ~Condemned(Segments(acked))'
                       /\ \A L \in recent' : Segments(acked) \in L
  BY <1>5, Relisted, Zenon
<1>16. AckedKept'
  <2>1. \A g \in CommitsIn(names) : g <= acked
    BY LockFree, Zenon
  <2> QED BY <1>6, <1>8, <1>15, <2>1, Zenon DEF IInv, AckedKept
<1>17. NamesTaken'
  <2>1. \A n \in Segs : n < iw.counter \/ n = iw.counter => n < iw'.counter
    BY <1>2, <1>6, Fields DEF Segs
  <2>2. \A n \in Segs : SegFile(n) \in names' => n < iw'.counter
    <3>1. ASSUME NEW n \in Segs, SegFile(n) \in names' PROVE n < iw.counter \/ n = iw.counter
      BY <1>1, <1>2, <1>5, <3>1, NamesDiffer, Zenon DEF NamesTaken
    <3> QED BY <2>1, <3>1, Zenon
  <2>3. \A g : (Segments(g) \in names' => Segments(g) \in names)
               /\ (Pending(g) \in names' => Pending(g) \in names)
    BY <1>5, <1>7, Zenon
  <2> QED BY <1>1, <1>2, <1>6, <2>2, <2>3, Zenon DEF NamesTaken
<1>18. CommitInProgress'
  <2>1. Pending(ci.gen) \in synced => Pending(ci.gen) \in synced'
    BY <1>7, Zenon
  <2>2. ci.files \subseteq synced => ci.files \subseteq synced'
    BY <1>4, Zenon
  <2> QED BY <1>1, <1>2, <1>6, <2>1, <2>2, Zenon DEF CommitInProgress
<1>19. Fresh'
  BY <1>2, <1>4, <1>5, <1>13, Zenon DEF Fresh
<1>20. Owned'
  <2>1. SUFFICES ASSUME NEW f \in names', ~(refs'[f] > 0), ~Condemned(f)', f \notin orphans',
                        ~(\E m \in Segs : InFlight(m)' /\ f = SegFile(m))
                 PROVE  /\ ci'.phase \in {"writing", "sync", "synced", "prepared"}
                        /\ f = Pending(ci'.gen)
    BY <1>1, <1>6, Zenon DEF Owned
  <2>2. f # f0
    BY <2>1, Zenon
  <2> QED BY <1>1, <1>2, <1>5, <2>1, <2>2, Zenon DEF Owned
<1>21. CommitPointsSurvive'
  <2>1. SUFFICES ASSUME NEW L \in recent', NEW g \in CommitsIn(L), NEW f \in CommitFiles(g)
                 PROVE  f \in L /\ f \in synced'
    BY Zenon DEF CommitPointsSurvive, CommitFiles, CommitsIn
  <2>2. \A K \in recent : g \in CommitsIn(K) => f \in K /\ f \in synced /\ f # f0
    <3>1. SUFFICES ASSUME NEW K \in recent, g \in CommitsIn(K)
                   PROVE  f \in K /\ f \in synced /\ f # f0
      BY Zenon
    <3>2. f \in K /\ f \in synced
      BY <1>2, <3>1, Zenon DEF CommitPointsSurvive
    <3>3. iw.counter \notin content[g].segs
      BY <3>1, Zenon DEF NoTwin
    <3> QED BY <3>2, <3>3, CommitFilesIs, Zenon
  <2>3. CASE L \in recent
    BY <2>1, <2>2, <2>3, Zenon
  <2>4. CASE L = names'
    <3>1. g \in CommitsIn(names)
      BY <1>8, <2>1, <2>4, Zenon DEF CommitsIn
    <3> QED BY <1>2, <1>5, <2>2, <2>4, <3>1, Zenon
  <2> QED BY <1>5, <2>3, <2>4, Zenon
<1> QED BY <1>9, <1>10, <1>11, <1>12, <1>14, <1>15, <1>16, <1>17, <1>18, <1>19, <1>20, <1>21,
           Zenon DEF IInv

\* A DWPT's segment keeps the invariant.
LEMMA WriteFlushStep ==
  ASSUME IInv, WriteFlush
  PROVE  IInv'
<1>0. PICK f0 : f0 = SegFile(iw.counter)
  BY Zenon
<1>1. /\ Writing /\ iw.counter \in Segs /\ NoTwin(iw.counter)
      /\ List(names \union {f0}) /\ synced' = synced \ {f0}
      /\ flushing' = flushing \union {iw.counter}
      /\ iw' = NameTaken(iw)
      /\ UNCHANGED <<content, merging, refs, commits, lastFiles, orphans, deleting, ci, counts,
                     lastCommit, nrt, dr, acked, crashes, fails>>
  BY <1>0, Zenon DEF WriteFlush, NameTaken, deleter, policy, history
<1>2. TypeOK /\ Fresh /\ NamesTaken /\ iw.open
  BY <1>1, Zenon DEF IInv, Writing
<1>3. merging' \in MergeRecord /\ flushing' \in SUBSET Segs
  BY <1>1, <1>2, Zenon DEF TypeOK
<1>4. merging.target # iw.counter
  <2>1. iw.counter \in Nat /\ ~(iw.counter < iw.counter)
    BY <1>2, Fields
  <2> QED BY <1>1, <1>2, <2>1, Zenon DEF Fresh, InFlight, NamesTaken
<1>5. merging'.target \notin flushing'
  BY <1>1, <1>2, <1>4, Zenon DEF Fresh
<1>6. \A m \in Segs : InFlight(m)' <=> InFlight(m) \/ m = iw.counter
  BY <1>1, Zenon DEF InFlight
<1> QED BY <1>0, <1>1, <1>3, <1>5, <1>6, SegmentWritten

\* merge_middle keeps the invariant.
LEMMA WriteMergeStep ==
  ASSUME IInv, WriteMerge
  PROVE  IInv'
<1>0. PICK f0 : f0 = SegFile(iw.counter)
  BY Zenon
<1>1. /\ Writing /\ merging.target = MaxSeg /\ iw.counter \in Segs /\ NoTwin(iw.counter)
      /\ List(names \union {f0}) /\ synced' = synced \ {f0}
      /\ merging' = [merging EXCEPT !.target = iw.counter]
      /\ iw' = NameTaken(iw)
      /\ UNCHANGED <<content, flushing, refs, commits, lastFiles, orphans, deleting, ci, counts,
                     lastCommit, nrt, dr, acked, crashes, fails>>
  BY <1>0, Zenon DEF WriteMerge, NameTaken, deleter, policy, history
<1>2. TypeOK /\ Fresh /\ NamesTaken /\ iw.open
  BY <1>1, Zenon DEF IInv, Writing
<1>3. /\ merging' \in MergeRecord /\ merging'.sources = merging.sources
      /\ merging'.target = iw.counter /\ MaxSeg \notin Segs
  <2>1. merging \in MergeRecord
    BY <1>2, Zenon DEF TypeOK
  <2> QED BY <1>1, <2>1, BoundsAssumption DEF MergeRecord, Segs
<1>4. flushing' \in SUBSET Segs
  BY <1>1, <1>2, Zenon DEF TypeOK
<1>5. merging'.target \notin flushing'
  <2>1. iw.counter \in Nat /\ ~(iw.counter < iw.counter)
    BY <1>2, Fields
  <2> QED BY <1>1, <1>2, <1>3, <2>1, Zenon DEF Fresh, InFlight, NamesTaken
<1>6. \A m \in Segs : InFlight(m)' <=> InFlight(m) \/ m = iw.counter
  BY <1>1, <1>3, Zenon DEF InFlight
<1> QED BY <1>0, <1>1, <1>3, <1>4, <1>5, <1>6, SegmentWritten, Zenon

\* pending_segments_N keeps the invariant.
LEMMA CreatePendingStep ==
  ASSUME IInv, CreatePending
  PROVE  IInv'
<1>0. PICK h : h = ci.gen + 1
  BY Zenon
<1>1. /\ Writing /\ ci.phase = "start" /\ h \in Gens
      /\ names' = names \union {Pending(h)}
      /\ recent' = Listings({names}, names')
      /\ synced' = synced \ {Pending(h)}
      /\ content' = [content EXCEPT ![h] = [segs |-> ci.segs, counter |-> ci.counter]]
      /\ ci' = [ci EXCEPT !.phase = "writing", !.gen = @ + 1]
      /\ UNCHANGED <<iw, flushing, merging, refs, commits, lastFiles, orphans, deleting,
                     counts, lastCommit, nrt, dr, acked, crashes, fails>>
  BY <1>0, Zenon DEF CreatePending, deleter, policy, history
<1>2. /\ iw.open /\ deleting = NoRemovals /\ \A f : ~Condemned(f)
      /\ \A g \in CommitsIn(names) : g \in commits /\ g <= acked
  BY <1>1, LockFree, Zenon
<1>3. /\ TypeOK /\ Shape /\ Counted /\ Fresh /\ ReferencedLive /\ NamesTaken
      /\ CommitInProgress /\ Owned /\ CommitPointsSurvive /\ AckedKept
      /\ SnapshotsDurable /\ names \in recent
  BY Zenon DEF IInv, Shape
<1>4. ci.gen = iw.gen /\ ci.gen \in Nat /\ acked \in Nat /\ acked <= iw.gen /\ acked \in 0 .. MaxGen
  BY <1>1, <1>2, <1>3, Fields DEF CommitInProgress, AckedKept, TypeOK
<1>5. acked < h /\ ~(h <= iw.gen) /\ h # ci.gen
  BY <1>0, <1>4
<1>6. Segments(h) \notin names
  BY <1>1, <1>2, <1>3, <1>5, Zenon DEF NamesTaken
<1>7. counts[h] = 0
  <2>1. ~(counts[h] > 0)
    BY <1>1, <1>3, <1>6, Zenon DEF SnapshotsDurable
  <2>2. counts[h] \in Nat
    BY <1>1, <1>3, Zenon DEF TypeOK
  <2> QED BY <2>1, <2>2
<1>8. /\ ci' \in CommitRecord /\ ci'.phase = "writing" /\ ci'.gen = h /\ ci'.segs = ci.segs
      /\ ci'.cc = ci.cc /\ ci'.files = ci.files
  <2>1. ci \in CommitRecord /\ h \in 0 .. MaxGen
    BY <1>1, <1>3 DEF TypeOK, Gens
  <2>2. ci' = [ci EXCEPT !.phase = "writing", !.gen = h]
    BY <1>0, <1>1, <2>1, Zenon DEF CommitRecord
  <2> QED BY <2>1, <2>2, Zenon DEF CommitRecord, Phases
<1>9. /\ content' \in [Gens -> [segs : SUBSET Segs, counter : Nat]]
      /\ content'[h].segs = ci.segs
      /\ \A g \in Gens : g # h => content'[g] = content[g]
  <2>1. content \in [Gens -> [segs : SUBSET Segs, counter : Nat]]
        /\ ci.segs \in SUBSET Segs /\ ci.counter \in Nat
    BY <1>3, Fields, Zenon DEF TypeOK
  <2> QED BY <1>1, <2>1, Zenon
<1>10. \A g \in Gens : g # h => CommitFiles(g)' = CommitFiles(g)
  BY <1>9, Zenon DEF CommitFiles
<1>11. commits \subseteq Gens /\ h \notin commits
  <2>1. commits \subseteq Gens /\ \A g \in commits : g <= acked
    BY <1>2, <1>3, Zenon DEF TypeOK, AckedKept
  <2>2. ~(h <= acked)
    BY <1>0, <1>4, <1>5
  <2> QED BY <2>1, <2>2, Zenon
<1>12. /\ names' \in recent' /\ \A L \in recent' : L = names \/ L = names'
  BY <1>1, ListingsAre, Zenon
<1>13. \A f : f \in CommitsIn(names) => f \in Gens /\ f # h
  BY <1>6, Zenon DEF CommitsIn
<1>14. CommitsIn(names)' = CommitsIn(names)
  BY <1>1, NamesDiffer, Zenon DEF CommitsIn
<1>15. TypeOK'
  <2>0. Pending(h) \in Names
    BY <1>1, NamesAre, Zenon
  <2>1. names' \in SUBSET Names /\ synced' \in SUBSET Names
    BY <1>1, <1>3, <2>0, Zenon DEF TypeOK
  <2>2. recent' \in SUBSET (SUBSET Names)
    BY <1>3, <1>12, <2>1, Zenon DEF TypeOK
  <2> QED BY <1>1, <1>3, <1>8, <1>9, <2>1, <2>2, Zenon DEF TypeOK
<1>16. Shape'
  <2>1. "writing" # "idle"
    BY Zenon
  <2> QED BY <1>1, <1>2, <1>3, <1>8, <1>12, <2>1, Zenon DEF Shape, NoRemovals
<1>17. Counted'
  <2>1. ASSUME NEW f \in Names PROVE Holders(f)' = Holders(f)
    <3>1. { g \in commits : f \in CommitFiles(g)' } = { g \in commits : f \in CommitFiles(g) }
      BY <1>10, <1>11, Zenon
    <3> QED BY <1>1, <1>8, <3>1, Zenon DEF Holders
  <2> QED BY <1>1, <1>3, <2>1, Zenon DEF Counted
<1>18. \A f : ~Condemned(f)'
  BY <1>1, <1>2, Zenon DEF Condemned
<1>19. ReferencedLive' /\ PointsFirst' /\ PointsKnown'
  <2>1. ReferencedLive'
    BY <1>1, <1>3, <1>18, Zenon DEF ReferencedLive
  <2>2. PointsFirst'
    BY <1>18, Zenon DEF PointsFirst, Condemned
  <2>3. PointsKnown'
    BY <1>1, <1>2, <1>14, Zenon DEF PointsKnown
  <2> QED BY <2>1, <2>2, <2>3, Zenon
<1>20. /\ SnapshotsDurable'
       /\ acked # 0 => /\ ~Condemned(Segments(acked))'
                       /\ \A L \in recent' : Segments(acked) \in L
  BY <1>1, <1>3, <1>12, Relisted, Zenon
<1>21. AckedKept'
  BY <1>1, <1>2, <1>3, <1>14, <1>20, Zenon DEF AckedKept
<1>22. NamesTaken'
  <2>1. "writing" \in Written /\ ci.phase \notin Written
    BY <1>1, Zenon DEF Written
  <2>2. \A n : SegFile(n) # Pending(h)
    BY NamesDiffer, Zenon
  <2>3. \A g : Segments(g) # Pending(h)
    BY NamesDiffer, Zenon
  <2>4. \A g : Pending(g) = Pending(h) => g = h
    BY NamesDiffer, Zenon
  <2> QED BY <1>1, <1>2, <1>3, <1>8, <2>1, <2>2, <2>3, <2>4, Zenon DEF NamesTaken
<1>23. CommitInProgress'
  <2>1. h = iw.gen + 1
    BY <1>0, <1>4, Zenon
  <2> QED BY <1>1, <1>5, <1>7, <1>8, <1>9, <2>1 DEF CommitInProgress, Written
<1>24. Fresh'
  BY <1>1, <1>3, <1>18, Zenon DEF Fresh, InFlight
<1>25. ChangesCounted'
  <2>1. iw.lastGen = acked /\ (acked # 0 => acked \in Gens /\ acked # h)
    BY <1>2, <1>3, <1>4, <1>5 DEF AckedKept, Gens
  <2>2. iw.lastGen # 0 => content'[iw.lastGen] = content[iw.lastGen]
    BY <1>9, <2>1, Zenon
  <2>3. ci.phase # "idle" /\ ci'.phase # "idle"
    BY <1>1, <1>8, Zenon
  <2> QED BY <1>1, <1>8, <2>2, <2>3, Zenon DEF IInv, ChangesCounted
<1>26. ReaderAhead'
  <2>1. SUFFICES ASSUME fails = 0
                 PROVE  dr.pc = "open" => dr.todo \subseteq FilesOf(content'[dr.gen].segs)
    BY <1>1, <1>14, <1>18, Zenon DEF IInv, ReaderAhead
  <2>2. SUFFICES ASSUME dr.pc = "open" PROVE content'[dr.gen] = content[dr.gen]
    BY <2>1, Zenon DEF IInv, ReaderAhead
  <2>3. dr.gen \in Gens /\ \E g \in CommitsIn(names) : dr.gen <= g
    BY <2>1, <2>2, Zenon DEF IInv, ReaderAhead
  <2>4. PICK g \in CommitsIn(names) : dr.gen <= g
    BY <2>3, Zenon
  <2>5. g <= acked /\ g \in Gens
    BY <1>2, <1>13, <2>4, Zenon
  <2>6. dr.gen # h
    <3>1. dr.gen \in Nat /\ g \in Nat
      BY <2>3, <2>5 DEF Gens
    <3> QED BY <1>0, <1>4, <1>5, <2>4, <2>5, <3>1
  <2> QED BY <1>9, <2>3, <2>6, Zenon
<1>27. Owned'
  <2>1. SUFFICES ASSUME NEW f \in names', ~(refs'[f] > 0), ~Condemned(f)', f \notin orphans',
                        ~(\E m \in Segs : InFlight(m)' /\ f = SegFile(m))
                 PROVE  f = Pending(h)
    BY <1>1, <1>2, <1>8, Zenon DEF Owned
  <2>2. SUFFICES ASSUME f \in names PROVE FALSE
    BY <1>1, Zenon
  <2>3. /\ ci.phase \notin {"writing", "sync", "synced", "prepared"} /\ ci.phase # "renamed"
    BY <1>1, Zenon
  <2>4. ~(\E m \in Segs : InFlight(m) /\ f = SegFile(m))
    BY <1>1, <2>1, Zenon DEF InFlight
  <2> QED BY <1>1, <1>2, <1>3, <2>1, <2>2, <2>3, <2>4, Zenon DEF Owned
<1>28. CommitPointsSurvive'
  <2>1. SUFFICES ASSUME NEW L \in recent', NEW g \in CommitsIn(L)', NEW f \in CommitFiles(g)'
                 PROVE  f \in L /\ f \in synced'
    BY Zenon DEF CommitPointsSurvive
  <2>2. g \in CommitsIn(names)
    BY <1>12, <1>14, <2>1, Zenon DEF CommitsIn
  <2>3. f \in CommitFiles(g)
    BY <1>10, <1>13, <2>1, <2>2, Zenon
  <2>4. f \in names /\ f \in synced /\ f # Pending(h)
    BY <1>3, <2>2, <2>3, CommitFilesIs, Zenon DEF CommitPointsSurvive
  <2> QED BY <1>1, <1>12, <2>1, <2>4, Zenon
<1> QED BY <1>15, <1>16, <1>17, <1>19, <1>20, <1>21, <1>22, <1>23, <1>24, <1>25, <1>26, <1>27,
           <1>28, Zenon DEF IInv

\* A commit that fails while it is written keeps the invariant.
LEMMA CommitFailsStep ==
  ASSUME IInv, CommitFails
  PROVE  IInv'
<1>0. PICK h : h = ci.gen
  BY Zenon
<1>1. /\ ci.phase \in {"writing", "sync"} /\ List(names \ {Pending(h)})
      /\ ci' = [ci EXCEPT !.phase = "failed"] /\ fails' = fails + 1
      /\ UNCHANGED <<synced, content, iw, flushing, merging, refs, commits, lastFiles,
                     orphans, deleting, counts, lastCommit, nrt, dr, acked, crashes>>
  BY <1>0, Zenon DEF CommitFails, deleter, policy
<1>2. /\ TypeOK /\ Shape /\ Counted /\ Fresh /\ ReferencedLive /\ NamesTaken
      /\ CommitInProgress /\ Owned /\ CommitPointsSurvive /\ AckedKept /\ PointsFirst
      /\ PointsKnown /\ SnapshotsDurable /\ names \in recent
  BY Zenon DEF IInv, Shape
<1>3. /\ ci.phase # "idle" /\ ci.phase # "renamed" /\ ci.phase \in Written
      /\ "failed" # "idle" /\ "failed" # "renamed" /\ "failed" # "writing" /\ "failed" \in Written
  BY <1>1, Zenon DEF Written
<1>4. iw.open /\ h \in Gens
  BY <1>0, <1>2, <1>3, Fields, Zenon DEF Shape, CommitInProgress
<1>5. /\ ci' \in CommitRecord /\ ci'.phase = "failed" /\ ci'.segs = ci.segs /\ ci'.gen = h
      /\ ci'.cc = ci.cc /\ ci'.files = ci.files /\ fails' \in Nat /\ fails' # 0
  BY <1>0, <1>1, <1>2 DEF TypeOK, CommitRecord, Phases
<1>6. /\ names' = names \ {Pending(h)} /\ names' \in recent'
      /\ \A L \in recent' : L \in recent \/ L = names'
  BY <1>1, ListingsAre, Zenon DEF List
<1>7. \A n : SegFile(n) # Pending(h) /\ Segments(n) # Pending(h)
  BY NamesDiffer, Zenon
<1>8. CommitsIn(names)' = CommitsIn(names)
  BY <1>6, <1>7, Zenon DEF CommitsIn
<1>9. TypeOK'
  <2>1. names' \in SUBSET Names
    BY <1>2, <1>6, Zenon DEF TypeOK
  <2>2. recent' \in SUBSET (SUBSET Names)
    BY <1>2, <1>6, <2>1, Zenon DEF TypeOK
  <2> QED BY <1>1, <1>2, <1>5, <2>1, <2>2, Zenon DEF TypeOK
<1>10. Shape'
  BY <1>1, <1>2, <1>3, <1>4, <1>5, <1>6, Zenon DEF Shape, Condemned
<1>11. Counted' /\ ChangesCounted'
  BY <1>1, <1>3, <1>5, CountedKept, ChangesCountedKept, Zenon DEF IInv
<1>12. ReferencedLive'
  <2>1. refs[Pending(h)] = 0
    BY <1>4, PendingUnreferenced, Zenon
  <2>2. ASSUME NEW f \in Names, refs[f] > 0 PROVE f # Pending(h)
    BY <2>1, <2>2
  <2> QED BY <1>1, <1>2, <1>6, <2>2, Zenon DEF ReferencedLive, Condemned
<1>13. PointsFirst' /\ PointsKnown'
  BY <1>1, <1>2, <1>3, <1>5, <1>8, Zenon DEF PointsFirst, PointsKnown, CommitFiles, Condemned, Renamed
<1>14. /\ SnapshotsDurable'
       /\ acked # 0 => /\ ~Condemned(Segments(acked))'
                       /\ \A L \in recent' : Segments(acked) \in L
  BY <1>1, <1>6, <1>7, Relisted, Zenon
<1>15. AckedKept'
  BY <1>1, <1>2, <1>3, <1>5, <1>8, <1>14, Zenon DEF AckedKept, Condemned, Renamed
<1>16. NamesTaken'
  BY <1>0, <1>1, <1>2, <1>3, <1>5, <1>6, Zenon DEF NamesTaken
<1>17. CommitInProgress'
  BY <1>0, <1>1, <1>2, <1>5, Zenon DEF CommitInProgress, Written
<1>18. Fresh'
  BY <1>1, <1>2, <1>6, <1>7, Zenon DEF Fresh, InFlight, Condemned
<1>19. ReaderAhead'
  BY <1>5, Zenon DEF ReaderAhead
<1>20. Owned'
  <2>1. SUFFICES ASSUME NEW f \in names', ~(refs'[f] > 0), ~Condemned(f)', f \notin orphans',
                        ~(\E m \in Segs : InFlight(m)' /\ f = SegFile(m))
                 PROVE  FALSE
    BY <1>1, <1>4, Zenon DEF Owned
  <2>2. f \in names /\ f # Pending(ci.gen)
    BY <1>0, <1>6, Zenon
  <2> QED BY <1>1, <1>2, <1>3, <1>4, <2>1, <2>2, Zenon DEF Owned, InFlight, Condemned
<1>21. CommitPointsSurvive'
  <2>1. SUFFICES ASSUME NEW L \in recent', NEW g \in CommitsIn(L), NEW f \in CommitFiles(g)
                 PROVE  f \in L /\ f \in synced
    BY <1>1, Zenon DEF CommitPointsSurvive, CommitFiles, CommitsIn
  <2>2. f # Pending(h)
    BY <2>1, CommitFilesIs, Zenon
  <2>3. CASE L \in recent
    BY <1>2, <2>1, <2>3, Zenon DEF CommitPointsSurvive
  <2>4. CASE L = names'
    <3>1. g \in CommitsIn(names)
      BY <1>8, <2>1, <2>4, Zenon DEF CommitsIn
    <3> QED BY <1>2, <1>6, <2>1, <2>2, <2>4, <3>1, Zenon DEF CommitPointsSurvive
  <2> QED BY <1>6, <2>3, <2>4, Zenon
<1> QED BY <1>9, <1>10, <1>11, <1>12, <1>13, <1>14, <1>15, <1>16, <1>17, <1>18, <1>19, <1>20,
           <1>21, Zenon DEF IInv

\* The rename of pending_segments_N keeps the invariant.
LEMMA RenamePendingStep ==
  ASSUME IInv, RenamePending
  PROVE  IInv'
<1>0. PICK h : h = ci.gen
  BY Zenon
<1>1. /\ Writing /\ ci.phase = "prepared"
      /\ List((names \ {Pending(h)}) \union {Segments(h)})
      /\ synced' = IF Pending(h) \in synced THEN synced \union {Segments(h)}
                   ELSE synced \ {Segments(h)}
      /\ ci' = [ci EXCEPT !.phase = "renamed"]
      /\ UNCHANGED <<content, iw, flushing, merging, refs, commits, lastFiles, orphans,
                     deleting, counts, lastCommit, nrt, dr, acked, crashes, fails>>
  BY <1>0, Zenon DEF RenamePending, deleter, policy, history
<1>2. /\ iw.open /\ deleting = NoRemovals /\ \A f : ~Condemned(f)
      /\ \A g \in CommitsIn(names) : g \in commits /\ g <= acked
  BY <1>1, LockFree, Zenon
<1>3. /\ TypeOK /\ Shape /\ Counted /\ Fresh /\ ReferencedLive /\ NamesTaken
      /\ CommitInProgress /\ Owned /\ CommitPointsSurvive /\ AckedKept
      /\ names \in recent
  BY Zenon DEF IInv, Shape
<1>4. /\ h = iw.gen /\ h \in Gens /\ acked < h /\ content[h].segs = ci.segs /\ counts[h] = 0
      /\ Pending(h) \in synced /\ ci.files \subseteq synced
  BY <1>0, <1>1, <1>3, Zenon DEF CommitInProgress, Written
<1>5. /\ ci' \in CommitRecord /\ ci'.phase = "renamed" /\ ci'.segs = ci.segs /\ ci'.gen = h
      /\ ci'.cc = ci.cc /\ ci'.files = ci.files
  BY <1>0, <1>1, <1>3, Zenon DEF TypeOK, CommitRecord, Phases
<1>6. /\ names' = (names \ {Pending(h)}) \union {Segments(h)} /\ names' \in recent'
      /\ \A L \in recent' : L \in recent \/ L = names'
      /\ synced' = synced \union {Segments(h)}
  BY <1>1, <1>4, ListingsAre, Zenon DEF List
<1>7. \A n : SegFile(n) # Pending(h) /\ Segments(n) # Pending(h) /\ SegFile(n) # Segments(h)
             /\ Pending(n) # Segments(h)
  BY NamesDiffer, Zenon
<1>8. \A g : g \in CommitsIn(names') <=> g \in CommitsIn(names) \/ g = h
  <2>1. \A g : Segments(g) \in names' <=> Segments(g) \in names \/ g = h
    BY <1>6, <1>7, NamesDiffer, Zenon
  <2> QED BY <1>4, <2>1, Zenon DEF CommitsIn
<1>9. TypeOK'
  <2>0. Segments(h) \in Names
    BY <1>4, NamesAre, Zenon
  <2>1. names' \in SUBSET Names /\ synced' \in SUBSET Names
    BY <1>3, <1>6, <2>0, Zenon DEF TypeOK
  <2>2. recent' \in SUBSET (SUBSET Names)
    BY <1>3, <1>6, <2>1, Zenon DEF TypeOK
  <2> QED BY <1>1, <1>3, <1>5, <2>1, <2>2, Zenon DEF TypeOK
<1>10. Shape'
  <2>1. "renamed" # "idle"
    BY Zenon
  <2> QED BY <1>1, <1>2, <1>3, <1>5, <1>6, <2>1, Zenon DEF Shape, NoRemovals
<1>11. Counted' /\ ChangesCounted'
  <2>1. "renamed" # "idle" /\ "prepared" # "idle"
    BY Zenon
  <2> QED BY <1>1, <1>5, <2>1, CountedKept, ChangesCountedKept, Zenon DEF IInv
<1>12. \A f : ~Condemned(f)'
  BY <1>1, <1>2, Zenon DEF Condemned
<1>13. ReferencedLive'
  <2>1. refs[Pending(h)] = 0
    BY <1>4, PendingUnreferenced, Zenon
  <2>2. ASSUME NEW f \in Names, refs[f] > 0 PROVE f # Pending(h)
    BY <2>1, <2>2
  <2> QED BY <1>1, <1>3, <1>6, <1>12, <2>2, Zenon DEF ReferencedLive
<1>14. PointsFirst' /\ PointsKnown'
  <2>1. PointsFirst'
    BY <1>12, Zenon DEF PointsFirst, Condemned
  <2>2. PointsKnown'
    <3>1. \A g \in CommitsIn(names') : g \in commits \/ g = h
      BY <1>2, <1>8, Zenon
    <3> QED BY <1>1, <1>5, <3>1, Zenon DEF PointsKnown, Renamed, CommitsIn
  <2> QED BY <2>1, <2>2, Zenon
<1>15. /\ SnapshotsDurable'
       /\ acked # 0 => /\ ~Condemned(Segments(acked))'
                       /\ \A L \in recent' : Segments(acked) \in L
  BY <1>1, <1>6, <1>7, Relisted, Zenon
<1>16. AckedKept'
  <2>1. \A g \in CommitsIn(names') : g <= acked \/ g = h
    BY <1>2, <1>8, Zenon
  <2> QED BY <1>1, <1>2, <1>3, <1>5, <1>15, <2>1, Zenon DEF AckedKept, Renamed, CommitsIn
<1>17. NamesTaken'
  <2>1. "prepared" \in Written /\ "renamed" \in Written
    BY Zenon DEF Written
  <2>2. h <= iw.gen
    BY <1>3, <1>4, Fields
  <2>3. \A g : Segments(g) \in names' => Segments(g) \in names \/ g = h
    BY <1>6, NamesDiffer, Zenon
  <2>4. \A n : (SegFile(n) \in names' => SegFile(n) \in names)
               /\ (Pending(n) \in names' => Pending(n) \in names)
    BY <1>6, <1>7, Zenon
  <2> QED BY <1>0, <1>1, <1>2, <1>3, <1>5, <2>1, <2>2, <2>3, <2>4, Zenon DEF NamesTaken
<1>18. CommitInProgress'
  BY <1>1, <1>4, <1>5, <1>6 DEF CommitInProgress, Written
<1>19. Fresh'
  BY <1>1, <1>3, <1>6, <1>7, <1>12, Zenon DEF Fresh, InFlight
<1>20. ReaderAhead'
  <2>1. \A g \in CommitsIn(names) : g \in CommitsIn(names)'
    BY <1>6, <1>7, Zenon DEF CommitsIn
  <2> QED BY <1>1, <1>12, <2>1, Zenon DEF IInv, ReaderAhead
<1>21. Owned'
  <2>1. SUFFICES ASSUME NEW f \in names', ~(refs'[f] > 0), ~Condemned(f)', f \notin orphans',
                        ~(\E m \in Segs : InFlight(m)' /\ f = SegFile(m)), f # Segments(h)
                 PROVE  FALSE
    BY <1>1, <1>2, <1>5, Zenon DEF Owned
  <2>2. f \in names /\ f # Pending(ci.gen) /\ ci.phase # "renamed"
    BY <1>0, <1>1, <1>6, <2>1, Zenon
  <2>3. ~(\E m \in Segs : InFlight(m) /\ f = SegFile(m))
    BY <1>1, <2>1, Zenon DEF InFlight
  <2> QED BY <1>1, <1>2, <1>3, <2>1, <2>2, <2>3, Zenon DEF Owned
<1>22. CommitPointsSurvive'
  <2>1. SUFFICES ASSUME NEW L \in recent', NEW g \in CommitsIn(L), NEW f \in CommitFiles(g)
                 PROVE  f \in L /\ f \in synced'
    BY <1>1, Zenon DEF CommitPointsSurvive, CommitFiles, CommitsIn
  <2>2. CASE L \in recent
    BY <1>3, <1>6, <2>1, <2>2, Zenon DEF CommitPointsSurvive
  <2>3. CASE L = names' /\ g \in CommitsIn(names)
    <3>1. f # Pending(h)
      BY <2>1, CommitFilesIs, Zenon
    <3> QED BY <1>3, <1>6, <2>1, <2>3, <3>1, Zenon DEF CommitPointsSurvive
  <2>4. CASE L = names' /\ g = h
    <3>1. f = Segments(h) \/ f \in ci.files
      <4>1. ci.files = FilesOf(content[h].segs)
        BY <1>3, <1>4, Zenon DEF Shape
      <4> QED BY <2>1, <2>4, <4>1, Zenon DEF CommitFiles
    <3>2. ASSUME f \in ci.files PROVE f \in names /\ f \in synced /\ f # Pending(h)
      <4>1. f \in Names /\ Referenced(f)
        BY <1>3, <3>2, Fields, Zenon DEF Referenced
      <4>2. f \in names
        BY <1>3, <4>1, ReferencedCounts, Zenon DEF ReferencedLive
      <4>3. f # Pending(h)
        BY <1>4, <4>1, PendingUnreferenced, Zenon
      <4> QED BY <1>4, <3>2, <4>2, <4>3, Zenon
    <3> QED BY <1>6, <2>4, <3>1, <3>2, Zenon
  <2> QED BY <1>6, <1>8, <2>1, <2>2, <2>3, <2>4, Zenon
<1> QED BY <1>9, <1>10, <1>11, <1>13, <1>14, <1>15, <1>16, <1>17, <1>18, <1>19, <1>20, <1>21,
           <1>22, Zenon DEF IInv

\* A commit that fails while it is finished keeps the invariant.
LEMMA FinishFailsStep ==
  ASSUME IInv, FinishFails
  PROVE  IInv'
<1>0. PICK h, F, first : /\ h = ci.gen /\ F = ci.files
                         /\ first = {Pending(h), Segments(h)} \intersect names
  BY Zenon
<1>1. /\ (Writing /\ ci.phase = "prepared") \/ ci.phase = "renamed"
      /\ fails' = fails + 1 /\ ci' = IdleCommit /\ refs' = DecRef(refs, F)
      /\ deleting' = Removals(first, <<>>, Dropped(refs', F))
      /\ UNCHANGED <<names, recent, synced, content, iw, flushing, merging, commits,
                     lastFiles, orphans, counts, lastCommit, nrt, dr, acked, crashes>>
  BY <1>0, Zenon DEF FinishFails, EndCommit, disk, policy
<1>2. /\ TypeOK /\ Shape /\ Counted /\ Fresh /\ ReferencedLive /\ NamesTaken
      /\ CommitInProgress /\ Owned /\ AckedKept /\ PointsKnown /\ SnapshotsDurable
  BY Zenon DEF IInv
<1>3. /\ iw.open /\ \A f : ~Condemned(f)
  <2>1. deleting = NoRemovals
    BY <1>1, <1>2, LockFree, Zenon DEF Shape
  <2>2. ci.phase # "idle"
    BY <1>1, Zenon
  <2> QED BY <1>2, <2>1, <2>2, NoneCondemned, Fields, Zenon DEF Shape
<1>4. h = iw.gen /\ h \in Gens /\ acked < h /\ counts[h] = 0
  BY <1>0, <1>1, <1>2, Zenon DEF CommitInProgress, Written
<1>5. acked # h /\ h \notin commits /\ ~(h <= acked)
  <2>1. acked \in Nat /\ h \in Nat
    BY <1>2, <1>4 DEF TypeOK, Gens
  <2>2. acked # h /\ ~(h <= acked)
    BY <1>4, <2>1
  <2> QED BY <1>2, <1>3, <2>2, Zenon DEF AckedKept
<1>6. /\ ci' \in CommitRecord /\ ci'.phase = "idle" /\ ci'.segs = {} /\ ci'.files = {}
      /\ ci'.phase \notin {"await", "start", "prepared", "renamed"}
      /\ ci'.phase \notin {"writing", "sync", "synced", "failed"}
      /\ ci'.phase \notin {"writing", "renamed"}
      /\ ci'.phase \notin Written /\ fails' # 0 /\ fails' \in Nat
  BY <1>1, <1>2, BoundsAssumption DEF CommitRecord, IdleCommit, Phases, Written, TypeOK
<1>7. F \in SUBSET Names /\ F \subseteq FilesOf(Segs) /\ first \in SUBSET Names
  BY <1>0, <1>2, Fields, SegmentFiles, Zenon DEF TypeOK
<1>8. \A f : f \in first => f = Pending(h) \/ f = Segments(h)
  BY <1>0, Zenon
<1>9. /\ refs' \in [Names -> Nat]
      /\ \A f \in Names : refs'[f] = refs[f] - Held(f, F)
  <2>1. refs \in [Names -> Nat]
    BY <1>2, Zenon DEF TypeOK
  <2>2. \A f \in Names : Held(f, F) <= refs[f]
    BY <1>0, <1>2, CountParts
  <2> QED BY <1>1, <2>1, <2>2, DecRefIs, Zenon
<1>10. /\ deleting' \in [Stages -> SUBSET Names]
       /\ \A f : Condemned(f)' <=> f \in first \/ (f \in F /\ refs'[f] = 0)
       /\ deleting'[0] = first
  <2>1. deleting'[0] = first
    BY <1>1, RemovalsAt
  <2> QED BY <1>1, <1>7, <2>1, Removed, Zenon
<1>11. TypeOK'
  BY <1>1, <1>2, <1>6, <1>9, <1>10, Zenon DEF TypeOK
<1>12. Counted'
  <2>1. ASSUME NEW f \in Names PROVE refs'[f] = Holders(f)'
    <3>1. Holders(f)' = Cardinality(PointsOf(commits, f)) + Held(f, lastFiles)
                      + Held(f, {}) + Held(f, FilesOf(merging.sources))
                      + Held(f, FilesOf(nrt.segs))
      BY <1>1, <1>6, Zenon DEF Holders, PointsOf, CommitFiles
    <3>2. Held(f, {}) = 0
      BY Zenon DEF Held
    <3> QED BY <1>0, <1>2, <1>9, <3>1, <3>2, CountParts
  <2> QED BY <2>1, Zenon DEF Counted
<1>13. \A f : /\ Referenced(f)' => Referenced(f)
              /\ Referenced(f) => Referenced(f)' \/ f \in F
  <2>1. ASSUME NEW f
        PROVE  (Referenced(f)' => Referenced(f)) /\ (Referenced(f) => Referenced(f)' \/ f \in F)
    <3>1. f \notin ci'.files
      BY <1>6, Zenon
    <3> QED BY <1>0, <1>1, <3>1, Zenon DEF Referenced, CommitFiles
  <2> QED BY <2>1, Zenon
<1>14. \A f : Condemned(f)' <=> f \in first \/ (f \in F /\ ~Referenced(f)')
  BY <1>7, <1>10, <1>11, <1>12, ReferencedCountsNext, Zenon
<1>15. ~Referenced(Pending(h)) /\ ~Referenced(Segments(h))
  <2>1. ~Referenced(Pending(h))
    BY <1>4, PendingUnreferenced, Zenon
  <2>2. lastFiles = FilesOf(iw.infos) /\ ci.files = FilesOf(ci.segs)
    BY <1>2, Zenon DEF Shape
  <2>3. \A S : Segments(h) \notin FilesOf(S)
    BY FilesOfIs, Zenon
  <2>4. \A g \in commits : Segments(h) \notin CommitFiles(g)
    BY <1>5, CommitFilesIs, Zenon
  <2> QED BY <2>1, <2>2, <2>3, <2>4, Zenon DEF Referenced
<1>16. \A f : Condemned(f)' => ~Referenced(f)'
  BY <1>8, <1>13, <1>14, <1>15, Zenon
<1>17. \A g : Condemned(Segments(g))' => g = h
  <2>1. \A g : Segments(g) \notin F
    BY <1>7, FilesOfIs, Zenon
  <2>2. \A g : Segments(g) \in first => g = h
    BY <1>8, NamesDiffer, Zenon
  <2> QED BY <1>14, <2>1, <2>2, Zenon
<1>18. h \in CommitsIn(names) => Segments(h) \in first
  BY <1>0, Zenon DEF CommitsIn
<1>19. \A g \in CommitsIn(names) : g # h => g \in commits /\ g <= acked
  BY <1>0, <1>2, <1>3, Zenon DEF PointsKnown, AckedKept, Renamed
<1>20. Shape'
  <2>1. ci'.files = FilesOf(ci'.segs)
    BY <1>6, FilesOfIs, Zenon
  <2> QED BY <1>1, <1>2, <1>3, <1>6, <2>1, Zenon DEF Shape, IdleCommit
<1>21. ReferencedLive'
  <2>1. ASSUME NEW f \in Names, refs'[f] > 0 PROVE f \in names' /\ ~Condemned(f)'
    <3>1. Referenced(f)' /\ Referenced(f)
      BY <1>11, <1>12, <1>13, <2>1, ReferencedCountsNext, Zenon
    <3>2. f \in names
      BY <1>2, <3>1, ReferencedCounts, Zenon DEF ReferencedLive
    <3> QED BY <1>1, <1>16, <3>1, <3>2, Zenon
  <2> QED BY <2>1, Zenon DEF ReferencedLive
<1>22. PointsFirst'
  <2>1. SUFFICES ASSUME NEW i \in Stages, NEW f \in deleting'[i], NEW g \in CommitsIn(names),
                        f \in CommitFiles(g)'
                 PROVE  \E j \in 0 .. i : Segments(g) \in deleting'[j]
    BY <1>1, Zenon DEF PointsFirst, CommitsIn
  <2>2. g = h
    <3>1. SUFFICES ASSUME g # h PROVE FALSE
      BY Zenon
    <3>2. g \in commits'
      BY <1>1, <1>19, <3>1, Zenon
    <3>3. Referenced(f)'
      BY <2>1, <3>2, Zenon DEF Referenced
    <3> QED BY <1>16, <3>3, Zenon DEF Condemned
  <2>3. i \in Nat
    BY StagesAre, Zenon
  <2>4. 0 \in 0 .. i
    BY <2>3
  <2> QED BY <1>10, <1>18, <2>2, <2>4, Zenon
<1>23. PointsKnown'
  BY <1>1, <1>14, <1>18, <1>19, Zenon DEF PointsKnown, CommitsIn
<1>24. AckedKept'
  BY <1>1, <1>2, <1>5, <1>14, <1>17, <1>18, <1>19, Zenon DEF AckedKept, CommitsIn
<1>25. SnapshotsDurable'
  <2>1. ASSUME NEW g \in Gens, counts[g] > 0 PROVE g # h
    BY <1>4, <2>1
  <2> QED BY <1>1, <1>2, <1>17, <2>1, Zenon DEF SnapshotsDurable
<1>26. NamesTaken'
  <2>1. h <= iw.gen
    BY <1>2, <1>4, Fields
  <2> QED BY <1>0, <1>1, <1>2, <1>3, <2>1, Zenon DEF NamesTaken
<1>27. CommitInProgress'
  BY <1>6, Zenon DEF CommitInProgress
<1>28. ChangesCounted'
  BY <1>1, <1>6, Zenon DEF IInv, ChangesCounted
<1>29. Fresh'
  <2>1. ASSUME NEW m \in Segs, InFlight(m)
        PROVE  SegFile(m) \in names /\ ~Condemned(SegFile(m))' /\ refs'[SegFile(m)] = 0
    <3>1. SegFile(m) \in names /\ SegFile(m) \in Names /\ ~Referenced(SegFile(m))
      BY <1>2, <2>1, NamesAre, ReferencedCounts, Zenon DEF Fresh
    <3>2. SegFile(m) \notin first /\ SegFile(m) \notin F
      BY <1>0, <1>8, <3>1, NamesDiffer, Zenon DEF Referenced
    <3>3. refs'[SegFile(m)] = 0
      BY <1>11, <1>12, <1>13, <3>1, ReferencedCountsNext, Zenon
    <3> QED BY <1>14, <3>1, <3>2, <3>3, Zenon
  <2> QED BY <1>1, <1>2, <2>1, Zenon DEF Fresh, InFlight
<1>30. ReaderAhead'
  BY <1>6, Zenon DEF ReaderAhead
<1>31. Owned'
  <2>1. SUFFICES ASSUME NEW f \in names, ~(refs'[f] > 0), ~Condemned(f)', f \notin orphans,
                        ~(\E m \in Segs : InFlight(m) /\ f = SegFile(m))
                 PROVE  FALSE
    BY <1>1, <1>3, Zenon DEF Owned, InFlight
  <2>2. f \in Names /\ f # Pending(ci.gen) /\ f # Segments(ci.gen)
    BY <1>0, <1>2, <1>14, <2>1, Zenon DEF TypeOK
  <2>3. ~Referenced(f)' /\ f \notin F
    BY <1>11, <1>12, <1>14, <2>1, <2>2, ReferencedCountsNext, Zenon
  <2>4. ~(refs[f] > 0)
    BY <1>2, <1>13, <2>2, <2>3, ReferencedCounts, Zenon
  <2> QED BY <1>2, <1>3, <2>1, <2>2, <2>4, Zenon DEF Owned
<1>32. CommitPointsSurvive'
  BY <1>1, PointsSurviveKept, Zenon DEF IInv
<1> QED BY <1>11, <1>12, <1>20, <1>21, <1>22, <1>23, <1>24, <1>25, <1>26, <1>27, <1>28, <1>29,
           <1>30, <1>31, <1>32, Zenon DEF IInv

-----------------------------------------------------------------------------
(* Snapshots and readers of the directory *)

\* A snapshot keeps the invariant.
LEMMA SnapshotStep ==
  ASSUME IInv, Snapshot
  PROVE  IInv'
<1>1. /\ iw.open /\ lastCommit # 0
      /\ counts' = [counts EXCEPT ![lastCommit] = @ + 1]
      /\ UNCHANGED <<names, recent, synced, content, iw, flushing, merging, refs, commits,
                     lastFiles, orphans, deleting, ci, lastCommit, nrt, dr, acked, crashes, fails>>
  BY Zenon DEF Snapshot, disk, deleter, history
<1>2. /\ TypeOK /\ AckedKept /\ CommitInProgress /\ SnapshotsDurable /\ lastCommit = acked
  BY <1>1, Zenon DEF IInv, AckedKept
<1>3. acked \in Gens /\ acked # 0
  BY <1>1, <1>2 DEF TypeOK, Gens
<1>4. /\ counts' \in [Gens -> Nat]
      /\ \A g \in Gens : g # acked => counts'[g] = counts[g]
  BY <1>1, <1>2, <1>3 DEF TypeOK
<1>5. TypeOK'
  BY <1>1, <1>2, <1>4, Zenon DEF TypeOK
<1>6. SnapshotsDurable'
  <2>1. ~Condemned(Segments(acked)) /\ \A L \in recent : Segments(acked) \in L
    BY <1>2, <1>3, Zenon DEF AckedKept
  <2> QED BY <1>1, <1>2, <1>4, <2>1, Zenon DEF SnapshotsDurable, Condemned
<1>7. CommitInProgress'
  <2>1. ASSUME ci.phase \in Written PROVE counts'[ci.gen] = 0
    <3>1. ci.gen \in Gens /\ acked < ci.gen /\ counts[ci.gen] = 0
      BY <1>2, <2>1, Zenon DEF CommitInProgress
    <3>2. ci.gen # acked
      BY <1>3, <3>1 DEF Gens
    <3> QED BY <1>4, <3>1, <3>2, Zenon
  <2> QED BY <1>1, <1>2, <2>1, Zenon DEF CommitInProgress
<1>8. /\ Shape' /\ Counted' /\ ReferencedLive' /\ PointsFirst' /\ PointsKnown' /\ AckedKept'
  BY <1>1, ShapeKept, CountedKept, ReferencedLiveKept, PointsFirstKept, PointsKnownKept,
     AckedKeptKept, Zenon DEF IInv
<1>9. /\ NamesTaken' /\ Fresh' /\ ChangesCounted' /\ ReaderAhead' /\ Owned' /\ CommitPointsSurvive'
  BY <1>1, NamesTakenKept, FreshKept, ChangesCountedKept, ReaderAheadKept, OwnedKept,
     PointsSurviveKept, Zenon DEF IInv
<1> QED BY <1>5, <1>6, <1>7, <1>8, <1>9, Zenon DEF IInv

\* A release keeps the invariant.
LEMMA ReleaseStep ==
  ASSUME IInv, NEW h \in Gens, Release(h)
  PROVE  IInv'
<1>1. /\ counts[h] > 0 /\ counts' = [counts EXCEPT ![h] = @ - 1]
      /\ UNCHANGED <<names, recent, synced, content, iw, flushing, merging, refs, commits,
                     lastFiles, orphans, deleting, ci, lastCommit, nrt, dr, acked, crashes, fails>>
  BY Zenon DEF Release, disk, deleter, history
<1>2. TypeOK /\ CommitInProgress /\ SnapshotsDurable
  BY Zenon DEF IInv
<1>3. /\ counts' \in [Gens -> Nat]
      /\ \A g \in Gens : counts'[g] > 0 => counts[g] > 0
      /\ \A g \in Gens : counts[g] = 0 => counts'[g] = 0
  BY <1>1, <1>2 DEF TypeOK
<1>4. TypeOK'
  BY <1>1, <1>2, <1>3, Zenon DEF TypeOK
<1>5. SnapshotsDurable'
  BY <1>1, <1>2, <1>3, Zenon DEF SnapshotsDurable, Condemned
<1>6. CommitInProgress'
  BY <1>1, <1>2, <1>3, Zenon DEF CommitInProgress
<1>7. /\ Shape' /\ Counted' /\ ReferencedLive' /\ PointsFirst' /\ PointsKnown' /\ AckedKept'
  BY <1>1, ShapeKept, CountedKept, ReferencedLiveKept, PointsFirstKept, PointsKnownKept,
     AckedKeptKept, Zenon DEF IInv
<1>8. /\ NamesTaken' /\ Fresh' /\ ChangesCounted' /\ ReaderAhead' /\ Owned' /\ CommitPointsSurvive'
  BY <1>1, NamesTakenKept, FreshKept, ChangesCountedKept, ReaderAheadKept, OwnedKept,
     PointsSurviveKept, Zenon DEF IInv
<1> QED BY <1>4, <1>5, <1>6, <1>7, <1>8, Zenon DEF IInv

\* A directory reader changes nothing but itself.
LEMMA ReaderMoves ==
  ASSUME IInv, dr' \in FinderRecord, ReaderAhead',
         UNCHANGED <<disk, iw, flushing, merging, deleter, deleting, ci, policy, nrt, history>>
  PROVE  IInv'
<1>1. UNCHANGED <<names, recent, synced, content, iw, flushing, merging, refs, commits, lastFiles,
                  orphans, deleting, ci, counts, lastCommit, nrt, acked, crashes, fails>>
  BY Zenon DEF disk, deleter, policy, history
<1>2. TypeOK'
  BY <1>1, Zenon DEF IInv, TypeOK
<1>3. /\ Shape' /\ Counted' /\ ReferencedLive' /\ PointsFirst' /\ PointsKnown' /\ AckedKept'
  BY <1>1, ShapeKept, CountedKept, ReferencedLiveKept, PointsFirstKept, PointsKnownKept,
     AckedKeptKept, Zenon DEF IInv
<1>4. /\ SnapshotsDurable' /\ NamesTaken' /\ CommitInProgress' /\ Fresh' /\ ChangesCounted'
      /\ Owned' /\ CommitPointsSurvive'
  BY <1>1, SnapshotsKeptKept, NamesTakenKept, CommitInProgressKept, FreshKept,
     ChangesCountedKept, OwnedKept, PointsSurviveKept, Zenon DEF IInv
<1> QED BY <1>2, <1>3, <1>4, Zenon DEF IInv

\* What a reader leaves alone, for the parts of ReaderAhead.
LEMMA ReaderAheadParts ==
  ASSUME IInv, UNCHANGED <<disk, iw, flushing, merging, deleter, deleting, ci, policy, nrt,
                           history>>
  PROVE  /\ UNCHANGED <<names, recent, synced, content, deleting, acked, fails>>
         /\ fails = 0 => \A g \in Gens : Condemned(Segments(g))' => g < acked'
         /\ CommitsIn(names)' = CommitsIn(names)
         /\ \A g \in CommitsIn(names) : g \in Gens /\ g \in Nat /\ g > 0
<1>1. UNCHANGED <<names, recent, synced, content, deleting, acked, fails>>
  BY Zenon DEF disk, history
<1>2. fails = 0 => \A g \in Gens : Condemned(Segments(g))' => g < acked'
  BY <1>1, Zenon DEF IInv, ReaderAhead, Condemned
<1>3. CommitsIn(names)' = CommitsIn(names)
  BY <1>1, Zenon DEF CommitsIn
<1>4. \A g \in CommitsIn(names) : g \in Gens /\ g \in Nat /\ g > 0
  BY DEF CommitsIn, Gens
<1> QED BY <1>1, <1>2, <1>3, <1>4, Zenon

\* The start of a directory reader keeps the invariant.
LEMMA StartReadingStep ==
  ASSUME IInv, StartReading
  PROVE  IInv'
<1>1. /\ Newest(names) # 0 /\ dr' = [IdleFinder EXCEPT !.pc = "list"]
      /\ UNCHANGED <<disk, iw, flushing, merging, deleter, deleting, ci, policy, nrt, history>>
  BY Zenon DEF StartReading
<1>2. dr' \in FinderRecord /\ dr'.pc = "list" /\ dr'.tried = 0
  BY <1>1, BoundsAssumption DEF IdleFinder, FinderRecord
<1>3. \E g \in CommitsIn(names) : dr'.tried < g
  <2>1. Newest(names) \in CommitsIn(names)
    BY <1>1, NewestIs, Zenon
  <2>2. \A g \in CommitsIn(names) : g > 0
    BY <1>1, ReaderAheadParts, Zenon
  <2> QED BY <1>2, <2>1, <2>2, Zenon
<1>4. dr'.pc # "failed" /\ dr'.pc \notin {"read", "open"} /\ dr'.pc # "open"
  BY <1>2, Zenon
<1>5. ReaderAhead'
  BY <1>1, <1>3, <1>4, ReaderAheadParts, Zenon DEF ReaderAhead
<1> QED BY <1>1, <1>2, <1>5, ReaderMoves, Zenon

\* A listing by a directory reader keeps the invariant.
LEMMA ListCommitsStep ==
  ASSUME IInv, ListCommits
  PROVE  IInv'
<1>1. /\ dr.pc = "list"
      /\ dr' = IF Newest(names) > dr.tried
               THEN [dr EXCEPT !.pc = "read", !.gen = Newest(names)]
               ELSE [dr EXCEPT !.pc = "failed"]
      /\ UNCHANGED <<disk, iw, flushing, merging, deleter, deleting, ci, policy, nrt, history>>
  BY Zenon DEF ListCommits
<1>2. dr \in FinderRecord /\ Newest(names) \in 0 .. MaxGen
  BY NewestIs, Zenon DEF IInv, TypeOK
<1>3. dr' \in FinderRecord
  BY <1>1, <1>2, Zenon DEF FinderRecord
<1>4. ReaderAhead'
  <2>1. CASE fails # 0
    BY <1>1, <2>1, ReaderAheadParts, Zenon DEF ReaderAhead
  <2>2. CASE fails = 0
    <3>1. PICK g \in CommitsIn(names) : dr.tried < g
      BY <1>1, <2>2, Zenon DEF IInv, ReaderAhead
    <3>2. Newest(names) \in CommitsIn(names) /\ g <= Newest(names)
      BY <3>1, NewestIs, Zenon
    <3>3. \A k \in CommitsIn(names) : k \in Gens /\ k \in Nat
      BY <1>1, ReaderAheadParts, Zenon
    <3>4. Newest(names) > dr.tried /\ Newest(names) <= Newest(names)
      <4>1. dr.tried \in Nat
        BY <1>2 DEF FinderRecord
      <4> QED BY <3>1, <3>2, <3>3, <4>1
    <3>5. dr' = [dr EXCEPT !.pc = "read", !.gen = Newest(names)]
      BY <1>1, <3>4, Zenon
    <3>6. dr'.pc = "read" /\ dr'.gen = Newest(names)
      BY <1>2, <3>5, Zenon DEF FinderRecord
    <3>7. dr'.pc # "failed" /\ dr'.pc # "list" /\ dr'.pc # "open"
      BY <3>6, Zenon
    <3> QED BY <1>1, <2>2, <3>2, <3>3, <3>4, <3>6, <3>7, ReaderAheadParts, Zenon DEF ReaderAhead
  <2> QED BY <2>1, <2>2, Zenon
<1> QED BY <1>1, <1>3, <1>4, ReaderMoves, Zenon

\* A reader that gives up a generation has a newer one ahead.
LEMMA RetryAhead ==
  ASSUME IInv, dr' = Retry, dr.pc \in {"read", "open"},
         UNCHANGED <<disk, iw, flushing, merging, deleter, deleting, ci, policy, nrt, history>>,
         fails = 0 => dr.gen \notin CommitsIn(names)
  PROVE  dr' \in FinderRecord /\ ReaderAhead'
<1>1. dr \in FinderRecord
  BY Zenon DEF IInv, TypeOK
<1>2. dr' \in FinderRecord /\ dr'.pc = "list" /\ dr'.tried = dr.gen
  BY <1>1, Zenon DEF Retry, FinderRecord
<1>3. dr'.pc # "failed" /\ dr'.pc \notin {"read", "open"} /\ dr'.pc # "open"
  BY <1>2, Zenon
<1>4. fails = 0 => \E g \in CommitsIn(names) : dr.gen < g
  <2>1. SUFFICES ASSUME fails = 0 PROVE \E g \in CommitsIn(names) : dr.gen < g
    BY Zenon
  <2>2. PICK g \in CommitsIn(names) : dr.gen <= g
    BY <2>1, Zenon DEF IInv, ReaderAhead
  <2>3. g # dr.gen
    BY <2>1, Zenon
  <2>4. g \in Nat /\ dr.gen \in Nat
    BY <1>1 DEF CommitsIn, Gens, FinderRecord
  <2>5. dr.gen < g
    BY <2>2, <2>3, <2>4
  <2> QED BY <2>5, Zenon
<1>5. ReaderAhead'
  BY <1>2, <1>3, <1>4, ReaderAheadParts, Zenon DEF ReaderAhead
<1> QED BY <1>2, <1>5, Zenon

\* The reading of segments_N keeps the invariant.
LEMMA ReadCommitStep ==
  ASSUME IInv, ReadCommit
  PROVE  IInv'
<1>1. /\ dr.pc = "read"
      /\ dr' = IF Segments(dr.gen) \notin names THEN Retry
               ELSE [dr EXCEPT !.todo = FilesOf(content[dr.gen].segs),
                               !.pc = IF content[dr.gen].segs = {} THEN "done" ELSE "open"]
      /\ UNCHANGED <<disk, iw, flushing, merging, deleter, deleting, ci, policy, nrt, history>>
  BY Zenon DEF ReadCommit
<1>2. dr \in FinderRecord /\ TypeOK /\ dr.pc \in {"read", "open"}
  BY <1>1, Zenon DEF IInv, TypeOK
<1>3. CASE Segments(dr.gen) \notin names
  <2>1. dr' = Retry /\ dr.gen \notin CommitsIn(names)
    BY <1>1, <1>3, Zenon DEF CommitsIn
  <2>2. dr' \in FinderRecord /\ ReaderAhead'
    BY <1>1, <1>2, <2>1, RetryAhead, Zenon
  <2> QED BY <1>1, <2>2, ReaderMoves, Zenon
<1>4. CASE Segments(dr.gen) \in names
  <2>1. PICK p : p = IF content[dr.gen].segs = {} THEN "done" ELSE "open"
    BY Zenon
  <2>2. dr' = [dr EXCEPT !.todo = FilesOf(content[dr.gen].segs), !.pc = p]
    BY <1>1, <1>4, <2>1, Zenon
  <2>3. dr.gen \in Gens
    <3>1. Segments(dr.gen) \in Names
      BY <1>2, <1>4, Zenon DEF TypeOK
    <3>2. \E g \in Gens : Segments(dr.gen) = Segments(g)
      BY <3>1, NamesAre, NamesDiffer, Zenon
    <3> QED BY <3>2, NamesDiffer, Zenon
  <2>4. FilesOf(content[dr.gen].segs) \in SUBSET Names
    BY <1>2, <2>3, ContentIs, FilesOfIs, Zenon
  <2>5. /\ dr' \in FinderRecord /\ dr'.pc = p /\ dr'.gen = dr.gen
        /\ dr'.todo = FilesOf(content[dr.gen].segs) /\ p \in {"done", "open"}
    BY <1>2, <2>1, <2>2, <2>4, Zenon DEF FinderRecord
  <2>6. dr'.pc # "failed" /\ dr'.pc # "list"
    BY <2>5, Zenon
  <2>7. fails = 0 => \E g \in CommitsIn(names) : dr.gen <= g
    BY <1>2, Zenon DEF IInv, ReaderAhead
  <2>8. ReaderAhead'
    BY <1>1, <2>3, <2>5, <2>6, <2>7, ReaderAheadParts, Zenon DEF ReaderAhead
  <2> QED BY <1>1, <2>5, <2>8, ReaderMoves, Zenon
<1> QED BY <1>3, <1>4, Zenon

\* The opening of a segment's files by a reader keeps the invariant.
LEMMA OpenFileStep ==
  ASSUME IInv, OpenFile
  PROVE  IInv'
<1>1. PICK f \in dr.todo :
        dr' = IF f \notin names THEN Retry
              ELSE [dr EXCEPT !.todo = @ \ {f},
                              !.pc = IF dr.todo = {f} THEN "done" ELSE "open"]
  BY Zenon DEF OpenFile
<1>2. /\ dr.pc = "open"
      /\ UNCHANGED <<disk, iw, flushing, merging, deleter, deleting, ci, policy, nrt, history>>
  BY Zenon DEF OpenFile
<1>3. dr \in FinderRecord /\ TypeOK /\ dr.pc \in {"read", "open"}
  BY <1>2, Zenon DEF IInv, TypeOK
<1>4. fails = 0 => /\ dr.gen \in Gens /\ (\E g \in CommitsIn(names) : dr.gen <= g)
                   /\ dr.todo \subseteq FilesOf(content[dr.gen].segs)
  BY <1>2, <1>3, Zenon DEF IInv, ReaderAhead
<1>5. CASE f \notin names
  <2>1. ASSUME fails = 0, dr.gen \in CommitsIn(names) PROVE FALSE
    <3>1. names \in recent
      BY Zenon DEF IInv, Shape
    <3>2. f \in CommitFiles(dr.gen)
      BY <1>1, <1>4, <2>1, Zenon DEF CommitFiles
    <3> QED BY <1>5, <2>1, <3>1, <3>2, Zenon DEF IInv, CommitPointsSurvive
  <2>2. dr' \in FinderRecord /\ ReaderAhead'
    BY <1>1, <1>2, <1>3, <1>5, <2>1, RetryAhead, Zenon
  <2> QED BY <1>2, <2>2, ReaderMoves, Zenon
<1>6. CASE f \in names
  <2>1. PICK p : p = IF dr.todo = {f} THEN "done" ELSE "open"
    BY Zenon
  <2>2. dr' = [dr EXCEPT !.todo = dr.todo \ {f}, !.pc = p]
    BY <1>1, <1>3, <1>6, <2>1, Zenon DEF FinderRecord
  <2>3. dr.todo \ {f} \in SUBSET Names
    BY <1>3, Fields, Zenon
  <2>4. /\ dr' \in FinderRecord /\ dr'.pc = p /\ dr'.gen = dr.gen
        /\ dr'.todo = dr.todo \ {f} /\ p \in {"done", "open"}
    BY <1>3, <2>1, <2>2, <2>3, Zenon DEF FinderRecord
  <2>5. dr'.pc # "failed" /\ dr'.pc # "list"
    BY <2>4, Zenon
  <2>6. dr'.todo \subseteq dr.todo
    BY <2>4, Zenon
  <2>7. ReaderAhead'
    BY <1>2, <1>4, <2>4, <2>5, <2>6, ReaderAheadParts, Zenon DEF ReaderAhead
  <2> QED BY <1>2, <2>4, <2>7, ReaderMoves, Zenon
<1> QED BY <1>5, <1>6, Zenon

-----------------------------------------------------------------------------
(* Removing files *)

\* The removal of a file keeps the invariant.
LEMMA DeleteFileStep ==
  ASSUME IInv, DeleteFile
  PROVE  IInv'
<1>1. PICK i \in Stages :
        /\ \A j \in Stages : j < i => deleting[j] = {}
        /\ \E f \in NextToDelete(deleting[i]) :
             /\ List(names \ {f})
             /\ deleting' = [deleting EXCEPT ![i] = @ \ {f}]
  BY Zenon DEF DeleteFile
<1>2. PICK f \in NextToDelete(deleting[i]) :
        List(names \ {f}) /\ deleting' = [deleting EXCEPT ![i] = @ \ {f}]
  BY <1>1, Zenon
<1>3. UNCHANGED <<synced, content, iw, flushing, merging, refs, commits, lastFiles, orphans,
                  ci, counts, lastCommit, nrt, dr, acked, crashes, fails>>
  BY Zenon DEF DeleteFile, deleter, policy, history
<1>4. /\ TypeOK /\ Shape /\ Counted /\ Fresh /\ ReferencedLive /\ NamesTaken
      /\ CommitInProgress /\ Owned /\ CommitPointsSurvive /\ AckedKept /\ PointsFirst
      /\ PointsKnown /\ SnapshotsDurable /\ ReaderAhead /\ names \in recent
  BY Zenon DEF IInv, Shape
<1>5. f \in deleting[i] /\ Condemned(f) /\ f \in Names
  <2>1. f \in deleting[i]
    BY Zenon DEF NextToDelete
  <2> QED BY <1>4, <2>1, Zenon DEF Condemned, TypeOK
<1>6. /\ names' = names \ {f} /\ names' \in recent'
      /\ \A L \in recent' : L \in recent \/ L = names'
  BY <1>2, ListingsAre, Zenon DEF List
<1>7. /\ deleting' \in [Stages -> SUBSET Names]
      /\ \A k \in Stages : \A x \in deleting'[k] : x \in deleting[k]
      /\ \A k \in Stages : \A x \in deleting[k] : x # f => x \in deleting'[k]
  BY <1>2, <1>4, Zenon DEF TypeOK
<1>8. /\ \A x : Condemned(x)' => Condemned(x)
      /\ \A x : Condemned(x) /\ x # f => Condemned(x)'
  BY <1>7, Zenon DEF Condemned
<1>9. ci.phase # "writing" /\ ci.phase # "renamed"
  BY <1>4, <1>5, NoneCondemned, Zenon DEF Shape
<1>10. \A g \in CommitsIn(names') : g \in CommitsIn(names) /\ Segments(g) # f
  BY <1>6, Zenon DEF CommitsIn
<1>11. \A g \in CommitsIn(names) : ~Condemned(Segments(g)) => g \in CommitsIn(names')
  BY <1>5, <1>6, Zenon DEF CommitsIn
<1>12. CommitsIn(names)' = CommitsIn(names')
  BY Zenon DEF CommitsIn
<1>13. TypeOK'
  <2>1. names' \in SUBSET Names
    BY <1>4, <1>6, Zenon DEF TypeOK
  <2>2. recent' \in SUBSET (SUBSET Names)
    BY <1>4, <1>6, <2>1, Zenon DEF TypeOK
  <2> QED BY <1>3, <1>4, <1>7, <2>1, <2>2, Zenon DEF TypeOK
<1>14. Shape'
  BY <1>3, <1>4, <1>6, <1>8, <1>9, Zenon DEF Shape, IdleCommit, NoMerge, NoReader
<1>15. Counted' /\ ChangesCounted'
  BY <1>3, CountedKept, ChangesCountedKept, Zenon DEF IInv
<1>16. ReferencedLive'
  BY <1>3, <1>4, <1>5, <1>6, <1>8, Zenon DEF ReferencedLive
<1>17. PointsFirst'
  <2>1. SUFFICES ASSUME NEW k \in Stages, NEW x \in deleting'[k], NEW g \in CommitsIn(names'),
                        x \in CommitFiles(g)
                 PROVE  \E j \in 0 .. k : Segments(g) \in deleting'[j]
    BY <1>3, <1>12, Zenon DEF PointsFirst, CommitFiles
  <2>2. PICK j \in 0 .. k : Segments(g) \in deleting[j]
    BY <1>4, <1>7, <1>10, <2>1, Zenon DEF PointsFirst
  <2>3. j \in Stages
    BY BoundsAssumption DEF Stages, LastStage
  <2> QED BY <1>7, <1>10, <2>1, <2>2, <2>3, Zenon
<1>18. PointsKnown'
  BY <1>3, <1>4, <1>8, <1>10, <1>12, Zenon DEF PointsKnown, Renamed
<1>19. SnapshotsDurable'
  BY <1>3, <1>4, <1>5, <1>6, <1>8, Zenon DEF SnapshotsDurable
<1>20. AckedKept'
  <2>1. acked # 0 => ~Condemned(Segments(acked))' /\ \A L \in recent' : Segments(acked) \in L
    BY <1>3, <1>4, <1>5, <1>6, <1>8, Zenon DEF AckedKept
  <2>2. \A g \in CommitsIn(names') : g <= acked \/ Condemned(Segments(g))' \/ Renamed(g)
    BY <1>4, <1>8, <1>10, Zenon DEF AckedKept
  <2> QED BY <1>3, <1>4, <1>12, <2>1, <2>2, Zenon DEF AckedKept, Renamed
<1>21. NamesTaken'
  BY <1>3, <1>4, <1>6, Zenon DEF NamesTaken
<1>22. CommitInProgress'
  BY <1>3, <1>4, <1>9, Zenon DEF CommitInProgress
<1>23. Fresh'
  BY <1>3, <1>4, <1>5, <1>6, <1>8, Zenon DEF Fresh, InFlight
<1>24. ReaderAhead'
  <2>1. CASE fails # 0
    BY <1>3, <2>1, Zenon DEF ReaderAhead
  <2>2. CASE fails = 0
    <3>1. ASSUME NEW g \in CommitsIn(names), g \notin CommitsIn(names')
          PROVE  acked \in CommitsIn(names') /\ g < acked /\ g \in Nat /\ acked \in Nat
      <4>1. Condemned(Segments(g)) /\ g \in Gens
        BY <1>11, <3>1, Zenon DEF CommitsIn
      <4>2. g < acked
        BY <1>4, <2>2, <4>1, Zenon DEF ReaderAhead
      <4>3. g \in Nat /\ acked \in Nat /\ acked # 0 /\ acked \in Gens
        BY <1>4, <4>1, <4>2 DEF TypeOK, Gens
      <4>4. ~Condemned(Segments(acked)) /\ Segments(acked) \in names
        BY <1>4, <4>3, Zenon DEF AckedKept
      <4>5. acked \in CommitsIn(names)
        BY <4>3, <4>4, Zenon DEF CommitsIn
      <4> QED BY <1>11, <4>2, <4>3, <4>4, <4>5, Zenon
    <3>2. ASSUME NEW k \in Nat, NEW g \in CommitsIn(names), k < g \/ k <= g
          PROVE  \E m \in CommitsIn(names') : (k < g => k < m) /\ k <= m
      <4>1. CASE g \in CommitsIn(names')
        <5>1. k <= g
          BY <3>2 DEF CommitsIn, Gens
        <5> QED BY <4>1, <5>1, Zenon
      <4>2. CASE g \notin CommitsIn(names')
        <5>1. acked \in CommitsIn(names') /\ g < acked /\ g \in Nat /\ acked \in Nat
          BY <3>1, <4>2, Zenon
        <5>2. k < acked /\ k <= acked
          BY <3>2, <5>1
        <5> QED BY <5>1, <5>2, Zenon
      <4> QED BY <4>1, <4>2, Zenon
    <3>3. dr.tried \in Nat /\ dr.gen \in Nat
      BY <1>4, Fields
    <3>4. dr.pc = "list" => \E g \in CommitsIn(names') : dr.tried < g
      BY <1>4, <2>2, <3>2, <3>3, Zenon DEF ReaderAhead
    <3>5. dr.pc \in {"read", "open"} =>
            dr.gen \in Gens /\ \E g \in CommitsIn(names') : dr.gen <= g
      BY <1>4, <2>2, <3>2, <3>3, Zenon DEF ReaderAhead
    <3> QED BY <1>3, <1>4, <1>8, <1>12, <2>2, <3>4, <3>5, Zenon DEF ReaderAhead
  <2> QED BY <2>1, <2>2, Zenon
<1>25. Owned'
  <2>1. ASSUME ~iw.open, NEW g \in CommitsIn(names) PROVE g \in CommitsIn(names')
    BY <1>4, <1>11, <2>1, Zenon DEF Shape, CommitsIn
  <2>2. ASSUME iw.open, NEW x \in names'
        PROVE  \/ refs[x] > 0 \/ Condemned(x)' \/ x \in orphans
               \/ \E n \in Segs : InFlight(n) /\ x = SegFile(n)
               \/ ci.phase \in {"writing", "sync", "synced", "prepared"} /\ x = Pending(ci.gen)
               \/ ci.phase = "renamed" /\ x = Segments(ci.gen)
    BY <1>4, <1>6, <1>8, <2>2, Zenon DEF Owned
  <2>3. ASSUME ~iw.open, crashes = 0, NEW x \in names'
        PROVE  \/ Condemned(x)' \/ x \in orphans
               \/ \E g \in CommitsIn(names') : x \in CommitFiles(g)
    BY <1>4, <1>6, <1>8, <2>1, <2>3, Zenon DEF Owned
  <2> QED BY <1>3, <1>12, <2>2, <2>3, Zenon DEF Owned, InFlight, CommitFiles
<1>26. CommitPointsSurvive'
  <2>1. SUFFICES ASSUME NEW L \in recent', NEW g \in CommitsIn(L), NEW x \in CommitFiles(g)
                 PROVE  x \in L /\ x \in synced
    BY <1>3, Zenon DEF CommitPointsSurvive, CommitFiles, CommitsIn
  <2>2. CASE L \in recent
    BY <1>4, <2>1, <2>2, Zenon DEF CommitPointsSurvive
  <2>3. CASE L = names'
    <3>1. g \in CommitsIn(names) /\ Segments(g) # f /\ g \in Gens
      BY <1>10, <2>1, <2>3, Zenon DEF CommitsIn
    <3>2. x \in names /\ x \in synced
      BY <1>4, <2>1, <3>1, Zenon DEF CommitPointsSurvive
    <3>3. x # f
      <4>1. SUFFICES ASSUME f \in CommitFiles(g) PROVE FALSE
        BY <2>1, Zenon
      <4>2. PICK j \in 0 .. i : Segments(g) \in deleting[j]
        BY <1>4, <1>5, <3>1, <4>1, Zenon DEF PointsFirst
      <4>3. j \in Stages /\ (j < i \/ j = i)
        BY <4>2, BoundsAssumption DEF Stages, LastStage
      <4>4. Segments(g) \in deleting[i]
        BY <1>1, <4>2, <4>3, Zenon
      <4>5. Segments(g)[1] = "segments"
        BY Zenon DEF Segments
      <4>6. f[1] = "segments"
        BY <4>4, <4>5, Zenon DEF NextToDelete
      <4>7. PICK k \in Gens : f = Segments(k)
        BY <1>5, <4>6, PointNames, Zenon
      <4> QED BY <3>1, <4>1, <4>7, CommitFilesIs, Zenon
    <3> QED BY <1>6, <2>3, <3>2, <3>3, Zenon
  <2> QED BY <1>6, <2>2, <2>3, Zenon
<1> QED BY <1>13, <1>14, <1>15, <1>16, <1>17, <1>18, <1>19, <1>20, <1>21, <1>22, <1>23, <1>24,
           <1>25, <1>26, Zenon DEF IInv
=============================================================================
