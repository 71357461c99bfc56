------------------------- MODULE IndexCommitsProofs -------------------------
(***************************************************************************)
(* The steps that finish a commit or give one up, and those that open, close *)
(* or lose a writer, keep the invariant of IndexCommitsInv. What follows.  *)
(***************************************************************************)
EXTENDS IndexCommitsSteps

-----------------------------------------------------------------------------
(* Commits the policy gives up *)

\* What the policy gives up: older commits nobody holds a snapshot of.
LEMMA OnCommitIs ==
  ASSUME NEW C \in SUBSET Gens, NEW held
  PROVE  /\ OnCommit(C, held) \in SUBSET C
         /\ \A g \in OnCommit(C, held) : held[g] = 0
         /\ \A g \in OnCommit(C, held) : \E m \in C \ OnCommit(C, held) : g < m
<1>1. CASE C = {}
  <2>1. OnCommit(C, held) = {}
    BY <1>1, Zenon DEF OnCommit
  <2> QED BY <2>1, Zenon
<1>2. CASE C # {}
  <2>1. \A g : g \in OnCommit(C, held) <=> g \in C /\ g # Max(C) /\ held[g] = 0
    BY <1>2, Zenon DEF OnCommit, Deletable
  <2>2. Max(C) \in C /\ \A g \in C : g <= Max(C)
    BY <1>2, MaxGens, Zenon
  <2>3. ASSUME NEW g \in C, g # Max(C) PROVE g < Max(C)
    <3>1. PICK m : m = Max(C)
      BY Zenon
    <3>2. g <= m /\ g # m /\ m \in C
      BY <2>2, <2>3, <3>1, Zenon
    <3>3. g < m
      BY <3>2 DEF Gens
    <3> QED BY <3>1, <3>3, Zenon
  <2> QED BY <2>1, <2>2, <2>3, Zenon
<1> QED BY <1>1, <1>2, Zenon

\* The counts without the commits given up.
LEMMA RefsWithoutIs ==
  ASSUME NEW C \in SUBSET Gens, NEW D \in SUBSET C, NEW r \in [Names -> Nat],
         \A f \in Names : Cardinality(PointsOf(C, f)) <= r[f]
  PROVE  /\ RefsWithout(r, D) \in [Names -> Nat]
         /\ \A f \in Names : /\ RefsWithout(r, D)[f] = r[f] - Cardinality(PointsOf(D, f))
                             /\ Cardinality(PointsOf(D, f)) \in Nat
                             /\ Cardinality(PointsOf(C \ D, f)) \in Nat
                             /\ Cardinality(PointsOf(C, f)) =
                                  Cardinality(PointsOf(C \ D, f)) + Cardinality(PointsOf(D, f))
<1>1. RefsWithout(r, D) = [f \in Names |-> r[f] - Cardinality(PointsOf(D, f))]
  BY Zenon DEF RefsWithout, PointsOf
<1>2. D \in SUBSET Gens /\ C \ D \in SUBSET Gens
  BY Zenon
<1>3. ASSUME NEW f \in Names
      PROVE  /\ Cardinality(PointsOf(D, f)) \in Nat /\ Cardinality(PointsOf(C, f)) \in Nat
             /\ Cardinality(PointsOf(C \ D, f)) \in Nat
             /\ Cardinality(PointsOf(C \ D, f))
                  = Cardinality(PointsOf(C, f)) - Cardinality(PointsOf(D, f))
  <2>1. Cardinality(PointsOf(D, f)) \in Nat
    BY <1>2, PointsCount, Zenon
  <2>2. Cardinality(PointsOf(C \ D, f)) \in Nat
    BY <1>2, PointsCount, Zenon
  <2> QED BY <2>1, <2>2, PointsCount, Zenon
<1>4. ASSUME NEW f \in Names
      PROVE  /\ r[f] - Cardinality(PointsOf(D, f)) \in Nat
             /\ Cardinality(PointsOf(C, f)) =
                  Cardinality(PointsOf(C \ D, f)) + Cardinality(PointsOf(D, f))
  <2>1. r[f] \in Nat /\ Cardinality(PointsOf(C, f)) <= r[f]
    BY Zenon
  <2>2. PICK c, d, e : /\ c = Cardinality(PointsOf(C, f)) /\ d = Cardinality(PointsOf(D, f))
                       /\ e = Cardinality(PointsOf(C \ D, f))
    BY Zenon
  <2>3. c \in Nat /\ d \in Nat /\ e \in Nat /\ e = c - d /\ c <= r[f]
    BY <1>3, <2>1, <2>2, Zenon
  <2>4. r[f] - d \in Nat /\ c = e + d
    BY <2>1, <2>3
  <2> QED BY <2>2, <2>4, Zenon
<1>5. RefsWithout(r, D) \in [Names -> Nat]
  BY <1>1, <1>4, Zenon
<1>6. \A f \in Names : RefsWithout(r, D)[f] = r[f] - Cardinality(PointsOf(D, f))
  BY <1>1, Zenon
<1> QED BY <1>3, <1>4, <1>5, <1>6, Zenon

\* The last of the commits that hold a file.
LEMMA LastHolder ==
  ASSUME NEW D \in SUBSET Gens, NEW f, NEW g \in D, f \in CommitFiles(g)
  PROVE  \E m \in D : f \in CommitFiles(m) /\ \A h \in D : f \in CommitFiles(h) => h <= m
<1>1. PointsOf(D, f) \in SUBSET Gens /\ PointsOf(D, f) # {}
  BY Zenon DEF PointsOf
<1>2. /\ Max(PointsOf(D, f)) \in PointsOf(D, f)
      /\ \A h \in PointsOf(D, f) : h <= Max(PointsOf(D, f))
  BY <1>1, MaxGens, Zenon
<1> QED BY <1>2, Zenon DEF PointsOf

\* The files of a commit point are names.
LEMMA CommitFilesNames ==
  ASSUME TypeOK, NEW g \in Gens
  PROVE  CommitFiles(g) \in SUBSET Names
<1>1. FilesOf(content[g].segs) \in SUBSET Names /\ Segments(g) \in Names
  BY ContentIs, FilesOfIs, NamesAre, Zenon
<1> QED BY <1>1, Zenon DEF CommitFiles

\* The removals of delete_commits, with what goes before and after: which files
\* go, and that a commit point goes before its files.
Removing(D, q, first, last) ==
  /\ \A f : Condemned(f) <=> \/ f \in first \/ f \in last
                             \/ q[f] = 0 /\ \E g \in D : f \in CommitFiles(g)
  /\ \A i \in Stages : \A f \in deleting[i] :
       \/ f \in first \/ f \in last
       \/ q[f] = 0 /\ \A g \in D : f \in CommitFiles(g) /\ q[Segments(g)] = 0
                        => \E j \in 0 .. i : Segments(g) \in deleting[j]

\* delete_commits removes in that order.
LEMMA CommitsGone ==
  ASSUME TypeOK, NEW D \in SUBSET Gens, NEW r, NEW q, q = RefsWithout(r, D),
         NEW first \in SUBSET Names, NEW last \in SUBSET Names,
         deleting' = Removals(first, DeleteCommits(r, D), last), UNCHANGED content
  PROVE  deleting' \in [Stages -> SUBSET Names] /\ Removing(D, q, first, last)'
<1>1. PICK W : W = DeleteCommits(r, D)
  BY Zenon
<1>2. /\ DOMAIN W = D /\ \A g \in D : W[g] \in SUBSET Names
      /\ \A g \in D : \A f : f \in W[g] <=>
           /\ f \in CommitFiles(g) /\ q[f] = 0
           /\ \A h \in D : f \in CommitFiles(h) => h <= g
      /\ \A f : (\E g \in D : f \in W[g]) <=> q[f] = 0 /\ \E g \in D : f \in CommitFiles(g)
  <2>1. DOMAIN W = D
    BY <1>1, Zenon DEF DeleteCommits
  <2>2. \A g \in D : \A f : f \in W[g] <=>
          /\ f \in CommitFiles(g) /\ q[f] = 0
          /\ \A h \in D : f \in CommitFiles(h) => h <= g
    BY <1>1, Zenon DEF DeleteCommits, DeletedWith
  <2>3. \A g \in D : W[g] \in SUBSET Names
    BY <2>2, CommitFilesNames, Zenon
  <2>4. ASSUME NEW f, q[f] = 0, NEW g \in D, f \in CommitFiles(g)
        PROVE  \E m \in D : f \in W[m]
    <3>1. PICK m \in D : f \in CommitFiles(m) /\ \A h \in D : f \in CommitFiles(h) => h <= m
      BY <2>4, LastHolder, Zenon
    <3> QED BY <2>2, <2>4, <3>1, Zenon
  <2>5. \A f : (\E g \in D : f \in W[g]) <=> q[f] = 0 /\ \E g \in D : f \in CommitFiles(g)
    BY <2>2, <2>4, Zenon
  <2> QED BY <2>1, <2>2, <2>3, <2>5, Zenon
<1>3. deleting' = Removals(first, W, last)
  BY <1>1, Zenon
<1>4. deleting' \in [Stages -> SUBSET Names]
  <2>1. \A i \in DOMAIN W : W[i] \in SUBSET Names
    BY <1>2, Zenon
  <2>2. Removals(first, W, last) \in [Stages -> SUBSET Names]
    BY <2>1, RemovalsType, Zenon
  <2> QED BY <1>3, <2>2, Zenon
<1>5. /\ deleting'[0] = first /\ deleting'[LastStage] = last
      /\ \A g \in Gens : deleting'[g] = IF g \in DOMAIN W THEN W[g] ELSE {}
      /\ \A i \in Stages : i = 0 \/ i = LastStage \/ i \in Gens
  <2>1. PICK R : R = Removals(first, W, last)
    BY Zenon
  <2>2. R[0] = first /\ R[LastStage] = last
    BY <2>1, RemovalsAt
  <2>3. \A g \in Gens : R[g] = IF g \in DOMAIN W THEN W[g] ELSE {}
    BY <2>1, RemovalsAt, ZenonT(60)
  <2>4. \A i \in Stages : i = 0 \/ i = LastStage \/ i \in Gens
    BY BoundsAssumption DEF Stages, LastStage, Gens
  <2> QED BY <1>3, <2>1, <2>2, <2>3, <2>4, Zenon
<1>6. \A g \in D : deleting'[g] = W[g] /\ g \in Stages
  BY <1>2, <1>5, StagesAre, Zenon
<1>7. \A i \in Stages : \A f \in deleting'[i] :
        f \in first \/ f \in last \/ (i \in D /\ f \in W[i])
  BY <1>2, <1>5, Zenon
<1>8. \A f : Condemned(f)' <=> \/ f \in first \/ f \in last \/ \E g \in D : f \in W[g]
  BY <1>5, <1>6, <1>7, StagesAre, Zenon DEF Condemned
<1>9. ASSUME NEW i \in Stages, NEW f \in deleting'[i], f \notin first, f \notin last,
             NEW g \in D, f \in CommitFiles(g), q[Segments(g)] = 0
      PROVE  \E j \in 0 .. i : Segments(g) \in deleting'[j]
  <2>1. i \in D /\ f \in W[i]
    BY <1>7, <1>9, Zenon
  <2>2. g <= i
    BY <1>2, <1>9, <2>1, Zenon
  <2>3. g \in 0 .. i
    BY <2>1, <2>2 DEF Gens
  <2>4. Segments(g) \in W[g]
    <3>1. \A h \in D : Segments(g) \in CommitFiles(h) => h <= g
      <4>1. g <= g
        BY DEF Gens
      <4> QED BY <4>1, CommitFilesIs, Zenon
    <3> QED BY <1>2, <1>9, <3>1, CommitFilesIs, Zenon
  <2> QED BY <1>6, <2>3, <2>4, Zenon
<1>10. \A i \in Stages : \A f \in deleting'[i] : f \in first \/ f \in last \/ q[f] = 0
  BY <1>2, <1>7, Zenon
<1>11. \A g : CommitFiles(g)' = CommitFiles(g)
  BY Zenon DEF CommitFiles
<1>12. \A f : Condemned(f)' <=> \/ f \in first \/ f \in last
                                \/ q[f] = 0 /\ \E g \in D : f \in CommitFiles(g)'
  BY <1>2, <1>8, <1>11, Zenon
<1>13. \A i \in Stages : \A f \in deleting'[i] :
         \/ f \in first \/ f \in last
         \/ q[f] = 0 /\ \A g \in D : f \in CommitFiles(g)' /\ q[Segments(g)] = 0
                          => \E j \in 0 .. i : Segments(g) \in deleting'[j]
  BY <1>9, <1>10, <1>11, Zenon
<1> QED BY <1>4, <1>12, <1>13, Zenon DEF Removing

\* What the policy's choice D among the commits C leaves behind.
Pruned(C, D) ==
  /\ \A g \in D : counts[g] = 0 /\ \E m \in C : g < m
  /\ \A g \in Gens : Condemned(Segments(g)) => g \in D
  /\ PointsFirst
  /\ \A g \in C : g \in commits \/ Condemned(Segments(g))
  /\ \A f : Condemned(f) => ~Referenced(f)
  /\ \A f : \A g \in C : f \in CommitFiles(g) => Referenced(f) \/ Condemned(f)

\* The policy has been asked about the commits C: what follows for commit points
\* and their files.  q are the counts without the commits it gave up.
LEMMA GivenUp ==
  ASSUME TypeOK, TypeOK', Counted', Shape', UNCHANGED <<names, content, counts>>,
         NEW C \in SUBSET Gens, NEW D, D = OnCommit(C, counts), commits' = C \ D,
         NEW q, \A f \in Names : q[f] = 0 <=> ~Referenced(f)',
         \A g \in CommitsIn(names) : g \in C,
         NEW first \in SUBSET names,
         \A f \in first : ~Referenced(f)' /\ \A g \in C : f \notin CommitFiles(g),
         NEW last, last = {}, Removing(D, q, first, last)'
  PROVE  Pruned(C, D)'
<1>1. D \in SUBSET C /\ \A g \in D : counts[g] = 0 /\ \E m \in C : g < m
  BY OnCommitIs, Zenon
<1>2. \A g : CommitFiles(g)' = CommitFiles(g)
  BY Zenon DEF CommitFiles
<1>3. \A g \in C : CommitFiles(g) \in SUBSET Names
  BY CommitFilesNames, Zenon
<1>4. \A f : f \notin last
  BY Zenon
<1>5. \A f : Condemned(f)' <=> f \in first \/ (q[f] = 0 /\ \E g \in D : f \in CommitFiles(g))
  BY <1>2, <1>4, Zenon DEF Removing
<1>6. \A i \in Stages : \A f \in deleting'[i] :
         f \in first \/ \A g \in D : f \in CommitFiles(g) /\ q[Segments(g)] = 0
                           => \E j \in 0 .. i : Segments(g) \in deleting'[j]
  BY <1>2, <1>4, Zenon DEF Removing
<1>7. \A f : Condemned(f)' => ~Referenced(f)'
  BY <1>1, <1>3, <1>5, Zenon
<1>8. ASSUME NEW f, NEW g \in C, f \in CommitFiles(g), ~Referenced(f)'
      PROVE  Condemned(f)'
  <2>1. g \notin commits'
    BY <1>2, <1>8, Zenon DEF Referenced
  <2>2. q[f] = 0 /\ g \in D
    BY <1>3, <1>8, <2>1, Zenon
  <2> QED BY <1>8, <1>5, <2>2, Zenon
<1>9. ASSUME NEW g \in Gens, Condemned(Segments(g))' PROVE g \in D
  <2>1. CASE Segments(g) \in first
    <3>1. g \in C
      BY <2>1, Zenon DEF CommitsIn
    <3> QED BY <2>1, <3>1, CommitFilesIs, Zenon
  <2>2. CASE \E h \in D : Segments(g) \in CommitFiles(h)
    BY <2>2, CommitFilesIs, Zenon
  <2> QED BY <1>9, <1>5, <2>1, <2>2, Zenon
<1>10. ASSUME NEW g \in Gens, g \notin commits' PROVE ~Referenced(Segments(g))'
  <2>1. /\ lastFiles' = FilesOf(iw'.infos) /\ ci'.files = FilesOf(ci'.segs)
    BY Zenon DEF Shape
  <2>2. \A S : Segments(g) \notin FilesOf(S)
    BY FilesOfIs, Zenon
  <2>3. \A h \in commits' : Segments(g) \notin CommitFiles(h)
    BY <1>10, CommitFilesIs, Zenon
  <2>4. \A h \in commits' : Segments(g) \notin CommitFiles(h)'
    BY <1>2, <2>3, Zenon
  <2>5. Segments(g) \notin lastFiles' /\ Segments(g) \notin ci'.files
    BY <2>1, <2>2, Zenon
  <2>6. Segments(g) \notin FilesOf(merging'.sources) /\ Segments(g) \notin FilesOf(nrt'.segs)
    BY <2>2, Zenon
  <2>7. Segments(g) \notin FilesOf(merging.sources)' /\ Segments(g) \notin FilesOf(nrt.segs)'
    BY <2>6, Zenon DEF FilesOf
  <2> QED BY <2>4, <2>5, <2>7, Zenon DEF Referenced
<1>11. \A g \in C : g \in commits' \/ Condemned(Segments(g))'
  <2>1. ASSUME NEW g \in C, g \notin commits' PROVE Condemned(Segments(g))'
    <3>1. ~Referenced(Segments(g))' /\ Segments(g) \in CommitFiles(g)
      BY <1>10, <2>1, CommitFilesIs, Zenon
    <3> QED BY <1>8, <3>1, Zenon
  <2> QED BY <2>1, Zenon
<1>12. PointsFirst'
  <2>1. SUFFICES ASSUME NEW i \in Stages, NEW f \in deleting'[i], NEW g \in CommitsIn(names),
                        f \in CommitFiles(g)
                 PROVE  \E j \in 0 .. i : Segments(g) \in deleting'[j]
    BY <1>2, Zenon DEF PointsFirst, CommitsIn
  <2>2. Condemned(f)'
    BY Zenon DEF Condemned
  <2>3. g \in C /\ ~Referenced(f)'
    BY <1>7, <2>2, Zenon
  <2>4. g \notin commits'
    BY <1>2, <2>1, <2>3, Zenon DEF Referenced
  <2>5. g \in D /\ f \notin first
    BY <2>1, <2>3, <2>4, Zenon
  <2>6. q[Segments(g)] = 0
    BY <1>10, <2>3, <2>4, NamesAre, Zenon
  <2> QED BY <1>6, <2>1, <2>5, <2>6, Zenon
<1>13. \A f : \A g \in C : f \in CommitFiles(g)' => Referenced(f)' \/ Condemned(f)'
  BY <1>2, <1>8, Zenon
<1>14. \A g \in D : counts'[g] = 0 /\ \E m \in C : g < m
  BY <1>1, Zenon
<1> QED BY <1>7, <1>9, <1>11, <1>12, <1>13, <1>14, Zenon DEF Pruned

\* The commits the policy gave up are older than the acknowledged one: what
\* follows for it, for snapshots and for readers.
LEMMA OldGivenUp ==
  ASSUME IInv, TypeOK', UNCHANGED <<names, content, counts, fails, dr>>,
         recent' \subseteq recent,
         NEW C \in SUBSET Gens, NEW D \in SUBSET C,
         Pruned(C, D)', \A g \in C : g <= acked'
  PROVE  /\ SnapshotsDurable' /\ ReaderAhead'
         /\ acked' # 0 => ~Condemned(Segments(acked))'
<1>0. /\ \A g \in D : counts[g] = 0 /\ \E m \in C : g < m
      /\ \A g \in Gens : Condemned(Segments(g))' => g \in D
  BY Zenon DEF Pruned
<1>1. ASSUME NEW g \in Gens, Condemned(Segments(g))' PROVE g < acked'
  <2>1. PICK m \in C : g < m
    BY <1>0, <1>1, Zenon
  <2>2. m <= acked'
    BY Zenon
  <2>3. acked' \in Nat /\ m \in Nat /\ g \in Nat
    BY DEF TypeOK, Gens
  <2> QED BY <2>1, <2>2, <2>3
<1>2. acked' # 0 => ~Condemned(Segments(acked))'
  <2>1. SUFFICES ASSUME acked' # 0, Condemned(Segments(acked))' PROVE FALSE
    BY Zenon
  <2>2. PICK a : a = acked'
    BY Zenon
  <2>3. Condemned(Segments(a))'
    BY <2>1, <2>2, Zenon DEF Condemned
  <2>4. a \in Gens
    BY <2>1, <2>2 DEF TypeOK, Gens
  <2>5. a < a
    BY <1>1, <2>2, <2>3, <2>4, Zenon
  <2> QED BY <2>4, <2>5 DEF Gens
<1>3. SnapshotsDurable'
  <2>1. ASSUME NEW g \in Gens, counts[g] > 0
        PROVE  ~Condemned(Segments(g))' /\ \A L \in recent' : Segments(g) \in L
    <3>1. \A L \in recent : Segments(g) \in L
      BY <2>1, Zenon DEF IInv, SnapshotsDurable
    <3>2. counts[g] # 0
      BY <2>1
    <3> QED BY <1>0, <3>1, <3>2, Zenon
  <2> QED BY <2>1, Zenon DEF SnapshotsDurable
<1>4. ReaderAhead'
  BY <1>1, Zenon DEF IInv, ReaderAhead, CommitsIn
<1> QED BY <1>2, <1>3, <1>4, Zenon

\* delete_unused_files keeps the invariant.
LEMMA DeleteUnusedFilesStep ==
  ASSUME IInv, DeleteUnusedFiles
  PROVE  IInv'
<1>0. PICK C, D, none : C = commits /\ D = OnCommit(C, counts) /\ none = {}
  BY Zenon
<1>1. /\ Writing /\ commits' = C \ D /\ refs' = RefsWithout(refs, D)
      /\ deleting' = Removals(none, DeleteCommits(refs, D), none)
      /\ UNCHANGED <<names, recent, synced, content, iw, flushing, merging, lastFiles, orphans,
                     ci, counts, lastCommit, nrt, dr, acked, crashes, fails>>
  BY <1>0, Zenon DEF DeleteUnusedFiles, disk, policy, history
<1>2. /\ TypeOK /\ Shape /\ Counted /\ Fresh /\ ReferencedLive /\ NamesTaken
      /\ CommitInProgress /\ Owned /\ AckedKept /\ PointsKnown /\ SnapshotsDurable
  BY Zenon DEF IInv
<1>3. /\ iw.open /\ \A f : ~Condemned(f)
      /\ ci.phase # "writing" /\ ci.phase # "renamed"
      /\ \A g \in CommitsIn(names) : g \in commits /\ g <= acked
  BY <1>1, LockFree, Zenon
<1>4. C \in SUBSET Gens /\ D \in SUBSET C /\ D \in SUBSET Gens
  <2>1. C \in SUBSET Gens
    BY <1>0, <1>2, Zenon DEF TypeOK
  <2>2. D \in SUBSET C
    BY <1>0, <2>1, OnCommitIs, Zenon
  <2> QED BY <2>1, <2>2, Zenon
<1>5. PICK q : q = RefsWithout(refs, D)
  BY Zenon
<1>6. /\ q \in [Names -> Nat]
      /\ \A f \in Names : /\ q[f] = refs[f] - Cardinality(PointsOf(D, f))
                          /\ Cardinality(PointsOf(C, f)) =
                               Cardinality(PointsOf(C \ D, f)) + Cardinality(PointsOf(D, f))
                          /\ Cardinality(PointsOf(D, f)) \in Nat
                          /\ Cardinality(PointsOf(C \ D, f)) \in Nat
  <2>1. refs \in [Names -> Nat]
    BY <1>2, Zenon DEF TypeOK
  <2>2. \A f \in Names : Cardinality(PointsOf(C, f)) <= refs[f]
    BY <1>0, <1>2, CountParts
  <2>3. q \in [Names -> Nat]
    BY <1>4, <1>5, <2>1, <2>2, RefsWithoutIs, Zenon
  <2>4. ASSUME NEW f \in Names
        PROVE  /\ q[f] = refs[f] - Cardinality(PointsOf(D, f))
               /\ Cardinality(PointsOf(C, f)) =
                    Cardinality(PointsOf(C \ D, f)) + Cardinality(PointsOf(D, f))
               /\ Cardinality(PointsOf(D, f)) \in Nat
               /\ Cardinality(PointsOf(C \ D, f)) \in Nat
    BY <1>4, <1>5, <2>1, <2>2, RefsWithoutIs, Zenon
  <2> QED BY <2>3, <2>4, Zenon
<1>7. deleting' \in [Stages -> SUBSET Names] /\ Removing(D, q, none, none)'
  <2>1. none \in SUBSET Names
    BY <1>0, Zenon
  <2> QED BY <1>1, <1>2, <1>4, <1>5, <2>1, CommitsGone, Zenon
<1>8. TypeOK'
  <2>1. commits' \in SUBSET Gens /\ refs' \in [Names -> Nat]
    BY <1>1, <1>4, <1>5, <1>6, Zenon
  <2> QED BY <1>1, <1>2, <1>7, <2>1, Zenon DEF TypeOK
<1>9. Counted'
  <2>1. ASSUME NEW f \in Names PROVE refs'[f] = Holders(f)'
    <3>1. Holders(f)' = Cardinality(PointsOf(C \ D, f)) + Held(f, lastFiles)
                      + Held(f, ci.files) + Held(f, FilesOf(merging.sources))
                      + Held(f, FilesOf(nrt.segs))
      BY <1>1, Zenon DEF Holders, PointsOf, CommitFiles
    <3>2. refs'[f] = refs[f] - Cardinality(PointsOf(D, f))
      BY <1>1, <1>5, <1>6, Zenon
    <3>3. PICK c, d, e : /\ c = Cardinality(PointsOf(C, f)) /\ d = Cardinality(PointsOf(D, f))
                         /\ e = Cardinality(PointsOf(C \ D, f))
      BY Zenon
    <3>4. c = e + d /\ d \in Nat /\ e \in Nat
      BY <1>6, <3>3, Zenon
    <3>5. /\ refs[f] = c + Held(f, lastFiles) + Held(f, ci.files)
                         + Held(f, FilesOf(merging.sources)) + Held(f, FilesOf(nrt.segs))
          /\ Held(f, lastFiles) \in {0, 1} /\ Held(f, ci.files) \in {0, 1}
          /\ Held(f, FilesOf(merging.sources)) \in {0, 1}
          /\ Held(f, FilesOf(nrt.segs)) \in {0, 1}
      BY <1>0, <1>2, <3>3, CountParts, Zenon
    <3>6. refs[f] - d = e + Held(f, lastFiles) + Held(f, ci.files)
                         + Held(f, FilesOf(merging.sources)) + Held(f, FilesOf(nrt.segs))
      BY <3>4, <3>5
    <3> QED BY <3>1, <3>2, <3>3, <3>6, Zenon
  <2> QED BY <2>1, Zenon DEF Counted
<1>10. Shape'
  BY <1>1, <1>2, <1>3, Zenon DEF Shape
<1>11. \A f \in Names : q[f] = 0 <=> ~Referenced(f)'
  BY <1>1, <1>5, <1>8, <1>9, ReferencedCountsNext, Zenon
<1>12. Pruned(C, D)'
  <2>1. none \in SUBSET names /\ \A f : f \notin none
    BY <1>0, Zenon
  <2>2. \A g \in CommitsIn(names) : g \in C
    BY <1>0, <1>3, Zenon
  <2> QED BY <1>0, <1>1, <1>2, <1>4, <1>7, <1>8, <1>9, <1>10, <1>11, <2>1, <2>2, GivenUp, Zenon
<1>13. \A g \in C : g <= acked'
  BY <1>0, <1>1, <1>2, <1>3, Zenon DEF AckedKept
<1>14. SnapshotsDurable' /\ ReaderAhead' /\ (acked' # 0 => ~Condemned(Segments(acked))')
  <2>1. recent' \subseteq recent
    BY <1>1, Zenon
  <2> QED BY <1>1, <1>4, <1>8, <1>12, <1>13, <2>1, OldGivenUp, Zenon
<1>15. \A f : Referenced(f)' => Referenced(f)
  BY <1>0, <1>1, Zenon DEF Referenced, CommitFiles
<1>16. \A f : Referenced(f) => Referenced(f)' \/ Condemned(f)'
  <2>1. ASSUME NEW f, Referenced(f), ~Referenced(f)' PROVE \E g \in C : f \in CommitFiles(g)
    BY <1>0, <1>1, <2>1, Zenon DEF Referenced, CommitFiles
  <2>2. \A f : \A g \in C : f \in CommitFiles(g)' => Referenced(f)' \/ Condemned(f)'
    BY <1>12, Zenon DEF Pruned
  <2>3. \A g : CommitFiles(g)' = CommitFiles(g)
    BY <1>1, Zenon DEF CommitFiles
  <2> QED BY <2>1, <2>2, <2>3, Zenon
<1>17. ReferencedLive'
  <2>1. ASSUME NEW f \in Names, refs'[f] > 0 PROVE f \in names' /\ ~Condemned(f)'
    <3>1. Referenced(f)' /\ Referenced(f)
      BY <1>8, <1>9, <1>15, <2>1, ReferencedCountsNext, Zenon
    <3>2. f \in names
      BY <1>2, <3>1, ReferencedCounts, Zenon DEF ReferencedLive
    <3> QED BY <1>1, <1>12, <3>1, <3>2, Zenon DEF Pruned
  <2> QED BY <2>1, Zenon DEF ReferencedLive
<1>18. PointsKnown'
  BY <1>0, <1>1, <1>3, <1>12, Zenon DEF PointsKnown, CommitsIn, Pruned
<1>19. AckedKept'
  <2>1. /\ acked # 0 => \A L \in recent : Segments(acked) \in L
        /\ lastCommit = acked /\ iw.lastGen = acked /\ acked <= iw.gen
    BY <1>2, <1>3, Zenon DEF AckedKept
  <2>2. \A g \in commits' : g <= acked'
    BY <1>1, <1>13, Zenon
  <2>3. \A g \in CommitsIn(names)' : g <= acked'
    BY <1>1, <1>3, Zenon DEF CommitsIn
  <2> QED BY <1>1, <1>14, <2>1, <2>2, <2>3, Zenon DEF AckedKept
<1>20. Fresh'
  <2>1. ASSUME NEW m \in Segs, InFlight(m)
        PROVE  SegFile(m) \in names /\ ~Condemned(SegFile(m))' /\ refs'[SegFile(m)] = 0
    <3>1. SegFile(m) \in names /\ SegFile(m) \in Names /\ ~Referenced(SegFile(m))
      BY <1>2, <2>1, NamesAre, ReferencedCounts, Zenon DEF Fresh
    <3>2. refs'[SegFile(m)] = 0
      BY <1>8, <1>9, <1>15, <3>1, ReferencedCountsNext, Zenon
    <3>3. ~Condemned(SegFile(m))'
      <4>1. \A g \in D : SegFile(m) \notin CommitFiles(g)'
        BY <1>0, <1>1, <1>4, <3>1, Zenon DEF Referenced, CommitFiles
      <4>2. \A f : f \notin none
        BY <1>0, Zenon
      <4> QED BY <1>7, <4>1, <4>2, Zenon DEF Removing
    <3> QED BY <3>1, <3>2, <3>3, Zenon
  <2> QED BY <1>1, <1>2, <2>1, Zenon DEF Fresh, InFlight
<1>21. Owned'
  <2>1. ASSUME NEW f \in names, refs[f] > 0 PROVE refs'[f] > 0 \/ Condemned(f)'
    <3>1. f \in Names
      BY <1>2, Zenon DEF TypeOK
    <3> QED BY <1>2, <1>8, <1>9, <1>16, <2>1, <3>1, ReferencedCounts, ReferencedCountsNext, Zenon
  <2> QED BY <1>1, <1>2, <1>3, <2>1, Zenon DEF Owned, InFlight
<1>22. NamesTaken' /\ CommitInProgress' /\ ChangesCounted' /\ CommitPointsSurvive'
  BY <1>1, NamesTakenKept, CommitInProgressKept, ChangesCountedKept, PointsSurviveKept,
     Zenon DEF IInv
<1>23. PointsFirst'
  BY <1>12, Zenon DEF Pruned
<1> QED BY <1>8, <1>9, <1>10, <1>14, <1>17, <1>18, <1>19, <1>20, <1>21, <1>22, <1>23,
           Zenon DEF IInv

\* finish_commit keeps the invariant.
LEMMA FinishCommitStep ==
  ASSUME IInv, FinishCommit
  PROVE  IInv'
<1>0. PICK h, F, C, D, r, q, none : /\ h = ci.gen /\ F = ci.files /\ none = {}
                                    /\ C = commits \union {h} /\ D = OnCommit(C, counts)
                                    /\ r = IncRef(refs, CommitFiles(h)) /\ q = RefsWithout(r, D)
  BY Zenon
<1>1. /\ ci.phase = "renamed" /\ recent' = {names} /\ commits' = C \ D
      /\ refs' = DecRef(q, F)
      /\ deleting' = Removals(none, DeleteCommits(r, D), Dropped(refs', F))
      /\ ci' = IdleCommit /\ lastCommit' = h /\ acked' = h
      /\ iw' = [iw EXCEPT !.gen = h, !.lastGen = h, !.lastCommitCC = ci.cc, !.rollback = ci.segs]
      /\ UNCHANGED <<names, synced, content, flushing, merging, lastFiles, orphans, counts, nrt,
                     dr, crashes, fails>>
  BY <1>0, Zenon DEF FinishCommit, SyncedListing, EndCommit, CommittedRefs
<1>2. /\ TypeOK /\ Shape /\ Counted /\ Fresh /\ ReferencedLive /\ NamesTaken
      /\ CommitInProgress /\ Owned /\ AckedKept /\ PointsKnown /\ SnapshotsDurable
  BY Zenon DEF IInv
<1>3. iw.open /\ \A f : ~Condemned(f)
  <2>1. deleting = NoRemovals
    BY <1>1, <1>2, Zenon DEF Shape
  <2>2. ci.phase # "idle"
    BY <1>1, Zenon
  <2> QED BY <1>2, <2>1, <2>2, NoneCondemned, Fields, Zenon DEF Shape
<1>4. /\ h = iw.gen /\ h \in Gens /\ acked < h /\ counts[h] = 0
      /\ content[h].segs = ci.segs /\ Segments(h) \in names
  BY <1>0, <1>1, <1>2, Zenon DEF CommitInProgress, Written
<1>5. /\ \A g \in commits : g <= h /\ g # h
      /\ acked <= h /\ h <= h /\ h \in Nat /\ h # 0
  <2>1. acked \in Nat /\ h \in Nat /\ h # 0
    BY <1>2, <1>4 DEF TypeOK, Gens
  <2>2. \A g \in commits : g \in Nat /\ g <= acked
    BY <1>2, <1>3 DEF TypeOK, AckedKept, Gens
  <2> QED BY <1>4, <2>1, <2>2
<1>6. /\ ci' \in CommitRecord /\ ci'.phase = "idle" /\ ci'.segs = {} /\ ci'.files = {}
      /\ ci'.phase \notin {"await", "start", "prepared", "renamed"}
      /\ ci'.phase \notin {"writing", "sync", "synced", "failed"}
      /\ ci'.phase \notin {"writing", "renamed"}
      /\ ci'.phase \notin Written
  BY <1>1, <1>2, BoundsAssumption DEF CommitRecord, IdleCommit, Phases, Written, TypeOK
<1>7. /\ iw' \in WriterRecord /\ iw'.open = iw.open /\ iw'.infos = iw.infos
      /\ iw'.gen = iw.gen /\ iw'.lastGen = h /\ iw'.lastCommitCC = ci.cc
      /\ iw'.changeCount = iw.changeCount /\ iw'.counter = iw.counter
  <2>1. /\ iw \in WriterRecord /\ ci.cc \in Nat /\ ci.segs \in SUBSET Segs /\ h \in 0 .. MaxGen
    BY <1>2, <1>4, Fields, Zenon DEF TypeOK, Gens
  <2> QED BY <1>1, <1>4, <2>1, Zenon DEF WriterRecord
<1>8. C \in SUBSET Gens /\ D \in SUBSET C /\ D \in SUBSET Gens /\ \A g \in C : g <= h
  <2>1. C \in SUBSET Gens /\ \A g \in C : g <= h
    BY <1>0, <1>2, <1>4, <1>5, Zenon DEF TypeOK
  <2>2. D \in SUBSET C
    BY <1>0, <2>1, OnCommitIs, Zenon
  <2> QED BY <2>1, <2>2, Zenon
<1>9. h \in C /\ h \notin D /\ D \in SUBSET commits
  <2>1. h \in C
    BY <1>0, Zenon
  <2>2. h \notin D
    <3>1. SUFFICES ASSUME h \in D PROVE FALSE
      BY Zenon
    <3>2. PICK m \in C : h < m
      BY <1>0, <1>8, <3>1, OnCommitIs, Zenon
    <3>3. m <= h /\ m \in Nat
      BY <1>8, <3>2 DEF Gens
    <3> QED BY <1>5, <3>2, <3>3
  <2> QED BY <1>0, <1>8, <2>1, <2>2, Zenon
<1>10. F \in SUBSET Names /\ F = FilesOf(ci.segs) /\ \A f \in F : f \in CommitFiles(h)
  <2>1. F \in SUBSET Names /\ F = FilesOf(ci.segs)
    BY <1>0, <1>2, Fields, Zenon DEF Shape
  <2> QED BY <1>4, <2>1, Zenon DEF CommitFiles
<1>11. /\ r \in [Names -> Nat]
       /\ \A f \in Names : r[f] = refs[f] + Held(f, CommitFiles(h))
  <2>1. refs \in [Names -> Nat]
    BY <1>2, Zenon DEF TypeOK
  <2> QED BY <1>0, <2>1, IncRefIs, Zenon
<1>12. \A f \in Names : /\ Cardinality(PointsOf(C, f))
                             = Cardinality(PointsOf(commits, f)) + Held(f, CommitFiles(h))
                        /\ Cardinality(PointsOf(C, f)) <= r[f]
  <2>1. ASSUME NEW f \in Names
        PROVE  /\ Cardinality(PointsOf(C, f))
                    = Cardinality(PointsOf(commits, f)) + Held(f, CommitFiles(h))
               /\ Cardinality(PointsOf(C, f)) <= r[f]
    <3>1. PICK c, d : c = Cardinality(PointsOf(commits, f)) /\ d = Cardinality(PointsOf(C, f))
      BY Zenon
    <3>2. commits \in SUBSET Gens /\ h \in Gens \ commits
      BY <1>2, <1>4, <1>5, Zenon DEF TypeOK
    <3>3. d = c + Held(f, CommitFiles(h)) /\ c \in Nat
      BY <1>0, <3>1, <3>2, PointsCount, Zenon
    <3>4. /\ refs[f] = c + Held(f, lastFiles) + Held(f, ci.files)
                         + Held(f, FilesOf(merging.sources)) + Held(f, FilesOf(nrt.segs))
          /\ Held(f, lastFiles) \in {0, 1} /\ Held(f, ci.files) \in {0, 1}
          /\ Held(f, FilesOf(merging.sources)) \in {0, 1}
          /\ Held(f, FilesOf(nrt.segs)) \in {0, 1}
      BY <1>2, <3>1, CountParts, Zenon
    <3>5. Held(f, CommitFiles(h)) \in {0, 1}
      BY HeldIs, Zenon
    <3>6. r[f] = refs[f] + Held(f, CommitFiles(h))
      BY <1>11, Zenon
    <3>7. d <= r[f]
      BY <3>3, <3>4, <3>5, <3>6
    <3> QED BY <3>1, <3>3, <3>7, Zenon
  <2> QED BY <2>1, Zenon
<1>13. q \in [Names -> Nat]
  BY <1>0, <1>8, <1>11, <1>12, RefsWithoutIs, Zenon
<1>14. \A f \in Names :
         /\ q[f] = Cardinality(PointsOf(C \ D, f)) + Held(f, lastFiles) + Held(f, F)
                     + Held(f, FilesOf(merging.sources)) + Held(f, FilesOf(nrt.segs))
         /\ Held(f, F) <= q[f] /\ Held(f, F) \in {0, 1}
         /\ refs'[f] = Cardinality(PointsOf(C \ D, f)) + Held(f, lastFiles)
                     + Held(f, FilesOf(merging.sources)) + Held(f, FilesOf(nrt.segs))
  <2>1. ASSUME NEW f \in Names
        PROVE  /\ q[f] = Cardinality(PointsOf(C \ D, f)) + Held(f, lastFiles) + Held(f, F)
                           + Held(f, FilesOf(merging.sources)) + Held(f, FilesOf(nrt.segs))
               /\ Held(f, F) <= q[f] /\ Held(f, F) \in {0, 1}
               /\ refs'[f] = Cardinality(PointsOf(C \ D, f)) + Held(f, lastFiles)
                           + Held(f, FilesOf(merging.sources)) + Held(f, FilesOf(nrt.segs))
    <3>1. PICK b, c, d, e : /\ b = Cardinality(PointsOf(commits, f))
                            /\ c = Cardinality(PointsOf(C, f))
                            /\ d = Cardinality(PointsOf(D, f))
                            /\ e = Cardinality(PointsOf(C \ D, f))
      BY Zenon
    <3>2. q[f] = r[f] - d /\ c = e + d /\ d \in Nat /\ e \in Nat
      <4>1. \A k \in Names : Cardinality(PointsOf(C, k)) <= r[k]
        BY <1>12, Zenon
      <4>2. q[f] = r[f] - Cardinality(PointsOf(D, f))
        BY <1>0, <1>8, <1>11, <4>1, RefsWithoutIs, ZenonT(60)
      <4>3. /\ Cardinality(PointsOf(C, f)) =
                 Cardinality(PointsOf(C \ D, f)) + Cardinality(PointsOf(D, f))
            /\ Cardinality(PointsOf(D, f)) \in Nat
            /\ Cardinality(PointsOf(C \ D, f)) \in Nat
        BY <1>8, <1>11, <4>1, RefsWithoutIs, Zenon
      <4> QED BY <3>1, <4>2, <4>3, Zenon
    <3>3. /\ refs[f] = b + Held(f, lastFiles) + Held(f, F)
                         + Held(f, FilesOf(merging.sources)) + Held(f, FilesOf(nrt.segs))
          /\ Held(f, lastFiles) \in {0, 1} /\ Held(f, F) \in {0, 1}
          /\ Held(f, FilesOf(merging.sources)) \in {0, 1}
          /\ Held(f, FilesOf(nrt.segs)) \in {0, 1} /\ b \in Nat
      BY <1>0, <1>2, <3>1, CountParts, Zenon
    <3>4. /\ r[f] = refs[f] + Held(f, CommitFiles(h)) /\ c = b + Held(f, CommitFiles(h))
          /\ Held(f, CommitFiles(h)) \in {0, 1}
      BY <1>11, <1>12, <3>1, HeldIs, Zenon
    <3>5. /\ q[f] = e + Held(f, lastFiles) + Held(f, F)
                      + Held(f, FilesOf(merging.sources)) + Held(f, FilesOf(nrt.segs))
          /\ Held(f, F) <= q[f]
      BY <3>2, <3>3, <3>4
    <3>6. refs'[f] = q[f] - Held(f, F)
      BY <1>1, <1>13, <3>5, DecRefIs, Zenon
    <3>7. refs'[f] = e + Held(f, lastFiles)
                      + Held(f, FilesOf(merging.sources)) + Held(f, FilesOf(nrt.segs))
      BY <3>2, <3>3, <3>5, <3>6
    <3> QED BY <3>1, <3>3, <3>5, <3>7, Zenon
  <2> QED BY <2>1, Zenon
<1>15. Counted'
  <2>1. ASSUME NEW f \in Names PROVE refs'[f] = Holders(f)'
    <3>1. PICK e : e = Cardinality(PointsOf(C \ D, f))
      BY Zenon
    <3>2. Holders(f)' = e + Held(f, lastFiles)
                      + Held(f, {}) + Held(f, FilesOf(merging.sources))
                      + Held(f, FilesOf(nrt.segs))
      BY <1>1, <1>6, <3>1, Zenon DEF Holders, PointsOf, CommitFiles
    <3>3. Held(f, {}) = 0
      BY Zenon DEF Held
    <3>4. refs'[f] = e + Held(f, lastFiles)
                     + Held(f, FilesOf(merging.sources)) + Held(f, FilesOf(nrt.segs))
      BY <1>14, <3>1, Zenon
    <3>5. e \in Nat /\ Held(f, lastFiles) \in {0, 1}
      BY <1>8, <3>1, PointsCount, HeldIs, Zenon
    <3> QED BY <3>2, <3>3, <3>4, <3>5
  <2> QED BY <2>1, Zenon DEF Counted

<1>16. PICK last : last = Dropped(refs', F)
  BY Zenon
<1>17. /\ deleting' \in [Stages -> SUBSET Names] /\ Removing(D, q, none, last)'
       /\ \A f : f \in last => f \in F /\ refs'[f] = 0
  <2>1. none \in SUBSET Names
    BY <1>0, Zenon
  <2>2. last \in SUBSET Names /\ \A f : f \in last => f \in F /\ refs'[f] = 0
    BY <1>10, <1>16, Zenon DEF Dropped
  <2>3. deleting' = Removals(none, DeleteCommits(r, D), last) /\ UNCHANGED content
    BY <1>1, <1>16, Zenon
  <2> QED BY <1>0, <1>2, <1>8, <2>1, <2>2, <2>3, CommitsGone, Zenon
<1>18. TypeOK'
  <2>1. commits' \in SUBSET Gens
    BY <1>1, <1>8, Zenon
  <2>2. refs' \in [Names -> Nat]
    BY <1>1, <1>13, DecRefIs, Zenon
  <2>3. recent' \in SUBSET (SUBSET Names)
    BY <1>1, <1>2, Zenon DEF TypeOK
  <2>4. h \in 0 .. MaxGen
    BY <1>4 DEF Gens
  <2> QED BY <1>1, <1>2, <1>6, <1>7, <1>17, <2>1, <2>2, <2>3, <2>4, Zenon DEF TypeOK
<1>19. \A f \in CommitFiles(h) : Referenced(f)'
  BY <1>1, <1>9, Zenon DEF Referenced, CommitFiles
<1>20. last = {}
  <2>1. ASSUME NEW f \in last PROVE FALSE
    <3>1. f \in Names /\ f \in CommitFiles(h) /\ refs'[f] = 0
      BY <1>10, <1>17, Zenon
    <3> QED BY <1>15, <1>18, <1>19, <3>1, ReferencedCountsNext, Zenon
  <2> QED BY <2>1, Zenon
<1>21. \A f \in Names : q[f] = 0 <=> ~Referenced(f)'
  <2>1. ASSUME NEW f \in Names PROVE q[f] = 0 <=> ~Referenced(f)'
    <3>1. /\ refs'[f] \in Nat /\ (refs'[f] = 0 <=> ~Referenced(f)')
      BY <1>15, <1>18, ReferencedCountsNext, Zenon
    <3>2. q[f] = refs'[f] + Held(f, F)
      <4>1. PICK e : e = Cardinality(PointsOf(C \ D, f))
        BY Zenon
      <4>2. e \in Nat /\ \A G : Held(f, G) \in {0, 1}
        BY <1>8, <4>1, PointsCount, HeldIs, Zenon
      <4>3. /\ q[f] = e + Held(f, lastFiles) + Held(f, F)
                        + Held(f, FilesOf(merging.sources)) + Held(f, FilesOf(nrt.segs))
            /\ refs'[f] = e + Held(f, lastFiles)
                        + Held(f, FilesOf(merging.sources)) + Held(f, FilesOf(nrt.segs))
        BY <1>14, <4>1, Zenon
      <4>4. /\ Held(f, F) \in {0, 1} /\ Held(f, lastFiles) \in {0, 1}
            /\ Held(f, FilesOf(merging.sources)) \in {0, 1}
            /\ Held(f, FilesOf(nrt.segs)) \in {0, 1}
        BY <4>2, Zenon
      <4> QED BY <4>2, <4>3, <4>4
    <3>3. CASE f \in F
      <4>1. Held(f, F) = 1 /\ Referenced(f)'
        BY <1>10, <1>19, <3>3, HeldIs, Zenon
      <4>2. q[f] # 0
        BY <3>1, <3>2, <4>1
      <4> QED BY <4>1, <4>2, Zenon
    <3>4. CASE f \notin F
      <4>1. Held(f, F) = 0
        BY <3>4, Zenon DEF Held
      <4>2. q[f] = refs'[f]
        BY <3>1, <3>2, <4>1
      <4> QED BY <3>1, <4>2, Zenon
    <3> QED BY <3>3, <3>4, Zenon
  <2> QED BY <2>1, Zenon
<1>22. Shape'
  <2>1. ci'.files = FilesOf(ci'.segs)
    BY <1>6, FilesOfIs, Zenon
  <2>2. names' \in recent'
    BY <1>1, Zenon
  <2> QED BY <1>1, <1>2, <1>3, <1>6, <1>7, <2>1, <2>2, Zenon DEF Shape, IdleCommit
<1>23. \A g \in CommitsIn(names) : g \in C
  <2>1. ASSUME NEW g \in CommitsIn(names) PROVE g \in commits \/ g = h
    BY <1>0, <1>2, <1>3, Zenon DEF PointsKnown, Renamed
  <2> QED BY <1>0, <2>1, Zenon
<1>24. Pruned(C, D)'
  <2>1. none \in SUBSET names /\ \A f : f \notin none
    BY <1>0, Zenon
  <2> QED BY <1>0, <1>1, <1>2, <1>8, <1>15, <1>17, <1>18, <1>20, <1>21, <1>22, <1>23, <2>1,
             GivenUp, Zenon
<1>25. SnapshotsDurable' /\ ReaderAhead' /\ (acked' # 0 => ~Condemned(Segments(acked))')
  <2>1. recent' \subseteq recent
    BY <1>1, <1>2, Zenon DEF Shape
  <2>2. \A g \in C : g <= acked'
    BY <1>1, <1>8, Zenon
  <2> QED BY <1>1, <1>8, <1>18, <1>24, <2>1, <2>2, OldGivenUp, Zenon
<1>26. \A f : Referenced(f)' => Referenced(f) \/ f = Segments(h)
  <2>1. ASSUME NEW f, Referenced(f)' PROVE Referenced(f) \/ f = Segments(h)
    <3>1. f \notin ci'.files
      BY <1>6, Zenon
    <3>2. f \in CommitFiles(h) => f \in ci.files \/ f = Segments(h)
      BY <1>0, <1>4, <1>10, Zenon DEF CommitFiles
    <3> QED BY <1>0, <1>1, <2>1, <3>1, <3>2, Zenon DEF Referenced, CommitFiles
  <2> QED BY <2>1, Zenon
<1>27. \A f : Referenced(f) => Referenced(f)' \/ Condemned(f)'
  <2>1. ASSUME NEW f, Referenced(f), ~Referenced(f)' PROVE \E g \in C : f \in CommitFiles(g)
    <3>1. f \in ci.files => f \in CommitFiles(h)
      BY <1>0, <1>10, Zenon
    <3> QED BY <1>0, <1>1, <2>1, <3>1, Zenon DEF Referenced, CommitFiles
  <2>2. \A f : \A g \in C : f \in CommitFiles(g)' => Referenced(f)' \/ Condemned(f)'
    BY <1>24, Zenon DEF Pruned
  <2>3. \A g : CommitFiles(g)' = CommitFiles(g)
    BY <1>1, Zenon DEF CommitFiles
  <2> QED BY <2>1, <2>2, <2>3, Zenon
<1>28. ReferencedLive'
  <2>1. ASSUME NEW f \in Names, refs'[f] > 0 PROVE f \in names' /\ ~Condemned(f)'
    <3>1. Referenced(f)' /\ (Referenced(f) \/ f = Segments(h))
      BY <1>15, <1>18, <1>26, <2>1, ReferencedCountsNext, Zenon
    <3>2. f \in names
      BY <1>2, <1>4, <3>1, ReferencedCounts, Zenon DEF ReferencedLive
    <3> QED BY <1>1, <1>24, <3>1, <3>2, Zenon DEF Pruned
  <2> QED BY <2>1, Zenon DEF ReferencedLive
<1>29. PointsKnown'
  BY <1>1, <1>23, <1>24, Zenon DEF PointsKnown, CommitsIn, Pruned
<1>30. AckedKept'
  <2>1. \A L \in recent' : Segments(acked)' \in L
    BY <1>1, <1>4, Zenon DEF Segments
  <2>2. \A g \in commits' : g <= acked'
    BY <1>1, <1>8, Zenon
  <2>3. \A g \in CommitsIn(names)' : g <= acked'
    BY <1>1, <1>8, <1>23, Zenon DEF CommitsIn
  <2>4. acked' <= iw'.gen
    BY <1>1, <1>4, <1>5, <1>7, Zenon
  <2> QED BY <1>1, <1>7, <1>25, <2>1, <2>2, <2>3, <2>4, Zenon DEF AckedKept
<1>31. NamesTaken'
  <2>1. h <= iw.gen
    BY <1>4, <1>5, Zenon
  <2> QED BY <1>0, <1>1, <1>2, <1>3, <1>7, <2>1, Zenon DEF NamesTaken
<1>32. CommitInProgress'
  BY <1>6, Zenon DEF CommitInProgress
<1>33. ChangesCounted'
  <2>1. ci.phase # "idle"
    BY <1>1, Zenon
  <2>2. ci.cc <= iw.changeCount /\ (ci.cc = iw.changeCount => ci.segs = iw.infos)
    BY <2>1, Zenon DEF IInv, ChangesCounted
  <2>3. iw'.changeCount = iw'.lastCommitCC =>
          iw'.lastGen # 0 /\ iw'.infos = content'[iw'.lastGen].segs
    BY <1>1, <1>4, <1>5, <1>7, <2>2, Zenon
  <2>4. iw'.lastCommitCC <= iw'.changeCount
    BY <1>7, <2>2, Zenon
  <2> QED BY <1>6, <2>3, <2>4, Zenon DEF ChangesCounted
<1>34. Fresh'
  <2>1. ASSUME NEW m \in Segs, InFlight(m)
        PROVE  SegFile(m) \in names /\ ~Condemned(SegFile(m))' /\ refs'[SegFile(m)] = 0
    <3>1. SegFile(m) \in names /\ SegFile(m) \in Names /\ ~Referenced(SegFile(m))
      BY <1>2, <2>1, NamesAre, ReferencedCounts, Zenon DEF Fresh
    <3>2. ~Referenced(SegFile(m))'
      BY <1>26, <3>1, NamesDiffer, Zenon
    <3>3. refs'[SegFile(m)] = 0
      BY <1>15, <1>18, <3>1, <3>2, ReferencedCountsNext, Zenon
    <3>4. ~Condemned(SegFile(m))'
      <4>1. \A g \in D : SegFile(m) \notin CommitFiles(g)'
        BY <1>1, <1>9, <3>1, Zenon DEF Referenced, CommitFiles
      <4>2. \A f : f \notin none /\ f \notin last
        BY <1>0, <1>20, Zenon
      <4> QED BY <1>17, <4>1, <4>2, Zenon DEF Removing
    <3> QED BY <3>1, <3>3, <3>4, Zenon
  <2> QED BY <1>1, <1>2, <2>1, Zenon DEF Fresh, InFlight
<1>35. Owned'
  <2>1. SUFFICES ASSUME NEW f \in names, ~(refs'[f] > 0), ~Condemned(f)', f \notin orphans,
                        ~(\E m \in Segs : InFlight(m) /\ f = SegFile(m))
                 PROVE  FALSE
    BY <1>1, <1>3, <1>7, Zenon DEF Owned, InFlight
  <2>2. f \in Names
    BY <1>2, Zenon DEF TypeOK
  <2>3. ~Referenced(f)' /\ ~Referenced(f)
    BY <1>15, <1>18, <1>27, <2>1, <2>2, ReferencedCountsNext, Zenon
  <2>4. ~(refs[f] > 0) /\ f # Segments(ci.gen)
    BY <1>0, <1>2, <1>19, <2>2, <2>3, ReferencedCounts, CommitFilesIs, Zenon
  <2>5. ci.phase \notin {"writing", "sync", "synced", "prepared"}
    BY <1>1, Zenon
  <2> QED BY <1>2, <1>3, <2>1, <2>4, <2>5, Zenon DEF Owned
<1>36. CommitPointsSurvive'
  <2>1. \A g \in CommitsIn(names) : CommitFiles(g) \subseteq (names \intersect synced)
    BY <1>2, Zenon DEF IInv, Shape, CommitPointsSurvive
  <2> QED BY <1>1, <2>1, Zenon DEF CommitPointsSurvive, CommitsIn, CommitFiles
<1>37. PointsFirst'
  BY <1>24, Zenon DEF Pruned
<1> QED BY <1>15, <1>18, <1>22, <1>25, <1>28, <1>29, <1>30, <1>31, <1>32, <1>33, <1>34, <1>35,
           <1>36, <1>37, Zenon DEF IInv

-----------------------------------------------------------------------------
(* Opening a writer *)

\* The greatest of a bounded set of numbers and one more.
LEMMA MaxWith ==
  ASSUME NEW n \in Nat, NEW S \in SUBSET (0 .. n), NEW x \in Nat
  PROVE  /\ Max(S \union {x}) \in S \union {x}
         /\ \A y \in S \union {x} : y <= Max(S \union {x})
<1>1. IsFiniteSet(0 .. n)
  BY FS_Interval
<1>2. IsFiniteSet(S)
  BY <1>1, FS_Subset, Zenon
<1>3. IsFiniteSet(S \union {x})
  BY <1>2, FS_AddElement, Zenon
<1>4. S \union {x} \in SUBSET Nat
  OBVIOUS
<1>5. S \union {x} # {}
  BY Zenon
<1> QED BY <1>3, <1>4, <1>5, MaxIs, Zenon

\* inflate_gens looks past every generation of the listing.
LEMMA InflatedGenIs ==
  ASSUME NEW L, NEW gen \in 0 .. MaxGen
  PROVE  /\ InflatedGen(L, gen) \in 0 .. MaxGen /\ gen <= InflatedGen(L, gen)
         /\ \A g \in Gens : Segments(g) \in L \/ Pending(g) \in L => g <= InflatedGen(L, gen)
<1>1. MaxGen \in Nat /\ GenerationsIn(L) \in SUBSET (0 .. MaxGen) /\ gen \in Nat
  BY BoundsAssumption DEF GenerationsIn, Gens
<1>2. PICK m : m = Max(GenerationsIn(L) \union {gen})
  BY Zenon
<1>3. m \in GenerationsIn(L) \union {gen} /\ \A y \in GenerationsIn(L) \union {gen} : y <= m
  BY <1>1, <1>2, MaxWith, Zenon
<1>4. m \in 0 .. MaxGen /\ gen <= m
  BY <1>1, <1>3, Zenon
<1>5. \A g \in Gens : Segments(g) \in L \/ Pending(g) \in L => g \in GenerationsIn(L)
  BY Zenon DEF GenerationsIn
<1>6. InflatedGen(L, gen) = m
  BY <1>2, Zenon DEF InflatedGen
<1> QED BY <1>3, <1>4, <1>5, <1>6, Zenon

\* inflate_gens looks past every segment of the listing.
LEMMA InflatedCounterIs ==
  ASSUME NEW L, NEW counter \in Nat
  PROVE  /\ InflatedCounter(L, counter) \in Nat
         /\ \A n \in Segs : SegFile(n) \in L => n < InflatedCounter(L, counter)
<1>1. PICK S : S = { n + 1 : n \in { m \in Segs : SegFile(m) \in L } }
  BY Zenon
<1>2. MaxSeg \in Nat /\ S \in SUBSET (0 .. MaxSeg)
  BY <1>1, BoundsAssumption DEF Segs
<1>3. PICK m : m = Max(S \union {counter})
  BY Zenon
<1>4. m \in S \union {counter} /\ \A y \in S \union {counter} : y <= m
  BY <1>2, <1>3, MaxWith, Zenon
<1>5. m \in Nat
  BY <1>2, <1>4
<1>6. ASSUME NEW n \in Segs, SegFile(n) \in L PROVE n < m
  <2>1. n + 1 \in S
    BY <1>1, <1>6, Zenon
  <2>2. n + 1 <= m
    BY <1>4, <2>1, Zenon
  <2>3. n \in Nat
    BY DEF Segs
  <2> QED BY <1>5, <2>2, <2>3
<1>7. InflatedCounter(L, counter) = m
  BY <1>1, <1>3, Zenon DEF InflatedCounter
<1> QED BY <1>5, <1>6, <1>7, Zenon

\* After a writer closed, the newest commit is the acknowledged one.
LEMMA NewestAcked ==
  ASSUME IInv, ~iw.open
  PROVE  /\ Newest(names) = acked
         /\ \A g \in CommitsIn(names) : g <= acked
         /\ acked # 0 => acked \in CommitsIn(names)
<1>1. /\ \A g \in Gens : ~Condemned(Segments(g)) /\ ~Renamed(g)
  <2>1. ci.phase = "idle" /\ \A g \in Gens : ~Condemned(Segments(g))
    BY Zenon DEF IInv, Shape
  <2>2. ci.phase # "renamed"
    BY <2>1, Zenon
  <2> QED BY <2>1, <2>2, Zenon DEF Renamed
<1>2. CommitsIn(names) \in SUBSET Gens
  BY Zenon DEF CommitsIn
<1>3. \A g \in CommitsIn(names) : g <= acked
  BY <1>1, <1>2, Zenon DEF IInv, AckedKept
<1>4. acked # 0 => acked \in CommitsIn(names)
  <2>1. acked # 0 => acked \in Gens
    BY DEF IInv, TypeOK, Gens
  <2>2. acked # 0 => Segments(acked) \in names
    BY Zenon DEF IInv, AckedKept, Shape
  <2> QED BY <2>1, <2>2, Zenon DEF CommitsIn
<1>5. Newest(names) = acked
  <2>1. PICK n : n = Newest(names)
    BY Zenon
  <2>2. /\ n \in 0 .. MaxGen /\ (n # 0 => n \in CommitsIn(names))
        /\ \A g \in CommitsIn(names) : g <= n
    BY <2>1, NewestIs, Zenon
  <2>3. (n # 0 => n <= acked) /\ (acked # 0 => acked <= n)
    BY <1>3, <1>4, <2>2, Zenon
  <2>4. acked \in 0 .. MaxGen
    BY Zenon DEF IInv, TypeOK
  <2>5. n = acked
    BY <2>2, <2>3, <2>4, BoundsAssumption
  <2> QED BY <2>1, <2>5, Zenon
<1> QED BY <1>3, <1>4, <1>5, Zenon

\* The constructor keeps the invariant.
LEMMA OpenStep ==
  ASSUME IInv, NEW create \in BOOLEAN, Open(create)
  PROVE  IInv'
<1>0. PICK S, C, D, counted, p, q, N, first, none :
        /\ S = (IF create THEN {} ELSE LatestCommit.segs)
        /\ C = CommitsIn(names) /\ D = OnCommit(C, counts)
        /\ counted = [f \in Names |-> Cardinality(PointsOf(C, f))]
        /\ p = IncRef(counted, FilesOf(S)) /\ q = RefsWithout(p, D)
        /\ N = Newest(names) /\ first = { f \in names : counted[f] = 0 } /\ none = {}
  BY Zenon
<1>1. /\ ~iw.open /\ deleting = NoRemovals /\ (N = 0 => create)
      /\ iw' = [open |-> TRUE, infos |-> S, rollback |-> S,
                gen |-> InflatedGen(names, N), lastGen |-> N,
                counter |-> InflatedCounter(names, LatestCommit.counter),
                changeCount |-> IF create THEN 1 ELSE 0, lastCommitCC |-> 0]
      /\ refs' = q /\ commits' = C \ D /\ lastFiles' = FilesOf(S)
      /\ deleting' = Removals(first, DeleteCommits(p, D), none)
      /\ lastCommit' = N /\ orphans' = {}
      /\ UNCHANGED <<names, recent, synced, content, flushing, merging, ci, counts, nrt, dr,
                     acked, crashes, fails>>
  BY <1>0, Zenon DEF Open, disk, history, PointsOf
<1>2. /\ TypeOK /\ Shape /\ Counted /\ AckedKept /\ SnapshotsDurable /\ CommitPointsSurvive
  BY Zenon DEF IInv
<1>3. /\ ci = IdleCommit /\ flushing = {} /\ merging = NoMerge /\ nrt = NoReader
  BY <1>1, <1>2, Zenon DEF Shape
<1>4. /\ ci.phase = "idle" /\ ci.files = {} /\ merging.sources = {} /\ merging.target = MaxSeg
      /\ nrt.segs = {} /\ ci.phase # "renamed" /\ ci.phase \notin {"writing", "renamed"}
      /\ FilesOf(merging.sources) = {} /\ FilesOf(nrt.segs) = {}
  <2>1. /\ ci.phase = "idle" /\ ci.files = {} /\ merging.sources = {} /\ merging.target = MaxSeg
        /\ nrt.segs = {} /\ ci.phase # "renamed" /\ ci.phase \notin {"writing", "renamed"}
    BY <1>3, Zenon DEF IdleCommit, NoMerge, NoReader
  <2> QED BY <2>1, FilesOfIs, Zenon
<1>5. N = acked /\ N \in 0 .. MaxGen /\ (\A g \in C : g <= acked) /\ (N # 0 => N \in C)
  BY <1>0, <1>1, NewestAcked, NewestIs, Zenon
<1>6. C \in SUBSET Gens /\ D \in SUBSET C /\ D \in SUBSET Gens
  <2>1. C \in SUBSET Gens
    BY <1>0, Zenon DEF CommitsIn
  <2>2. D \in SUBSET C
    BY <1>0, <2>1, OnCommitIs, Zenon
  <2> QED BY <2>1, <2>2, Zenon
<1>7. /\ LatestCommit.counter \in Nat /\ S \in SUBSET Segs
      /\ ~create => N # 0 /\ S = content[N].segs
  <2>1. CASE N = 0
    <3>1. LatestCommit = [segs |-> {}, counter |-> 0]
      BY <1>0, <2>1, Zenon DEF LatestCommit
    <3>2. LatestCommit.counter \in Nat /\ create
      BY <1>1, <2>1, <3>1, Zenon
    <3>3. S = {}
      BY <1>0, <3>2, Zenon
    <3> QED BY <3>2, <3>3, Zenon
  <2>2. CASE N # 0
    <3>1. LatestCommit = content[N]
      BY <1>0, <2>2, Zenon DEF LatestCommit
    <3>2. N \in Gens
      BY <1>5, <1>6, <2>2, Zenon
    <3>3. content[N].segs \in SUBSET Segs /\ content[N].counter \in Nat
      BY <1>2, <3>2, ContentIs, Zenon
    <3>4. S = {} \/ S = content[N].segs
      BY <1>0, <3>1, Zenon
    <3>5. S \in SUBSET Segs
      BY <3>3, <3>4, Zenon
    <3>6. ~create => S = content[N].segs
      BY <1>0, <3>1, Zenon
    <3> QED BY <2>2, <3>1, <3>3, <3>5, <3>6, Zenon
  <2> QED BY <2>1, <2>2, Zenon
<1>8. /\ InflatedGen(names, N) \in 0 .. MaxGen /\ N <= InflatedGen(names, N)
      /\ \A g \in Gens : Segments(g) \in names \/ Pending(g) \in names
                           => g <= InflatedGen(names, N)
      /\ InflatedCounter(names, LatestCommit.counter) \in Nat
      /\ \A n \in Segs : SegFile(n) \in names
                           => n < InflatedCounter(names, LatestCommit.counter)
  <2>1. /\ InflatedGen(names, N) \in 0 .. MaxGen /\ N <= InflatedGen(names, N)
        /\ \A g \in Gens : Segments(g) \in names \/ Pending(g) \in names
                             => g <= InflatedGen(names, N)
    BY <1>5, InflatedGenIs, Zenon
  <2>2. /\ InflatedCounter(names, LatestCommit.counter) \in Nat
        /\ \A n \in Segs : SegFile(n) \in names
                             => n < InflatedCounter(names, LatestCommit.counter)
    BY <1>7, InflatedCounterIs, Zenon
  <2> QED BY <2>1, <2>2, Zenon
<1>9. /\ iw' \in WriterRecord /\ iw'.open /\ iw'.infos = S /\ iw'.lastGen = N
      /\ iw'.gen = InflatedGen(names, N)
      /\ iw'.counter = InflatedCounter(names, LatestCommit.counter)
      /\ iw'.lastCommitCC = 0 /\ iw'.changeCount = (IF create THEN 1 ELSE 0)
  <2>1. PICK g, k, cc : /\ g = InflatedGen(names, N)
                        /\ k = InflatedCounter(names, LatestCommit.counter)
                        /\ cc = (IF create THEN 1 ELSE 0)
    BY Zenon
  <2>2. g \in 0 .. MaxGen /\ k \in Nat /\ cc \in Nat
    BY <1>8, <2>1, Zenon
  <2>3. iw' = [open |-> TRUE, infos |-> S, rollback |-> S, gen |-> g, lastGen |-> N,
               counter |-> k, changeCount |-> cc, lastCommitCC |-> 0]
    BY <1>1, <2>1, Zenon
  <2>4. /\ iw' \in WriterRecord /\ iw'.open /\ iw'.infos = S /\ iw'.lastGen = N
        /\ iw'.gen = g /\ iw'.counter = k /\ iw'.lastCommitCC = 0 /\ iw'.changeCount = cc
    BY <1>5, <1>7, <2>2, <2>3, Zenon DEF WriterRecord
  <2> QED BY <2>1, <2>4, Zenon

<1>10. FilesOf(S) \in SUBSET Names /\ \A f \in FilesOf(S) : \E g \in C : f \in CommitFiles(g)
  <2>1. FilesOf(S) \in SUBSET Names
    BY <1>7, FilesOfIs, Zenon
  <2>2. CASE create
    <3>1. FilesOf(S) = {}
      BY <1>0, <2>2, FilesOfIs, Zenon
    <3> QED BY <2>1, <3>1, Zenon
  <2>3. CASE ~create
    <3>1. N \in C /\ S = content[N].segs
      BY <1>5, <1>7, <2>3, Zenon
    <3> QED BY <2>1, <3>1, Zenon DEF CommitFiles
  <2> QED BY <2>2, <2>3, Zenon
<1>11. /\ counted \in [Names -> Nat]
       /\ \A f \in Names : counted[f] = Cardinality(PointsOf(C, f))
       /\ \A f \in Names : counted[f] = 0 <=> \A g \in C : f \notin CommitFiles(g)
  <2>1. \A f \in Names : /\ Cardinality(PointsOf(C, f)) \in Nat
                         /\ Cardinality(PointsOf(C, f)) = 0 <=> \A g \in C : f \notin CommitFiles(g)
    BY <1>6, PointsCount, Zenon
  <2>2. \A f \in Names : counted[f] = Cardinality(PointsOf(C, f))
    BY <1>0, Zenon
  <2>3. counted \in [Names -> Nat]
    BY <1>0, <2>1, Zenon
  <2> QED BY <2>1, <2>2, <2>3, Zenon
<1>12. /\ p \in [Names -> Nat]
       /\ \A f \in Names : p[f] = Cardinality(PointsOf(C, f)) + Held(f, FilesOf(S))
       /\ \A f \in Names : Cardinality(PointsOf(C, f)) <= p[f]
  <2>1. /\ p \in [Names -> Nat]
        /\ \A f \in Names : p[f] = counted[f] + Held(f, FilesOf(S))
    BY <1>0, <1>11, IncRefIs, Zenon
  <2>2. ASSUME NEW f \in Names PROVE counted[f] <= p[f]
    <3>1. counted[f] \in Nat /\ Held(f, FilesOf(S)) \in {0, 1}
      BY <1>11, HeldIs, Zenon
    <3>2. p[f] = counted[f] + Held(f, FilesOf(S))
      BY <2>1, Zenon
    <3> QED BY <3>1, <3>2
  <2> QED BY <1>11, <2>1, <2>2, Zenon
<1>13. q \in [Names -> Nat]
  BY <1>0, <1>6, <1>12, RefsWithoutIs, Zenon
<1>14. Counted'
  <2>1. ASSUME NEW f \in Names PROVE refs'[f] = Holders(f)'
    <3>1. PICK c, d, e : /\ c = Cardinality(PointsOf(C, f)) /\ d = Cardinality(PointsOf(D, f))
                         /\ e = Cardinality(PointsOf(C \ D, f))
      BY Zenon
    <3>2. q[f] = p[f] - d /\ c = e + d /\ d \in Nat /\ e \in Nat
      <4>1. \A k \in Names : Cardinality(PointsOf(C, k)) <= p[k]
        BY <1>12, Zenon
      <4>2. q[f] = p[f] - Cardinality(PointsOf(D, f))
        BY <1>0, <1>6, <1>12, <4>1, RefsWithoutIs, ZenonT(60)
      <4>3. /\ Cardinality(PointsOf(C, f)) =
                 Cardinality(PointsOf(C \ D, f)) + Cardinality(PointsOf(D, f))
            /\ Cardinality(PointsOf(D, f)) \in Nat
            /\ Cardinality(PointsOf(C \ D, f)) \in Nat
        BY <1>6, <1>12, <4>1, RefsWithoutIs, Zenon
      <4> QED BY <3>1, <4>2, <4>3, Zenon
    <3>3. p[f] = c + Held(f, FilesOf(S)) /\ Held(f, FilesOf(S)) \in {0, 1}
      BY <1>12, <3>1, HeldIs, Zenon
    <3>4. Holders(f)' = e + Held(f, FilesOf(S)) + Held(f, {}) + Held(f, {}) + Held(f, {})
      BY <1>1, <1>4, <3>1, Zenon DEF Holders, PointsOf, CommitFiles
    <3>5. Held(f, {}) = 0
      BY Zenon DEF Held
    <3>6. refs'[f] = q[f]
      BY <1>1, Zenon
    <3> QED BY <3>2, <3>3, <3>4, <3>5, <3>6
  <2> QED BY <2>1, Zenon DEF Counted
<1>15. first \in SUBSET names /\ first \in SUBSET Names /\ none \in SUBSET Names
  <2>1. names \in SUBSET Names
    BY <1>2, Zenon DEF TypeOK
  <2> QED BY <1>0, <2>1, Zenon
<1>16. \A f \in first : \A g \in C : f \notin CommitFiles(g)
  BY <1>0, <1>11, <1>15, Zenon
<1>17. deleting' \in [Stages -> SUBSET Names] /\ Removing(D, q, first, none)'
  BY <1>0, <1>1, <1>2, <1>6, <1>15, CommitsGone, Zenon
<1>18. TypeOK'
  <2>1. commits' \in SUBSET Gens /\ refs' \in [Names -> Nat] /\ lastFiles' \in SUBSET Names
    BY <1>1, <1>6, <1>10, <1>13, Zenon
  <2>2. lastCommit' \in 0 .. MaxGen
    BY <1>1, <1>5, Zenon
  <2>3. orphans' \in SUBSET Names
    BY <1>1, Zenon
  <2> QED BY <1>1, <1>2, <1>9, <1>17, <2>1, <2>2, <2>3, Zenon DEF TypeOK
<1>19. Shape'
  <2>1. merging'.sources \subseteq iw'.infos
    BY <1>1, <1>4, Zenon
  <2> QED BY <1>1, <1>2, <1>4, <1>9, <2>1, Zenon DEF Shape, IdleCommit
<1>20. \A f \in Names : q[f] = 0 <=> ~Referenced(f)'
  BY <1>1, <1>14, <1>18, ReferencedCountsNext, Zenon
<1>21. \A f : Referenced(f)' => \E g \in C : f \in CommitFiles(g)
  <2>1. ASSUME NEW f, Referenced(f)' PROVE \E g \in C : f \in CommitFiles(g)
    <3>1. f \notin ci.files /\ f \notin FilesOf(merging.sources) /\ f \notin FilesOf(nrt.segs)
      BY <1>4, Zenon
    <3> QED BY <1>1, <1>10, <2>1, <3>1, Zenon DEF Referenced, CommitFiles
  <2> QED BY <2>1, Zenon
<1>22. Pruned(C, D)'
  <2>1. \A f \in first : ~Referenced(f)' /\ \A g \in C : f \notin CommitFiles(g)
    BY <1>16, <1>21, Zenon
  <2>2. \A g \in CommitsIn(names) : g \in C
    BY <1>0, Zenon
  <2> QED BY <1>0, <1>1, <1>2, <1>6, <1>14, <1>15, <1>17, <1>18, <1>19, <1>20, <2>1, <2>2,
             GivenUp, Zenon
<1>23. SnapshotsDurable' /\ ReaderAhead' /\ (acked' # 0 => ~Condemned(Segments(acked))')
  <2>1. recent' \subseteq recent
    BY <1>1, Zenon
  <2>2. \A g \in C : g <= acked'
    BY <1>1, <1>5, Zenon
  <2> QED BY <1>1, <1>6, <1>18, <1>22, <2>1, <2>2, OldGivenUp, Zenon
<1>24. \A g \in C : CommitFiles(g) \subseteq names
  BY <1>0, <1>2, Zenon DEF CommitPointsSurvive, Shape
<1>25. ReferencedLive'
  <2>1. ASSUME NEW f \in Names, refs'[f] > 0 PROVE f \in names' /\ ~Condemned(f)'
    <3>1. Referenced(f)'
      BY <1>14, <1>18, <2>1, ReferencedCountsNext, Zenon
    <3>2. f \in names
      BY <1>21, <1>24, <3>1, Zenon
    <3> QED BY <1>1, <1>22, <3>1, <3>2, Zenon DEF Pruned
  <2> QED BY <2>1, Zenon DEF ReferencedLive
<1>26. PointsKnown'
  BY <1>0, <1>1, <1>22, Zenon DEF PointsKnown, CommitsIn, Pruned
<1>27. AckedKept'
  <2>1. acked # 0 => \A L \in recent : Segments(acked) \in L
    BY <1>2, Zenon DEF AckedKept
  <2>2. \A g \in commits' : g <= acked'
    BY <1>1, <1>5, Zenon
  <2>3. \A g \in CommitsIn(names)' : g <= acked'
    BY <1>0, <1>1, <1>5, Zenon DEF CommitsIn
  <2>4. acked' <= iw'.gen /\ iw'.lastGen = acked' /\ lastCommit' = acked'
    BY <1>1, <1>5, <1>8, <1>9, Zenon
  <2> QED BY <1>1, <1>23, <2>1, <2>2, <2>3, <2>4, Zenon DEF AckedKept
<1>28. NamesTaken'
  BY <1>1, <1>8, <1>9, Zenon DEF NamesTaken
<1>29. CommitInProgress'
  BY <1>1, <1>4, Zenon DEF CommitInProgress, Written
<1>30. ChangesCounted'
  <2>1. ci'.phase = "idle"
    BY <1>1, <1>4, Zenon
  <2>2. CASE create
    <3>1. iw'.changeCount = 1 /\ iw'.lastCommitCC = 0
      BY <1>9, <2>2, Zenon
    <3> QED BY <2>1, <3>1 DEF ChangesCounted
  <2>3. CASE ~create
    <3>1. iw'.changeCount = 0 /\ iw'.lastCommitCC = 0
      BY <1>9, <2>3, Zenon
    <3>2. iw'.lastCommitCC <= iw'.changeCount
      BY <3>1
    <3>3. iw'.lastGen # 0 /\ iw'.infos = content'[iw'.lastGen].segs
      BY <1>1, <1>7, <1>9, <2>3, Zenon
    <3> QED BY <2>1, <3>2, <3>3, Zenon DEF ChangesCounted
  <2> QED BY <2>2, <2>3, Zenon
<1>31. \A n \in Segs : ~InFlight(n)'
  <2>1. \A n \in Segs : n \notin flushing' /\ n # merging'.target
    BY <1>1, <1>3, <1>4, BoundsAssumption DEF Segs
  <2> QED BY <2>1, Zenon DEF InFlight
<1>32. Fresh'
  <2>1. merging'.target \notin flushing'
    BY <1>1, <1>3, Zenon
  <2> QED BY <1>31, <2>1, Zenon DEF Fresh
<1>33. Owned'
  <2>1. ASSUME NEW f \in names PROVE refs'[f] > 0 \/ Condemned(f)'
    <3>0. f \in Names
      BY <1>2, Zenon DEF TypeOK
    <3>1. CASE \E g \in C : f \in CommitFiles(g)
      <4>1. \A g : CommitFiles(g)' = CommitFiles(g)
        BY <1>1, Zenon DEF CommitFiles
      <4>2. Referenced(f)' \/ Condemned(f)'
        BY <1>22, <3>1, <4>1, Zenon DEF Pruned
      <4> QED BY <1>14, <1>18, <3>0, <4>2, ReferencedCountsNext, Zenon
    <3>2. CASE \A g \in C : f \notin CommitFiles(g)
      <4>1. f \in first
        BY <1>0, <1>11, <3>0, <3>2, Zenon
      <4> QED BY <1>17, <4>1, Zenon DEF Removing
    <3> QED BY <3>1, <3>2, Zenon
  <2> QED BY <1>1, <1>9, <2>1, Zenon DEF Owned
<1>34. CommitPointsSurvive'
  BY <1>1, PointsSurviveKept, Zenon DEF IInv
<1>35. PointsFirst'
  BY <1>22, Zenon DEF Pruned
<1> QED BY <1>14, <1>18, <1>19, <1>23, <1>25, <1>26, <1>27, <1>28, <1>29, <1>30, <1>32, <1>33,
           <1>34, <1>35, Zenon DEF IInv

-----------------------------------------------------------------------------
(* Closing a writer and losing it *)

\* Removals in three calls.
LEMMA RemovedInThree ==
  ASSUME NEW first \in SUBSET Names, NEW X \in SUBSET Names, NEW last \in SUBSET Names,
         deleting' = Removals(first, <<X>>, last)
  PROVE  /\ deleting' \in [Stages -> SUBSET Names]
         /\ \A f : Condemned(f)' <=> f \in first \/ f \in X \/ f \in last
<1>1. PICK with : with = <<X>>
  BY Zenon
<1>2. DOMAIN with = {1} /\ with[1] = X
  BY <1>1
<1>3. 1 \in Gens
  BY BoundsAssumption DEF Gens
<1>4. deleting' = Removals(first, with, last)
  BY <1>1, Zenon
<1>5. deleting' \in [Stages -> SUBSET Names]
  <2>1. \A i \in DOMAIN with : with[i] \in SUBSET Names
    BY <1>2, Zenon
  <2>2. Removals(first, with, last) \in [Stages -> SUBSET Names]
    BY <2>1, RemovalsType, Zenon
  <2> QED BY <1>4, <2>2, Zenon
<1>6. PICK R : R = Removals(first, with, last)
  BY Zenon
<1>7. R[0] = first /\ R[LastStage] = last
  BY <1>6, RemovalsAt
<1>8. \A g \in Gens : R[g] = IF g \in DOMAIN with THEN with[g] ELSE {}
  BY <1>6, RemovalsAt, ZenonT(60)
<1>9. R[1] = X /\ \A g \in Gens : g # 1 => R[g] = {}
  BY <1>2, <1>3, <1>8, Zenon
<1>10. \A i \in Stages : i = 0 \/ i = LastStage \/ i \in Gens
  BY BoundsAssumption DEF Stages, LastStage, Gens
<1>11. \A f : (\E i \in Stages : f \in R[i]) <=> f \in first \/ f \in X \/ f \in last
  BY <1>3, <1>7, <1>9, <1>10, StagesAre, Zenon
<1>12. deleting' = R
  BY <1>4, <1>6, Zenon
<1> QED BY <1>5, <1>11, <1>12, Zenon DEF Condemned

\* No writer, and no reader it gave out.
Closed ==
  /\ iw = ClosedWriter /\ ci = IdleCommit /\ flushing = {} /\ merging = NoMerge
  /\ nrt = NoReader /\ refs = [f \in Names |-> 0] /\ commits = {} /\ lastFiles = {}
ClosedTypes ==
  /\ iw \in WriterRecord /\ ci \in CommitRecord /\ flushing \in SUBSET Segs
  /\ merging \in MergeRecord /\ nrt \in ReaderRecord /\ refs \in [Names -> Nat]
  /\ commits \in SUBSET Gens /\ lastFiles \in SUBSET Names
ClosedShape ==
  /\ ~iw.open /\ iw.infos = {} /\ ci.phase = "idle" /\ ci.phase # "renamed"
  /\ ci.phase \notin {"writing", "renamed"}
  /\ lastFiles = FilesOf(iw.infos) /\ ci.files = FilesOf(ci.segs)
  /\ merging.sources \subseteq iw.infos /\ nrt.segs = {}
ClosedParts ==
  /\ Counted /\ ReferencedLive /\ CommitInProgress /\ Fresh /\ ChangesCounted
  /\ NamesTaken /\ PointsKnown

\* Without a writer nothing is in flight and nobody refers to anything.
LEMMA ClosedCounts ==
  Closed => ClosedTypes /\ ClosedShape /\ ClosedParts
<1>0. SUFFICES ASSUME Closed PROVE ClosedTypes /\ ClosedShape /\ ClosedParts
  BY Zenon
<1> USE <1>0 DEF Closed
<1>1. /\ iw \in WriterRecord /\ ci \in CommitRecord /\ flushing \in SUBSET Segs
      /\ merging \in MergeRecord /\ nrt \in ReaderRecord /\ refs \in [Names -> Nat]
      /\ commits \in SUBSET Gens /\ lastFiles \in SUBSET Names
  BY BoundsAssumption
     DEF ClosedWriter, IdleCommit, NoMerge, NoReader, WriterRecord, CommitRecord, MergeRecord,
         ReaderRecord, Phases
<1>2. /\ ~iw.open /\ iw.infos = {} /\ ci.phase = "idle" /\ ci.segs = {} /\ ci.files = {}
      /\ merging.sources = {} /\ nrt.segs = {} /\ merging.target = MaxSeg
  BY Zenon DEF ClosedWriter, IdleCommit, NoMerge, NoReader
<1>3. ci.phase # "renamed" /\ ci.phase \notin {"writing", "renamed"} /\ ci.phase \notin Written
  BY <1>2, Zenon DEF Written
<1>4. FilesOf({}) = {}
  BY FilesOfIs, Zenon
<1>5. lastFiles = FilesOf(iw.infos) /\ ci.files = FilesOf(ci.segs)
  BY <1>2, <1>4, Zenon
<1>6. merging.sources \subseteq iw.infos
  BY <1>2, Zenon
<1>7. \A f \in Names : refs[f] = 0
  BY Zenon
<1>8. Counted
  <2>1. ASSUME NEW f \in Names PROVE refs[f] = Holders(f)
    <3>1. Holders(f) = Cardinality(PointsOf({}, f)) + Held(f, {}) + Held(f, {})
                         + Held(f, FilesOf({})) + Held(f, FilesOf({}))
      BY <1>2, Zenon DEF Holders, PointsOf
    <3>2. PointsOf({}, f) = {}
      BY Zenon DEF PointsOf
    <3>3. Cardinality({}) = 0
      BY FS_EmptySet, Zenon
    <3>4. Held(f, {}) = 0
      BY Zenon DEF Held
    <3>5. Holders(f) = 0 + 0 + 0 + 0 + 0
      BY <1>4, <3>1, <3>2, <3>3, <3>4, Zenon
    <3> QED BY <1>7, <3>5
  <2> QED BY <2>1, Zenon DEF Counted
<1>9. ReferencedLive
  <2>1. \A f \in Names : ~(refs[f] > 0)
    BY <1>7
  <2> QED BY <2>1, Zenon DEF ReferencedLive
<1>10. CommitInProgress
  BY <1>2, <1>3, Zenon DEF CommitInProgress
<1>11. Fresh
  <2>1. \A n \in Segs : n \notin flushing /\ n # merging.target
    BY <1>2, BoundsAssumption DEF Segs
  <2>2. \A n \in Segs : ~InFlight(n)
    BY <2>1, Zenon DEF InFlight
  <2>3. merging.target \notin flushing
    BY Zenon
  <2> QED BY <2>2, <2>3, Zenon DEF Fresh
<1>12. ChangesCounted /\ NamesTaken /\ PointsKnown
  BY <1>2, Zenon DEF ChangesCounted, NamesTaken, PointsKnown
<1> QED BY <1>1, <1>2, <1>3, <1>5, <1>6, <1>8, <1>9, <1>10, <1>11, <1>12, Zenon
           DEF ClosedTypes, ClosedShape, ClosedParts

\* The same after a step.
LEMMA ClosedCountsNext ==
  Closed' => ClosedTypes' /\ ClosedShape' /\ ClosedParts'
<1>1. (Closed => ClosedTypes /\ ClosedShape /\ ClosedParts)'
  BY ClosedCounts, PTL
<1> QED BY <1>1, Zenon

\* rollback keeps the invariant.
LEMMA RollbackStep ==
  ASSUME IInv, Rollback
  PROVE  IInv'
<1>0. PICK B, undone, back, pending, swept, closed, last :
        /\ B = FilesOf(iw.rollback) /\ undone = DecRef(refs, ci.files)
        /\ back = Checkpoint(undone, iw.rollback)
        /\ pending = {Pending(ci.gen)} \intersect names
        /\ swept = { f \in names \ pending : back[f] = 0 }
        /\ closed = DecRef(back, B) /\ last = Dropped(closed, B)
  BY Zenon
<1>1. /\ Writing /\ flushing = {} /\ merging = NoMerge
      /\ deleting' = Removals(pending, <<swept>>, last) /\ Closed'
      /\ orphans' = FilesOf(nrt.segs)
      /\ UNCHANGED <<names, recent, synced, content, counts, lastCommit, dr, acked, crashes, fails>>
  <2>1. /\ Writing /\ flushing = {} /\ merging = NoMerge
        /\ deleting' = Removals(pending, <<swept>>, last) /\ refs' = [f \in Names |-> 0]
        /\ iw' = ClosedWriter /\ ci' = IdleCommit /\ commits' = {} /\ lastFiles' = {}
        /\ orphans' = FilesOf(nrt.segs) /\ nrt' = NoReader
        /\ UNCHANGED <<disk, flushing, merging, policy, dr, history>>
    BY <1>0, Zenon DEF Rollback
  <2>2. Closed'
    BY <2>1, Zenon DEF Closed, ClosedWriter, IdleCommit, NoReader, NoMerge
  <2> QED BY <2>1, <2>2, Zenon DEF disk, policy, history
<1>2. /\ TypeOK /\ Shape /\ Counted /\ AckedKept /\ SnapshotsDurable /\ ReaderAhead
      /\ ReferencedLive
  BY Zenon DEF IInv
<1>3. iw.open /\ \A g \in CommitsIn(names) : g \in commits /\ g <= acked
  BY <1>1, LockFree, Zenon
<1>4. ClosedTypes' /\ ClosedShape' /\ ClosedParts'
  BY <1>1, ClosedCountsNext, Zenon
<1>5. B \in SUBSET Names /\ lastFiles \in SUBSET Names /\ refs \in [Names -> Nat]
  BY <1>0, <1>2, Fields, FilesOfIs, Zenon DEF TypeOK
<1>6. /\ back \in [Names -> Nat] /\ closed \in [Names -> Nat]
      /\ \A f \in Names : /\ back[f] = Cardinality(PointsOf(commits, f))
                                         + Held(f, FilesOf(nrt.segs)) + Held(f, B)
                          /\ closed[f] = Cardinality(PointsOf(commits, f))
                                         + Held(f, FilesOf(nrt.segs))
  <2>1. undone \in [Names -> Nat]
    BY <1>0, <1>5, DecRefIs, Zenon
  <2>2. PICK inc : inc = IncRef(undone, B)
    BY Zenon
  <2>3. inc \in [Names -> Nat] /\ \A f \in Names : inc[f] = undone[f] + Held(f, B)
    BY <2>1, <2>2, IncRefIs, Zenon
  <2>4. back = DecRef(inc, lastFiles)
    BY <1>0, <2>2, Zenon DEF Checkpoint
  <2>5. back \in [Names -> Nat]
    BY <2>3, <2>4, DecRefIs, Zenon
  <2>6. closed \in [Names -> Nat]
    BY <1>0, <2>5, DecRefIs, Zenon
  <2>7. ASSUME NEW f \in Names
        PROVE  /\ back[f] = Cardinality(PointsOf(commits, f))
                                         + Held(f, FilesOf(nrt.segs)) + Held(f, B)
               /\ closed[f] = Cardinality(PointsOf(commits, f))
                                         + Held(f, FilesOf(nrt.segs))
    <3>1. PICK c, l, i, m, n, b : /\ c = Cardinality(PointsOf(commits, f)) /\ l = Held(f, lastFiles)
                               /\ i = Held(f, ci.files) /\ m = Held(f, FilesOf(merging.sources))
                               /\ n = Held(f, FilesOf(nrt.segs)) /\ b = Held(f, B)
      BY Zenon
    <3>2. refs[f] = c + l + i + m + n
      BY <1>2, <3>1, CountParts, Zenon
    <3>3. c \in Nat /\ l \in {0, 1} /\ i \in {0, 1} /\ m \in {0, 1} /\ n \in {0, 1} /\ b \in {0, 1}
      BY <1>2, <3>1, CountParts, HeldIs, Zenon
    <3>4. m = 0
      <4>1. merging.sources = {}
        BY <1>1, Zenon DEF NoMerge
      <4>2. FilesOf(merging.sources) = {}
        BY <4>1, FilesOfIs, Zenon
      <4> QED BY <3>1, <4>2, Zenon DEF Held
    <3>5. i <= refs[f]
      BY <3>2, <3>3
    <3>6. undone[f] = refs[f] - i
      BY <1>0, <1>5, <3>1, <3>5, DecRefIs, Zenon
    <3>7. inc[f] = undone[f] + b
      BY <2>3, <3>1, Zenon
    <3>8. l <= inc[f]
      BY <3>2, <3>3, <3>6, <3>7
    <3>9. back[f] = inc[f] - l
      BY <2>3, <2>4, <3>1, <3>8, DecRefIs, Zenon
    <3>10. back[f] = c + n + b /\ b <= back[f]
      BY <3>2, <3>3, <3>4, <3>6, <3>7, <3>9
    <3>11. closed[f] = back[f] - b
      BY <1>0, <2>5, <3>1, <3>10, DecRefIs, Zenon
    <3>12. closed[f] = c + n
      BY <3>3, <3>10, <3>11
    <3> QED BY <3>1, <3>10, <3>12, Zenon
  <2> QED BY <2>5, <2>6, <2>7, Zenon
<1>7. ASSUME NEW f \in Names
      PROVE  /\ closed[f] = 0 <=> /\ \A g \in commits : f \notin CommitFiles(g)
                                  /\ f \notin FilesOf(nrt.segs)
             /\ back[f] = 0 <=> closed[f] = 0 /\ f \notin B
  <2>1. PICK c, n, b : /\ c = Cardinality(PointsOf(commits, f))
                       /\ n = Held(f, FilesOf(nrt.segs)) /\ b = Held(f, B)
    BY Zenon
  <2>2. back[f] = c + n + b /\ closed[f] = c + n
    BY <1>6, <2>1, Zenon
  <2>3. commits \in SUBSET Gens
    BY <1>2, Zenon DEF TypeOK
  <2>4. c \in Nat /\ (c = 0 <=> \A g \in commits : f \notin CommitFiles(g))
    BY <2>1, <2>3, PointsCount, Zenon
  <2>5. /\ n \in {0, 1} /\ (n = 1 <=> f \in FilesOf(nrt.segs))
        /\ b \in {0, 1} /\ (b = 1 <=> f \in B)
    BY <2>1, HeldIs, Zenon
  <2>6. /\ closed[f] = 0 <=> c = 0 /\ n # 1
        /\ back[f] = 0 <=> closed[f] = 0 /\ b # 1
    BY <2>2, <2>4, <2>5
  <2> QED BY <2>4, <2>5, <2>6, Zenon
<1>8. pending \in SUBSET Names /\ swept \in SUBSET Names /\ last \in SUBSET Names
  <2>1. names \in SUBSET Names
    BY <1>2, Zenon DEF TypeOK
  <2>2. last \in SUBSET Names
    BY <1>0, <1>5, Zenon DEF Dropped
  <2> QED BY <1>0, <2>1, <2>2, Zenon
<1>9. /\ deleting' \in [Stages -> SUBSET Names]
      /\ \A f : Condemned(f)' <=> f \in pending \/ f \in swept \/ f \in last
  BY <1>1, <1>8, RemovedInThree, Zenon
<1>10. \A f \in last : f \in B /\ f \in Names /\ closed[f] = 0
  BY <1>0, <1>8, Zenon DEF Dropped
<1>11. \A f : \A g \in commits : f \in CommitFiles(g) => ~Condemned(f)'
  <2>1. ASSUME NEW f, NEW g \in commits, f \in CommitFiles(g), Condemned(f)' PROVE FALSE
    <3>1. f \in Names
      BY <1>8, <1>9, <2>1, Zenon
    <3>2. closed[f] # 0 /\ back[f] # 0
      BY <1>7, <2>1, <3>1, Zenon
    <3>3. f \notin pending
      BY <1>0, <2>1, CommitFilesIs, Zenon
    <3>4. f \notin swept /\ f \notin last
      BY <1>0, <1>10, <3>2, Zenon
    <3> QED BY <1>9, <2>1, <3>3, <3>4, Zenon
  <2> QED BY <2>1, Zenon
<1>12. \A g \in Gens : ~Condemned(Segments(g))'
  <2>1. ASSUME NEW g \in Gens, Condemned(Segments(g))' PROVE FALSE
    <3>1. Segments(g) \notin last
      BY <1>0, <1>10, FilesOfIs, Zenon
    <3>2. Segments(g) \in names
      BY <1>0, <1>9, <2>1, <3>1, Zenon
    <3>3. g \in commits
      BY <1>3, <3>2, Zenon DEF CommitsIn
    <3> QED BY <1>11, <2>1, <3>3, CommitFilesIs, Zenon
  <2> QED BY <2>1, Zenon
<1>13. TypeOK'
  <2>1. orphans' \in SUBSET Names
    BY <1>1, <1>2, Fields, FilesOfIs, Zenon
  <2> QED BY <1>1, <1>2, <1>4, <1>9, <2>1, Zenon DEF TypeOK, ClosedTypes
<1>14. Shape'
  BY <1>1, <1>2, <1>4, <1>12, Zenon DEF Shape, ClosedShape, Closed
<1>15. PointsFirst'
  <2>1. SUFFICES ASSUME NEW i \in Stages, NEW f \in deleting'[i], NEW g \in CommitsIn(names),
                        f \in CommitFiles(g)
                 PROVE  FALSE
    BY <1>1, Zenon DEF PointsFirst, CommitsIn, CommitFiles
  <2> QED BY <1>3, <1>11, <2>1, Zenon DEF Condemned
<1>16. AckedKept'
  <2>1. acked # 0 => acked \in Gens
    BY <1>2 DEF TypeOK, Gens
  <2>2. \A f : Condemned(f)' <=> \E i \in Stages : f \in deleting'[i]
    BY Zenon DEF Condemned
  <2>3. acked' # 0 => ~Condemned(Segments(acked))'
    BY <1>1, <1>12, <2>1, <2>2, Zenon DEF Condemned
  <2>4. \A g \in CommitsIn(names)' : g <= acked'
    BY <1>1, <1>3, Zenon DEF CommitsIn
  <2> QED BY <1>1, <1>2, <1>4, <2>3, <2>4, Zenon DEF AckedKept, ClosedShape
<1>17. SnapshotsDurable'
  BY <1>1, <1>2, <1>12, Zenon DEF SnapshotsDurable
<1>18. ReaderAhead'
  BY <1>1, <1>2, <1>12, Zenon DEF ReaderAhead, CommitsIn
<1>19. \A g \in commits : g \in CommitsIn(names)
  <2>1. ASSUME NEW g \in commits PROVE Segments(g) \in names /\ g \in Gens
    <3>1. g \in Gens /\ Segments(g) \in Names
      BY <1>2, NamesAre, Zenon DEF TypeOK
    <3>2. Referenced(Segments(g))
      BY CommitFilesIs, Zenon DEF Referenced
    <3> QED BY <1>2, <3>1, <3>2, ReferencedCounts, Zenon DEF ReferencedLive
  <2> QED BY <2>1, Zenon DEF CommitsIn
<1>20. Owned'
  <2>1. SUFFICES ASSUME NEW f \in names, ~Condemned(f)', f \notin FilesOf(nrt.segs)
                 PROVE  \E g \in CommitsIn(names) : f \in CommitFiles(g)
    BY <1>1, <1>4, Zenon DEF Owned, ClosedShape, CommitsIn, CommitFiles
  <2>2. f \in Names /\ f \notin pending /\ f \notin swept /\ f \notin last
    BY <1>2, <1>9, <2>1, Zenon DEF TypeOK
  <2>3. back[f] # 0
    BY <1>0, <2>2, Zenon
  <2>4. f \in B => closed[f] # 0
    BY <1>0, <2>2, Zenon DEF Dropped
  <2>5. closed[f] # 0
    BY <1>7, <2>2, <2>3, <2>4, Zenon
  <2> QED BY <1>7, <1>19, <2>1, <2>2, <2>5, Zenon
<1>21. CommitPointsSurvive'
  BY <1>1, PointsSurviveKept, Zenon DEF IInv
<1> QED BY <1>4, <1>13, <1>14, <1>15, <1>16, <1>17, <1>18, <1>20, <1>21,
           Zenon DEF IInv, ClosedParts

\* A crash keeps the invariant.
LEMMA CrashStep ==
  ASSUME IInv, NEW L \in recent, NEW torn \in SUBSET (L \ synced), NEW keep \in BOOLEAN,
         Crash(L, torn, keep)
  PROVE  IInv'
<1>1. /\ names' = L /\ recent' = {L} /\ synced' = L \ torn /\ dr' = IdleFinder
      /\ orphans' = {} /\ deleting' = NoRemovals /\ lastCommit' = 0
      /\ counts' = (IF keep THEN counts ELSE [g \in Gens |-> 0])
      /\ acked' = Newest(L) /\ crashes' = crashes + 1 /\ UNCHANGED <<content, fails>> /\ Closed'
  <2>1. /\ names' = L /\ recent' = {L} /\ synced' = L \ torn /\ dr' = IdleFinder
        /\ orphans' = {} /\ deleting' = NoRemovals /\ lastCommit' = 0
        /\ counts' = (IF keep THEN counts ELSE [g \in Gens |-> 0])
        /\ acked' = Newest(L) /\ crashes' = crashes + 1 /\ UNCHANGED <<content, fails>>
    BY Zenon DEF Crash
  <2>2. /\ iw' = ClosedWriter /\ ci' = IdleCommit /\ flushing' = {} /\ merging' = NoMerge
        /\ nrt' = NoReader /\ refs' = [f \in Names |-> 0] /\ commits' = {} /\ lastFiles' = {}
    BY Zenon DEF Crash
  <2>3. Closed'
    BY <2>2, Zenon DEF Closed, ClosedWriter, IdleCommit, NoReader, NoMerge
  <2> QED BY <2>1, <2>3, Zenon
<1>2. TypeOK /\ SnapshotsDurable /\ CommitPointsSurvive
  BY Zenon DEF IInv
<1>3. ClosedTypes' /\ ClosedShape' /\ ClosedParts'
  BY <1>1, ClosedCountsNext, Zenon
<1>4. L \in SUBSET Names /\ L \ torn \in SUBSET Names /\ {L} \in SUBSET (SUBSET Names)
  BY <1>2, Zenon DEF TypeOK
<1>5. /\ counts' \in [Gens -> Nat] /\ \A g \in Gens : counts'[g] > 0 => counts[g] > 0
  <2>1. CASE keep
    BY <1>1, <1>2, <2>1, Zenon DEF TypeOK
  <2>2. CASE ~keep
    <3>1. counts' = [g \in Gens |-> 0]
      BY <1>1, <2>2, Zenon
    <3> QED BY <3>1
  <2> QED BY <2>1, <2>2, Zenon
<1>6. Newest(L) \in 0 .. MaxGen
  BY NewestIs, Zenon
<1>7. TypeOK'
  <2>1. /\ deleting' \in [Stages -> SUBSET Names] /\ dr' \in FinderRecord
        /\ lastCommit' \in 0 .. MaxGen /\ orphans' \in SUBSET Names
        /\ crashes' \in Nat
    BY <1>1, <1>2, BoundsAssumption DEF NoRemovals, IdleFinder, FinderRecord, TypeOK
  <2> QED BY <1>1, <1>2, <1>3, <1>4, <1>5, <1>6, <2>1, Zenon DEF TypeOK, ClosedTypes
<1>8. \A f : ~Condemned(f)'
  BY <1>1, Zenon DEF Condemned, NoRemovals
<1>9. Shape'
  <2>1. names' \in recent'
    BY <1>1, Zenon
  <2> QED BY <1>1, <1>3, <1>8, <2>1, Zenon DEF Shape, ClosedShape, Closed
<1>10. PointsFirst'
  BY <1>1, Zenon DEF PointsFirst, NoRemovals
<1>11. AckedKept'
  <2>1. CommitsIn(names)' = CommitsIn(L)
    BY <1>1, Zenon DEF CommitsIn
  <2>2. /\ Newest(L) # 0 => Newest(L) \in CommitsIn(L)
        /\ \A g \in CommitsIn(L) : g <= Newest(L)
    BY NewestIs, Zenon
  <2>3. acked' # 0 => \A K \in recent' : Segments(acked)' \in K
    BY <1>1, <2>2, Zenon DEF CommitsIn, Segments
  <2>4. \A g \in CommitsIn(names)' : g <= acked'
    BY <1>1, <2>1, <2>2, Zenon
  <2>5. ~Condemned(Segments(acked))'
    BY <1>1, Zenon DEF Condemned, NoRemovals
  <2> QED BY <1>3, <2>3, <2>4, <2>5, Zenon DEF AckedKept, ClosedShape
<1>12. SnapshotsDurable'
  BY <1>1, <1>2, <1>5, <1>8, Zenon DEF SnapshotsDurable
<1>13. ReaderAhead'
  <2>1. dr'.pc = "idle"
    BY <1>1, Zenon DEF IdleFinder
  <2>2. dr'.pc # "failed" /\ dr'.pc # "list" /\ dr'.pc \notin {"read", "open"} /\ dr'.pc # "open"
    BY <2>1, Zenon
  <2> QED BY <1>8, <2>2, Zenon DEF ReaderAhead
<1>14. Owned'
  <2>1. crashes' # 0
    BY <1>1, <1>2 DEF TypeOK
  <2> QED BY <1>3, <2>1, Zenon DEF Owned, ClosedShape
<1>15. CommitPointsSurvive'
  <2>1. \A g \in CommitsIn(L) : CommitFiles(g) \subseteq (L \intersect (L \ torn))
    BY <1>2, Zenon DEF CommitPointsSurvive
  <2> QED BY <1>1, <2>1, Zenon DEF CommitPointsSurvive, CommitsIn, CommitFiles
<1> QED BY <1>3, <1>7, <1>9, <1>10, <1>11, <1>12, <1>13, <1>14, <1>15, Zenon DEF IInv, ClosedParts

-----------------------------------------------------------------------------
(* The invariant *)

\* The invariant holds of an empty directory.
LEMMA InitInv ==
  Init => IInv
<1>0. SUFFICES ASSUME Init PROVE IInv
  BY Zenon
<1>1. /\ names = {} /\ recent = {{}} /\ synced = {} /\ orphans = {} /\ deleting = NoRemovals
      /\ content = [g \in Gens |-> [segs |-> {}, counter |-> 0]]
      /\ counts = [g \in Gens |-> 0] /\ lastCommit = 0 /\ dr = IdleFinder
      /\ acked = 0 /\ crashes = 0 /\ fails = 0 /\ Closed
  BY <1>0, Zenon DEF Init, Closed
<1>2. ClosedTypes /\ ClosedShape /\ ClosedParts
  BY <1>1, ClosedCounts, Zenon
<1>3. TypeOK
  <2>1. /\ names \in SUBSET Names /\ synced \in SUBSET Names /\ orphans \in SUBSET Names
        /\ deleting \in [Stages -> SUBSET Names] /\ dr \in FinderRecord
        /\ content \in [Gens -> [segs : SUBSET Segs, counter : Nat]]
        /\ counts \in [Gens -> Nat] /\ lastCommit \in 0 .. MaxGen /\ acked \in 0 .. MaxGen
        /\ crashes \in Nat /\ fails \in Nat
    BY <1>1, BoundsAssumption DEF NoRemovals, IdleFinder, FinderRecord
  <2>2. recent \in SUBSET (SUBSET Names)
    BY <1>1, Zenon
  <2> QED BY <1>2, <2>1, <2>2, Zenon DEF TypeOK, ClosedTypes
<1>4. \A f : ~Condemned(f)
  BY <1>1, NoneCondemned, Zenon
<1>5. CommitsIn(names) = {} /\ \A L \in recent : CommitsIn(L) = {}
  BY <1>1, Zenon DEF CommitsIn
<1>6. Shape
  <2>1. names \in recent
    BY <1>1, Zenon
  <2> QED BY <1>1, <1>2, <1>4, <2>1, Zenon DEF Shape, ClosedShape, Closed
<1>7. PointsFirst /\ AckedKept
  BY <1>1, <1>2, <1>5, Zenon DEF PointsFirst, AckedKept, ClosedShape
<1>8. SnapshotsDurable
  <2>1. \A g \in Gens : ~(counts[g] > 0)
    BY <1>1
  <2> QED BY <2>1, Zenon DEF SnapshotsDurable
<1>9. ReaderAhead
  <2>1. dr.pc = "idle"
    BY <1>1, Zenon DEF IdleFinder
  <2>2. dr.pc # "failed" /\ dr.pc # "list" /\ dr.pc \notin {"read", "open"} /\ dr.pc # "open"
    BY <2>1, Zenon
  <2> QED BY <1>4, <2>2, Zenon DEF ReaderAhead
<1>10. Owned
  BY <1>1, Zenon DEF Owned
<1>11. CommitPointsSurvive
  BY <1>5, Zenon DEF CommitPointsSurvive
<1> QED BY <1>2, <1>3, <1>6, <1>7, <1>8, <1>9, <1>10, <1>11, Zenon DEF IInv, ClosedParts

\* Every step keeps the invariant.
LEMMA NextInv ==
  IInv /\ [Next]_vars => IInv'
<1>0. SUFFICES ASSUME IInv, [Next]_vars PROVE IInv'
  BY Zenon
<1>1. CASE WriterSteps
  <2>1. ASSUME NEW create \in BOOLEAN, Open(create) PROVE IInv'
    BY <1>0, <2>1, OpenStep, Zenon
  <2>2. CASE WriteFlush
    BY <1>0, <2>2, WriteFlushStep, Zenon
  <2>3. ASSUME NEW n \in Segs, PublishFlush(n) PROVE IInv'
    BY <1>0, <2>3, PublishFlushStep, Zenon
  <2>10. ASSUME NEW n \in Segs, NEW published \in BOOLEAN, DiscardFlush(n, published)
         PROVE  IInv'
    BY <1>0, <2>10, DiscardFlushStep, Zenon
  <2>4. ASSUME NEW S \in SUBSET Segs, StartMerge(S) PROVE IInv'
    BY <1>0, <2>4, StartMergeStep, Zenon
  <2>5. ASSUME NEW S \in SUBSET Segs, PrepareCommit(S) PROVE IInv'
    BY <1>0, <2>5, PrepareCommitStep, Zenon
  <2>6. ASSUME NEW S \in SUBSET Segs, DeleteAll(S) PROVE IInv'
    BY <1>0, <2>6, DeleteAllStep, Zenon
  <2>7. CASE WriteMerge
    BY <1>0, <2>7, WriteMergeStep, Zenon
  <2>11. ASSUME NEW writing \in BOOLEAN, AbortMerge(writing) PROVE IInv'
    BY <1>0, <2>11, AbortMergeStep, Zenon
  <2>8. ASSUME NEW drop \in BOOLEAN, CommitMerge(drop) PROVE IInv'
    BY <1>0, <2>8, CommitMergeStep, Zenon
  <2>9. CASE Rollback \/ DeleteUnusedFiles \/ DeleteFile
    BY <1>0, <2>9, RollbackStep, DeleteUnusedFilesStep, DeleteFileStep, Zenon
  <2> QED BY <1>1, <2>1, <2>2, <2>3, <2>4, <2>5, <2>6, <2>7, <2>8, <2>9, <2>10,
             <2>11, Zenon DEF WriterSteps
<1>2. CASE CommitSteps
  <2>1. CASE StopAwaiting \/ SkipCommit \/ CreatePending \/ SyncPending \/ SyncFiles
    BY <1>0, <2>1, StopAwaitingStep, SkipCommitStep, CreatePendingStep, SyncPendingStep,
       SyncFilesStep, Zenon
  <2>2. CASE UpdateGeneration \/ RenamePending \/ FinishCommit \/ CommitFails \/ FinishFails
    BY <1>0, <2>2, UpdateGenerationStep, RenamePendingStep, FinishCommitStep, CommitFailsStep,
       FinishFailsStep, Zenon
  <2> QED BY <1>2, <2>1, <2>2, Zenon DEF CommitSteps
<1>3. CASE OtherSteps
  <2>1. CASE Snapshot \/ OpenReader \/ CloseReader
    BY <1>0, <2>1, SnapshotStep, OpenReaderStep, CloseReaderStep, Zenon
  <2>2. ASSUME NEW g \in Gens, Release(g) PROVE IInv'
    BY <1>0, <2>2, ReleaseStep, Zenon
  <2>3. CASE StartReading \/ ListCommits \/ ReadCommit \/ OpenFile
    BY <1>0, <2>3, StartReadingStep, ListCommitsStep, ReadCommitStep, OpenFileStep, Zenon
  <2>4. ASSUME NEW L \in recent, NEW torn \in SUBSET (L \ synced), NEW keep \in BOOLEAN,
               Crash(L, torn, keep)
        PROVE  IInv'
    BY <1>0, <2>4, CrashStep, Zenon
  <2> QED BY <1>3, <2>1, <2>2, <2>3, <2>4, Zenon DEF OtherSteps
<1>4. CASE UNCHANGED vars
  <2>1. UNCHANGED <<names, recent, synced, content, iw, flushing, merging, refs, commits,
                    lastFiles, orphans, deleting, ci, counts, lastCommit, nrt, dr, acked,
                    crashes, fails>>
    BY <1>4, Zenon DEF vars, disk, deleter, policy, history
  <2>2. dr' \in FinderRecord
    BY <1>0, <2>1, Zenon DEF IInv, TypeOK
  <2>3. ReaderAhead'
    BY <1>0, <2>1, ReaderAheadKept, Zenon DEF IInv
  <2> QED BY <1>0, <2>1, <2>2, <2>3, ReaderMoves, Zenon DEF disk, deleter, policy, history
<1> QED BY <1>0, <1>1, <1>2, <1>3, <1>4, Zenon DEF Next

\* The invariant of the commits holds always, over crashes, failed commits and
\* any number of writers.
THEOREM CommitInvariance == Spec => []IInv
<1>1. Init => IInv
  BY InitInv, Zenon
<1>2. IInv /\ [Next]_vars => IInv'
  BY NextInv, Zenon
<1> QED BY <1>1, <1>2, PTL DEF Spec

-----------------------------------------------------------------------------
(* What follows *)

\* A crash never leaves a segments_N behind whose files are missing or torn.
THEOREM CommitPointsSurviveAlways == Spec => []CommitPointsSurvive
<1>1. IInv => CommitPointsSurvive
  BY Zenon DEF IInv
<1> QED BY <1>1, CommitInvariance, PTL

\* A crash never loses a commit that finish_commit reported as done.
THEOREM AckedCommitsSurviveAlways == Spec => []AckedCommitsSurvive
<1>1. ASSUME IInv PROVE AckedCommitsSurvive
  <2>1. ASSUME NEW L \in recent PROVE Newest(L) >= acked
    <3>1. PICK n : n = Newest(L)
      BY Zenon
    <3>2. n \in 0 .. MaxGen /\ \A g \in CommitsIn(L) : g <= n
      BY <3>1, NewestIs, Zenon
    <3>3. acked \in 0 .. MaxGen
      BY <1>1, Zenon DEF IInv, TypeOK
    <3>4. CASE acked = 0
      <4>1. n >= acked
        BY <3>2, <3>4
      <4> QED BY <3>1, <4>1, Zenon
    <3>5. CASE acked # 0
      <4>1. Segments(acked) \in L
        BY <1>1, <3>5, Zenon DEF IInv, AckedKept
      <4>2. acked \in Gens
        BY <3>3, <3>5 DEF Gens
      <4>3. acked <= n
        BY <3>2, <4>1, <4>2, Zenon DEF CommitsIn
      <4>4. n >= acked
        BY <3>2, <3>3, <4>3, Zenon
      <4> QED BY <3>1, <4>4, Zenon
    <3> QED BY <3>4, <3>5, Zenon
  <2> QED BY <2>1, Zenon DEF AckedCommitsSurvive
<1> QED BY <1>1, CommitInvariance, PTL

\* The deleter's counts are exact.
THEOREM CountsAlwaysExact == Spec => []CountsExact
<1>1. IInv => CountsExact
  BY Zenon DEF IInv, Counted, CountsExact
<1> QED BY <1>1, CommitInvariance, PTL

\* What anyone refers to is in the directory.
THEOREM ReferencedFilesStay == Spec => []ReferencedFilesExist
<1>1. IInv => ReferencedFilesExist
  BY Zenon DEF IInv, ReferencedLive, ReferencedFilesExist
<1> QED BY <1>1, CommitInvariance, PTL

\* No file is forgotten, and after a rollback or close the directory holds its
\* commit points and what they need, the acknowledged one the newest.
THEOREM NothingEverLeaks == Spec => []NothingLeaks
<1>1. ASSUME IInv PROVE NothingLeaks
  <2>1. ASSUME iw.open, InnerFree, ci.phase = "idle", flushing = {}, merging = NoMerge,
               NEW f \in names
        PROVE  refs[f] > 0 \/ f \in orphans
    <3>1. \A k : ~Condemned(k)
      BY <2>1, NoneCondemned, Zenon DEF InnerFree
    <3>2. merging.target = MaxSeg
      BY <2>1, Zenon DEF NoMerge
    <3>3. \A n \in Segs : n \notin flushing /\ n # merging.target
      BY <2>1, <3>2, BoundsAssumption DEF Segs
    <3>4. \A n \in Segs : ~InFlight(n)
      BY <3>3, Zenon DEF InFlight
    <3>5. ci.phase # "renamed" /\ ci.phase \notin {"writing", "sync", "synced", "prepared"}
      BY <2>1, Zenon
    <3> QED BY <1>1, <2>1, <3>1, <3>4, <3>5, Zenon DEF IInv, Owned
  <2>2. ASSUME ~iw.open, deleting = NoRemovals, crashes = 0
        PROVE  /\ Newest(names) = acked
               /\ \A f \in names \ orphans : \E g \in CommitsIn(names) : f \in CommitFiles(g)
    <3>1. \A k : ~Condemned(k)
      BY <2>2, NoneCondemned, Zenon
    <3>2. Newest(names) = acked
      BY <1>1, <2>2, NewestAcked, Zenon
    <3> QED BY <1>1, <2>2, <3>1, <3>2, Zenon DEF IInv, Owned
  <2> QED BY <2>1, <2>2, Zenon DEF NothingLeaks
<1> QED BY <1>1, CommitInvariance, PTL

\* The names the writer takes next are free.
THEOREM NextNamesAlwaysFree == Spec => []NextNamesAreFree
<1>1. ASSUME IInv PROVE NextNamesAreFree
  <2>1. SUFFICES ASSUME iw.open
                 PROVE  /\ \A n \in Segs : n >= iw.counter => SegFile(n) \notin names
                        /\ \A g \in Gens : g > iw.gen /\ g > ci.gen =>
                             Pending(g) \notin names /\ Segments(g) \notin names
    BY Zenon DEF NextNamesAreFree
  <2>2. /\ \A n \in Segs : SegFile(n) \in names => n < iw.counter
        /\ \A g \in Gens : Segments(g) \in names => g <= iw.gen
        /\ \A g \in Gens : Pending(g) \in names => g <= iw.gen \/ g = ci.gen
    BY <1>1, <2>1, Zenon DEF IInv, NamesTaken
  <2>3. iw.counter \in Nat /\ iw.gen \in Nat /\ ci.gen \in Nat
    BY <1>1, BoundsAssumption DEF IInv, TypeOK, WriterRecord, CommitRecord
  <2>4. ASSUME NEW n \in Segs, n >= iw.counter PROVE SegFile(n) \notin names
    <3>1. ~(n < iw.counter)
      BY <2>3, <2>4 DEF Segs
    <3> QED BY <2>2, <3>1, Zenon
  <2>5. ASSUME NEW g \in Gens, g > iw.gen, g > ci.gen
        PROVE  Pending(g) \notin names /\ Segments(g) \notin names
    <3>1. ~(g <= iw.gen) /\ g # ci.gen
      BY <2>3, <2>5 DEF Gens
    <3> QED BY <2>2, <3>1, Zenon
  <2> QED BY <2>4, <2>5, Zenon
<1> QED BY <1>1, CommitInvariance, PTL

\* A snapshotted commit keeps all its files.
THEOREM SnapshotsAlwaysKept == Spec => []SnapshotsKept
<1>1. ASSUME IInv PROVE SnapshotsKept
  <2>1. ASSUME NEW g \in Gens, counts[g] > 0 PROVE CommitFiles(g) \subseteq names
    <3>1. names \in recent
      BY <1>1, Zenon DEF IInv, Shape
    <3>2. g \in CommitsIn(names)
      BY <1>1, <2>1, <3>1, Zenon DEF IInv, SnapshotsDurable, CommitsIn
    <3> QED BY <1>1, <3>1, <3>2, Zenon DEF IInv, CommitPointsSurvive
  <2> QED BY <2>1, Zenon DEF SnapshotsKept
<1> QED BY <1>1, CommitInvariance, PTL

\* Without counted changes, the infos are those of the last commit.
THEOREM UnchangedAlwaysCommitted == Spec => []UnchangedMeansCommitted
<1>1. IInv => UnchangedMeansCommitted
  BY Zenon DEF IInv, ChangesCounted, UnchangedMeansCommitted
<1> QED BY <1>1, CommitInvariance, PTL

\* A directory reader always finds a commit, as long as no commit fails.
THEOREM ReaderAlwaysFindsCommit == Spec => []ReaderFindsCommit
<1>1. IInv => ReaderFindsCommit
  BY Zenon DEF IInv, ReaderAhead, ReaderFindsCommit
<1> QED BY <1>1, CommitInvariance, PTL
=============================================================================
