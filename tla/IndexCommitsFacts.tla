------------------------- MODULE IndexCommitsFacts --------------------------
(***************************************************************************)
(* What the operators of IndexCommits compute, when the parts of the       *)
(* invariant of IndexCommitsInv carry over, and the steps of flushes, merges *)
(* and NRT readers, which change segments and no commit point.             *)
(***************************************************************************)
EXTENDS IndexCommitsInv, FiniteSetTheorems, TLAPS

-----------------------------------------------------------------------------
(* File names *)

\* The names of segments, pending and finished commits never clash.
LEMMA NamesDiffer ==
  /\ \A n, m : SegFile(n) = SegFile(m) => n = m
  /\ \A g, h : Segments(g) = Segments(h) => g = h
  /\ \A g, h : Pending(g) = Pending(h) => g = h
  /\ \A n, g : SegFile(n) # Segments(g) /\ SegFile(n) # Pending(g)
  /\ \A g, h : Segments(g) # Pending(h)
BY Zenon DEF SegFile, Segments, Pending

\* What a name is.
LEMMA NamesAre ==
  /\ \A n \in Segs : SegFile(n) \in Names
  /\ \A g \in Gens : Segments(g) \in Names /\ Pending(g) \in Names
  /\ \A f \in Names : \/ \E n \in Segs : f = SegFile(n)
                      \/ \E g \in Gens : f = Pending(g)
                      \/ \E g \in Gens : f = Segments(g)
BY Zenon DEF Names, FilesOf

\* Files of a set of segments.
LEMMA FilesOfIs ==
  /\ \A S, f : f \in FilesOf(S) <=> \E n \in S : f = SegFile(n)
  /\ \A S, n : SegFile(n) \in FilesOf(S) <=> n \in S
  /\ \A S, g : Segments(g) \notin FilesOf(S) /\ Pending(g) \notin FilesOf(S)
  /\ \A S \in SUBSET Segs : FilesOf(S) \in SUBSET Names
  /\ FilesOf({}) = {}
<1>1. \A S, f : f \in FilesOf(S) <=> \E n \in S : f = SegFile(n)
  BY Zenon DEF FilesOf
<1>2. ASSUME NEW S, NEW n PROVE SegFile(n) \in FilesOf(S) <=> n \in S
  BY <1>1, NamesDiffer
<1>3. ASSUME NEW S, NEW g
      PROVE  Segments(g) \notin FilesOf(S) /\ Pending(g) \notin FilesOf(S)
  BY <1>1, NamesDiffer
<1>4. ASSUME NEW S \in SUBSET Segs PROVE FilesOf(S) \in SUBSET Names
  BY <1>1, NamesAre
<1>5. FilesOf({}) = {}
  BY <1>1
<1> QED BY <1>1, <1>2, <1>3, <1>4, <1>5, Zenon

\* Files of fewer segments.
LEMMA FilesOfSubset ==
  ASSUME NEW S, NEW T, S \subseteq T
  PROVE  \A f \in FilesOf(S) : f \in FilesOf(T)
<1>1. ASSUME NEW f \in FilesOf(S) PROVE f \in FilesOf(T)
  BY FilesOfIs
<1> QED BY <1>1, Zenon

\* Files of one segment more.
LEMMA FilesOfAdd ==
  ASSUME NEW S, NEW n
  PROVE  \A f : f \in FilesOf(S \union {n}) <=> f \in FilesOf(S) \/ f = SegFile(n)
<1>1. ASSUME NEW f
      PROVE  f \in FilesOf(S \union {n}) <=> f \in FilesOf(S) \/ f = SegFile(n)
  BY FilesOfIs
<1> QED BY <1>1, Zenon

\* Files of the segments of one set and not, or also, of another.
LEMMA FilesOfMinus ==
  ASSUME NEW S, NEW T
  PROVE  /\ \A f : f \in FilesOf(S \ T) <=> f \in FilesOf(S) /\ f \notin FilesOf(T)
         /\ \A f : f \in FilesOf(S \intersect T) <=> f \in FilesOf(S) /\ f \in FilesOf(T)
<1>1. ASSUME NEW f
      PROVE  f \in FilesOf(S \ T) <=> f \in FilesOf(S) /\ f \notin FilesOf(T)
  BY FilesOfIs, NamesDiffer
<1>2. ASSUME NEW f
      PROVE  f \in FilesOf(S \intersect T) <=> f \in FilesOf(S) /\ f \in FilesOf(T)
  BY FilesOfIs, NamesDiffer
<1> QED BY <1>1, <1>2, Zenon

\* The kind of a file, as delete_files asks for it.
LEMMA PointNames ==
  \A f \in Names : f[1] = "segments" <=> \E g \in Gens : f = Segments(g)
<1>1. SUFFICES ASSUME NEW f \in Names
               PROVE  f[1] = "segments" <=> \E g \in Gens : f = Segments(g)
  BY Zenon
<1>2. \A n : SegFile(n)[1] = "seg"
  BY Zenon DEF SegFile
<1>3. \A g : Pending(g)[1] = "pending"
  BY Zenon DEF Pending
<1>4. \A g : Segments(g)[1] = "segments"
  BY Zenon DEF Segments
<1>5. "seg" # "segments" /\ "pending" # "segments"
  BY Zenon
<1> QED BY <1>2, <1>3, <1>4, <1>5, NamesAre, Zenon

\* Files of a commit point.
LEMMA CommitFilesIs ==
  /\ \A g, f : f \in CommitFiles(g)
                 <=> f = Segments(g) \/ \E n \in content[g].segs : f = SegFile(n)
  /\ \A g, h : Segments(h) \in CommitFiles(g) <=> g = h
  /\ \A g, h : Pending(h) \notin CommitFiles(g)
  /\ \A g, n : SegFile(n) \in CommitFiles(g) <=> n \in content[g].segs
<1>1. \A g, f : f \in CommitFiles(g)
                 <=> f = Segments(g) \/ \E n \in content[g].segs : f = SegFile(n)
  BY FilesOfIs, Zenon DEF CommitFiles
<1>2. ASSUME NEW g, NEW h PROVE Segments(h) \in CommitFiles(g) <=> g = h
  BY <1>1, NamesDiffer
<1>3. ASSUME NEW g, NEW h PROVE Pending(h) \notin CommitFiles(g)
  BY <1>1, NamesDiffer
<1>4. ASSUME NEW g, NEW n
      PROVE  SegFile(n) \in CommitFiles(g) <=> n \in content[g].segs
  BY <1>1, NamesDiffer
<1> QED BY <1>1, <1>2, <1>3, <1>4, Zenon

-----------------------------------------------------------------------------
(* Maxima and numbers of commits *)

\* Sets of generations are finite, with natural cardinality.
LEMMA GensFinite ==
  \A X \in SUBSET Gens : /\ IsFiniteSet(X) /\ Cardinality(X) \in Nat
                         /\ Cardinality(X) = 0 <=> X = {}
<1>1. IsFiniteSet(Gens)
  BY FS_Interval, BoundsAssumption DEF Gens
<1>2. ASSUME NEW X \in SUBSET Gens PROVE IsFiniteSet(X)
  BY <1>1, FS_Subset, Zenon
<1>3. ASSUME NEW X \in SUBSET Gens
      PROVE  Cardinality(X) \in Nat /\ (Cardinality(X) = 0 <=> X = {})
  BY <1>2, FS_CardinalityType, FS_EmptySet, Zenon
<1> QED BY <1>2, <1>3, Zenon

\* A finite non-empty set of numbers has a maximum.
LEMMA MaxIs ==
  ASSUME NEW S \in SUBSET Nat, IsFiniteSet(S), S # {}
  PROVE  Max(S) \in S /\ \A y \in S : y <= Max(S)
<1> DEFINE Above(x) == { y \in S : y > x }
           T == { Above(x) : x \in S }
<1>1. T \subseteq FiniteSubsetsOf(S) /\ T # {}
  <2>1. \A x \in S : Above(x) \in SUBSET S
    BY Zenon
  <2>2. \A x \in S : IsFiniteSet(Above(x))
    BY <2>1, FS_Subset, Zenon
  <2> QED BY <2>1, <2>2, Zenon DEF FiniteSubsetsOf
<1>2. IsWellFoundedOn(StrictSubsetOrdering(S), FiniteSubsetsOf(S))
  BY FS_StrictSubsetOrderingWellFounded, Zenon
<1> HIDE DEF T
<1>3. PICK A \in T : \A B \in T : ~(<<B, A>> \in StrictSubsetOrdering(S))
  BY <1>1, <1>2, WFMin, Zenon
<1> USE DEF T
<1>4. PICK x \in S : A = Above(x)
  BY <1>3, Zenon
<1>5. \A y \in S : ~(y > x)
  <2>1. SUFFICES ASSUME NEW y \in S, y > x PROVE FALSE
    BY Zenon
  <2>2. Above(y) \subseteq Above(x)
    <3>1. ASSUME NEW z \in S, z > y PROVE z > x
      <4>1. x \in Nat /\ y \in Nat /\ z \in Nat
        BY Zenon
      <4> QED BY <4>1, <2>1, <3>1
    <3> QED BY <3>1, Zenon
  <2>3. y \in Above(x) /\ y \notin Above(y)
    BY <2>1
  <2>4. Above(y) # Above(x)
    BY <2>3, Zenon
  <2>5. <<Above(y), Above(x)>> \in StrictSubsetOrdering(S)
    BY <2>2, <2>4, Zenon DEF StrictSubsetOrdering
  <2> QED BY <2>5, <1>3, <1>4, Zenon
<1>6. \A y \in S : x >= y
  BY <1>5
<1>7. Max(S) \in S /\ \A y \in S : Max(S) >= y
  BY <1>6, Zenon DEF Max
<1>8. Max(S) \in Nat
  BY <1>7, Zenon
<1> QED BY <1>7, <1>8, Zenon

\* The newest of a set of commits.
LEMMA MaxGens ==
  ASSUME NEW C \in SUBSET Gens, C # {}
  PROVE  Max(C) \in C /\ \A g \in C : g <= Max(C)
<1>1. C \in SUBSET Nat
  BY DEF Gens
<1> QED BY <1>1, GensFinite, MaxIs, Zenon

\* The newest commit of a listing.
LEMMA NewestIs ==
  ASSUME NEW L
  PROVE  /\ Newest(L) \in 0 .. MaxGen
         /\ Newest(L) = 0 <=> CommitsIn(L) = {}
         /\ CommitsIn(L) # {} => Newest(L) \in CommitsIn(L)
         /\ \A g \in CommitsIn(L) : g <= Newest(L)
<1>1. CommitsIn(L) \in SUBSET Gens
  BY Zenon DEF CommitsIn
<1>2. CASE CommitsIn(L) = {}
  <2>1. Newest(L) = 0
    BY <1>2, Zenon DEF Newest
  <2> QED BY <1>2, <2>1, BoundsAssumption
<1>3. CASE CommitsIn(L) # {}
  <2>1. Newest(L) = Max(CommitsIn(L))
    BY <1>3, Zenon DEF Newest
  <2>2. Newest(L) \in CommitsIn(L) /\ \A g \in CommitsIn(L) : g <= Newest(L)
    BY <1>1, <1>3, <2>1, MaxGens, Zenon
  <2>3. Newest(L) \in Gens
    BY <1>1, <2>2, Zenon
  <2>4. Newest(L) \in 0 .. MaxGen /\ Newest(L) # 0
    BY <2>3, BoundsAssumption DEF Gens
  <2> QED BY <1>3, <2>2, <2>4, Zenon
<1> QED BY <1>2, <1>3, Zenon

-----------------------------------------------------------------------------
(* Reference counts *)

\* Held is a truth value as a number.
LEMMA HeldIs ==
  \A f, F : Held(f, F) \in {0, 1} /\ (Held(f, F) = 1 <=> f \in F)
BY DEF Held

\* inc_ref_files adds one for each file of F.
LEMMA IncRefIs ==
  ASSUME NEW r \in [Names -> Nat], NEW F
  PROVE  /\ IncRef(r, F) \in [Names -> Nat]
         /\ \A f \in Names : IncRef(r, F)[f] = r[f] + Held(f, F)
BY DEF IncRef, Held

\* dec_ref_files takes one for each file of F that has one.
LEMMA DecRefIs ==
  ASSUME NEW r \in [Names -> Nat], NEW F
  PROVE  /\ DecRef(r, F) \in [Names -> Nat]
         /\ \A f \in Names : Held(f, F) <= r[f] => DecRef(r, F)[f] = r[f] - Held(f, F)
         /\ \A f \in Names : f \notin F => DecRef(r, F)[f] = r[f]
         /\ \A f \in Names : DecRef(r, F)[f] <= r[f]
BY DEF DecRef, Held

\* The commit points that hold a file.
PointsOf(C, f) == { g \in C : f \in CommitFiles(g) }

\* Numbers of commit points that hold a file, and what is left of them.
LEMMA PointsCount ==
  ASSUME NEW C \in SUBSET Gens, NEW f
  PROVE  /\ Cardinality(PointsOf(C, f)) \in Nat
         /\ Cardinality(PointsOf(C, f)) = 0 <=> \A g \in C : f \notin CommitFiles(g)
         /\ \A D \in SUBSET C : Cardinality(PointsOf(C \ D, f))
              = Cardinality(PointsOf(C, f)) - Cardinality(PointsOf(D, f))
         /\ \A g \in Gens \ C : Cardinality(PointsOf(C \union {g}, f))
              = Cardinality(PointsOf(C, f)) + Held(f, CommitFiles(g))
<1>1. PointsOf(C, f) \in SUBSET Gens
  BY Zenon DEF PointsOf
<1>2. /\ IsFiniteSet(PointsOf(C, f)) /\ Cardinality(PointsOf(C, f)) \in Nat
      /\ Cardinality(PointsOf(C, f)) = 0 <=> PointsOf(C, f) = {}
  BY <1>1, GensFinite, Zenon
<1>3. PointsOf(C, f) = {} <=> \A g \in C : f \notin CommitFiles(g)
  BY Zenon DEF PointsOf
<1>4. ASSUME NEW D \in SUBSET C
      PROVE  Cardinality(PointsOf(C \ D, f))
               = Cardinality(PointsOf(C, f)) - Cardinality(PointsOf(D, f))
  <2>1. PointsOf(C \ D, f) = PointsOf(C, f) \ PointsOf(D, f)
    BY Zenon DEF PointsOf
  <2>2. PointsOf(C, f) \cap PointsOf(D, f) = PointsOf(D, f)
    BY Zenon DEF PointsOf
  <2> QED BY <1>2, <2>1, <2>2, FS_Difference, Zenon
<1>5. ASSUME NEW g \in Gens \ C
      PROVE  Cardinality(PointsOf(C \union {g}, f))
               = Cardinality(PointsOf(C, f)) + Held(f, CommitFiles(g))
  <2>1. CASE f \in CommitFiles(g)
    <3>1. PointsOf(C \union {g}, f) = PointsOf(C, f) \union {g}
      BY <2>1, Zenon DEF PointsOf
    <3>2. g \notin PointsOf(C, f)
      BY Zenon DEF PointsOf
    <3>3. Cardinality(PointsOf(C, f) \union {g}) = Cardinality(PointsOf(C, f)) + 1
      BY <1>2, <3>2, FS_AddElement, Zenon
    <3>4. Held(f, CommitFiles(g)) = 1
      BY <2>1, HeldIs, Zenon
    <3> QED BY <3>1, <3>3, <3>4, Zenon
  <2>2. CASE f \notin CommitFiles(g)
    <3>1. PointsOf(C \union {g}, f) = PointsOf(C, f)
      BY <2>2, Zenon DEF PointsOf
    <3>2. Held(f, CommitFiles(g)) = 0
      BY <2>2, Zenon DEF Held
    <3> QED BY <1>2, <3>1, <3>2
  <2> QED BY <2>1, <2>2, Zenon
<1> QED BY <1>2, <1>3, <1>4, <1>5, Zenon

\* Someone refers to a file.
Referenced(f) ==
  \/ \E g \in commits : f \in CommitFiles(g)
  \/ f \in lastFiles \/ f \in ci.files
  \/ f \in FilesOf(merging.sources) \/ f \in FilesOf(nrt.segs)

\* The number of holders, as a sum.
LEMMA HoldersAre ==
  \A f : Holders(f) = Cardinality(PointsOf(commits, f)) + Held(f, lastFiles)
                        + Held(f, ci.files) + Held(f, FilesOf(merging.sources))
                        + Held(f, FilesOf(nrt.segs))
BY Zenon DEF Holders, PointsOf

\* An exact count and its parts.
LEMMA CountParts ==
  TypeOK /\ Counted => \A f \in Names :
    /\ refs[f] = Cardinality(PointsOf(commits, f)) + Held(f, lastFiles)
                   + Held(f, ci.files) + Held(f, FilesOf(merging.sources))
                   + Held(f, FilesOf(nrt.segs))
    /\ Cardinality(PointsOf(commits, f)) \in Nat
    /\ Held(f, lastFiles) \in {0, 1} /\ Held(f, ci.files) \in {0, 1}
    /\ Held(f, FilesOf(merging.sources)) \in {0, 1}
    /\ Held(f, FilesOf(nrt.segs)) \in {0, 1}
<1>1. SUFFICES ASSUME TypeOK, Counted, NEW f \in Names
               PROVE  /\ refs[f] = Cardinality(PointsOf(commits, f)) + Held(f, lastFiles)
                                     + Held(f, ci.files) + Held(f, FilesOf(merging.sources))
                                     + Held(f, FilesOf(nrt.segs))
                      /\ Cardinality(PointsOf(commits, f)) \in Nat
                      /\ Held(f, lastFiles) \in {0, 1} /\ Held(f, ci.files) \in {0, 1}
                      /\ Held(f, FilesOf(merging.sources)) \in {0, 1}
                      /\ Held(f, FilesOf(nrt.segs)) \in {0, 1}
  BY Zenon
<1>2. refs[f] = Cardinality(PointsOf(commits, f)) + Held(f, lastFiles)
                  + Held(f, ci.files) + Held(f, FilesOf(merging.sources))
                  + Held(f, FilesOf(nrt.segs))
  BY <1>1, HoldersAre, Zenon DEF Counted
<1>3. commits \in SUBSET Gens
  BY <1>1, Zenon DEF TypeOK
<1> QED BY <1>2, <1>3, PointsCount, HeldIs, Zenon

\* With exact counts, a count is zero when nobody refers to the file.
LEMMA ReferencedCounts ==
  TypeOK /\ Counted => \A f \in Names :
    refs[f] \in Nat /\ (refs[f] > 0 <=> Referenced(f)) /\ (refs[f] = 0 <=> ~Referenced(f))
<1>1. SUFFICES ASSUME TypeOK, Counted, NEW f \in Names
               PROVE  /\ refs[f] \in Nat /\ (refs[f] > 0 <=> Referenced(f))
                      /\ refs[f] = 0 <=> ~Referenced(f)
  BY Zenon
<1>2. /\ refs[f] = Cardinality(PointsOf(commits, f)) + Held(f, lastFiles)
                  + Held(f, ci.files) + Held(f, FilesOf(merging.sources))
                  + Held(f, FilesOf(nrt.segs))
      /\ Cardinality(PointsOf(commits, f)) \in Nat
      /\ Held(f, lastFiles) \in {0, 1} /\ Held(f, ci.files) \in {0, 1}
      /\ Held(f, FilesOf(merging.sources)) \in {0, 1}
      /\ Held(f, FilesOf(nrt.segs)) \in {0, 1}
  BY <1>1, CountParts, Zenon
<1>3. commits \in SUBSET Gens
  BY <1>1, Zenon DEF TypeOK
<1>4. Cardinality(PointsOf(commits, f)) = 0 <=> \A g \in commits : f \notin CommitFiles(g)
  BY <1>3, PointsCount, Zenon
<1>5. /\ Held(f, lastFiles) = 1 <=> f \in lastFiles
      /\ Held(f, ci.files) = 1 <=> f \in ci.files
      /\ Held(f, FilesOf(merging.sources)) = 1 <=> f \in FilesOf(merging.sources)
      /\ Held(f, FilesOf(nrt.segs)) = 1 <=> f \in FilesOf(nrt.segs)
  BY HeldIs, Zenon
<1>6. /\ refs[f] \in Nat /\ (refs[f] > 0 <=> refs[f] # 0)
      /\ refs[f] # 0 <=> ~(/\ Cardinality(PointsOf(commits, f)) = 0
                           /\ Held(f, lastFiles) # 1 /\ Held(f, ci.files) # 1
                           /\ Held(f, FilesOf(merging.sources)) # 1
                           /\ Held(f, FilesOf(nrt.segs)) # 1)
  BY <1>2
<1> QED BY <1>4, <1>5, <1>6, Zenon DEF Referenced

\* The same after a step.
LEMMA ReferencedCountsNext ==
  TypeOK' /\ Counted' => \A f \in Names :
    refs'[f] \in Nat /\ (refs'[f] > 0 <=> Referenced(f)') /\ (refs'[f] = 0 <=> ~Referenced(f)')
<1>1. (TypeOK /\ Counted => \A f \in Names :
         refs[f] \in Nat /\ (refs[f] > 0 <=> Referenced(f)) /\ (refs[f] = 0 <=> ~Referenced(f)))'
  BY ReferencedCounts, PTL
<1> QED BY <1>1, Zenon

\* The fields of the records.
LEMMA Fields ==
  TypeOK =>
    /\ iw.open \in BOOLEAN /\ iw.infos \in SUBSET Segs /\ iw.rollback \in SUBSET Segs
    /\ iw.gen \in 0 .. MaxGen /\ iw.lastGen \in 0 .. MaxGen /\ iw.counter \in Nat
    /\ iw.changeCount \in Nat /\ iw.lastCommitCC \in Nat
    /\ merging.sources \in SUBSET Segs /\ merging.target \in 0 .. MaxSeg
    /\ merging.commit \in BOOLEAN
    /\ ci.phase \in Phases
    /\ ci.segs \in SUBSET Segs /\ ci.counter \in Nat /\ ci.gen \in 0 .. MaxGen
    /\ ci.cc \in Nat /\ ci.files \in SUBSET Names
    /\ nrt.open \in BOOLEAN /\ nrt.segs \in SUBSET Segs
    /\ dr.pc \in {"idle", "list", "read", "open", "done", "failed"}
    /\ dr.tried \in 0 .. MaxGen /\ dr.gen \in 0 .. MaxGen /\ dr.todo \in SUBSET Names
BY Zenon DEF TypeOK, WriterRecord, MergeRecord, CommitRecord, ReaderRecord, FinderRecord

\* The segments of a commit point.
LEMMA ContentIs ==
  TypeOK => \A g \in Gens : content[g].segs \in SUBSET Segs /\ content[g].counter \in Nat
BY Zenon DEF TypeOK

\* Only commit points hold anything but files of segments.
LEMMA SegmentFiles ==
  TypeOK /\ Shape =>
    /\ lastFiles \subseteq FilesOf(Segs) /\ ci.files \subseteq FilesOf(Segs)
    /\ FilesOf(merging.sources) \subseteq FilesOf(Segs)
    /\ FilesOf(nrt.segs) \subseteq FilesOf(Segs)
<1>1. SUFFICES ASSUME TypeOK, Shape
               PROVE  /\ lastFiles \subseteq FilesOf(Segs) /\ ci.files \subseteq FilesOf(Segs)
                      /\ FilesOf(merging.sources) \subseteq FilesOf(Segs)
                      /\ FilesOf(nrt.segs) \subseteq FilesOf(Segs)
  BY Zenon
<1>2. \A S \in SUBSET Segs : FilesOf(S) \subseteq FilesOf(Segs)
  BY FilesOfSubset, Zenon
<1>3. lastFiles = FilesOf(iw.infos) /\ ci.files = FilesOf(ci.segs)
  BY <1>1, Zenon DEF Shape
<1> QED BY <1>1, <1>2, <1>3, Fields, Zenon

\* Nothing is condemned when nothing is left to remove.
LEMMA NoneCondemned ==
  deleting = NoRemovals => \A f : ~Condemned(f)
BY Zenon DEF NoRemovals, Condemned

\* The stages of removals.
LEMMA StagesAre ==
  /\ 0 \in Stages /\ LastStage \in Stages /\ LastStage # 0
  /\ \A g \in Gens : g \in Stages /\ g # 0 /\ g # LastStage
  /\ \A i \in Stages : i \in Nat
BY BoundsAssumption DEF Stages, LastStage, Gens

\* Removals are sets of names.
LEMMA RemovalsType ==
  ASSUME NEW first \in SUBSET Names, NEW last \in SUBSET Names, NEW with,
         \A i \in DOMAIN with : with[i] \in SUBSET Names
  PROVE  Removals(first, with, last) \in [Stages -> SUBSET Names]
BY Zenon DEF Removals

\* What is removed at each stage.
LEMMA RemovalsAt ==
  ASSUME NEW first, NEW last, NEW with
  PROVE  /\ Removals(first, with, last)[0] = first
         /\ Removals(first, with, last)[LastStage] = last
         /\ \A g \in Gens : Removals(first, with, last)[g]
              = IF g \in DOMAIN with THEN with[g] ELSE {}
         /\ \A i \in Stages : i = 0 \/ i = LastStage \/ i \in Gens
<1>1. \A i \in Stages : i = 0 \/ i = LastStage \/ i \in Gens
  BY BoundsAssumption DEF Stages, LastStage, Gens
<1> QED BY <1>1, StagesAre, Zenon DEF Removals

\* Removals in one or two calls.
LEMMA RemovedFiles ==
  ASSUME NEW first, NEW last, NEW R, R = Removals(first, <<>>, last)
  PROVE  \A f : (\E i \in Stages : f \in R[i]) <=> f \in first \/ f \in last
<1>1. \A g \in Gens : g \notin DOMAIN <<>>
  OBVIOUS
<1>2. /\ R[0] = first /\ R[LastStage] = last
      /\ \A g \in Gens : R[g] = IF g \in DOMAIN <<>> THEN <<>>[g] ELSE {}
      /\ \A i \in Stages : i = 0 \/ i = LastStage \/ i \in Gens
  BY RemovalsAt
<1>3. \A g \in Gens : R[g] = {}
  BY <1>1, <1>2, Zenon
<1> QED BY <1>2, <1>3, StagesAre, Zenon

-----------------------------------------------------------------------------
(* What a conjunct of the invariant does not depend on *)

\* Shape follows what it relates.
LEMMA ShapeKept ==
  ASSUME Shape, UNCHANGED <<names, recent, lastFiles, merging, nrt, deleting,
                            flushing, commits, ci, iw.open, iw.infos>>
  PROVE  Shape'
BY Zenon DEF Shape, Condemned, NoMerge, NoReader, IdleCommit, NoRemovals

\* The counts follow the holders.
LEMMA CountedKept ==
  ASSUME Counted, UNCHANGED <<refs, commits, content, lastFiles, ci.files,
                              merging.sources, nrt.segs>>
  PROVE  Counted'
BY Zenon DEF Counted, Holders, CommitFiles

\* Files referenced.
LEMMA ReferencedLiveKept ==
  ASSUME ReferencedLive, UNCHANGED <<refs, names, deleting>>
  PROVE  ReferencedLive'
BY Zenon DEF ReferencedLive, Condemned

\* The order of removals.
LEMMA PointsFirstKept ==
  ASSUME PointsFirst, UNCHANGED <<deleting, names, content>>
  PROVE  PointsFirst'
BY Zenon DEF PointsFirst, CommitsIn, CommitFiles

\* The deleter's commit points.
LEMMA PointsKnownKept ==
  ASSUME PointsKnown, UNCHANGED <<iw.open, names, commits, deleting, ci.gen>>,
         ci'.phase = "renamed" <=> ci.phase = "renamed"
  PROVE  PointsKnown'
BY Zenon DEF PointsKnown, CommitsIn, Condemned, Renamed

\* The acknowledged commit.
LEMMA AckedKeptKept ==
  ASSUME AckedKept,
         UNCHANGED <<acked, recent, names, commits, deleting, iw.open, lastCommit,
                     iw.lastGen, iw.gen, ci.gen>>,
         ci'.phase = "renamed" <=> ci.phase = "renamed"
  PROVE  AckedKept'
BY Zenon DEF AckedKept, CommitsIn, Condemned, Renamed

\* Snapshots.
LEMMA SnapshotsKeptKept ==
  ASSUME SnapshotsDurable, UNCHANGED <<counts, deleting, recent>>
  PROVE  SnapshotsDurable'
BY Zenon DEF SnapshotsDurable, Condemned

\* Names taken.
LEMMA NamesTakenKept ==
  ASSUME NamesTaken, UNCHANGED <<iw.open, names, iw.counter, iw.gen, ci.gen>>,
         ci'.phase \in Written <=> ci.phase \in Written
  PROVE  NamesTaken'
BY Zenon DEF NamesTaken

\* The commit in progress.
LEMMA CommitInProgressKept ==
  ASSUME CommitInProgress,
         UNCHANGED <<ci, iw.gen, acked, content, counts, synced, names>>
  PROVE  CommitInProgress'
BY Zenon DEF CommitInProgress

\* Segments being written.
LEMMA FreshKept ==
  ASSUME Fresh, UNCHANGED <<merging.target, flushing, names, deleting, refs>>
  PROVE  Fresh'
BY Zenon DEF Fresh, InFlight, Condemned

\* Change counts.
LEMMA ChangesCountedKept ==
  ASSUME ChangesCounted,
         UNCHANGED <<iw.open, iw.lastCommitCC, iw.changeCount, iw.lastGen,
                     iw.infos, content, ci.cc, ci.segs>>,
         ci'.phase = "idle" <=> ci.phase = "idle"
  PROVE  ChangesCounted'
BY Zenon DEF ChangesCounted

\* Readers of the directory.
LEMMA ReaderAheadKept ==
  ASSUME ReaderAhead, UNCHANGED <<fails, deleting, acked, dr, names, content>>
  PROVE  ReaderAhead'
BY Zenon DEF ReaderAhead, Condemned, CommitsIn

\* Owners of files.
LEMMA OwnedKept ==
  ASSUME Owned,
         UNCHANGED <<iw.open, names, refs, deleting, orphans, flushing,
                     merging.target, ci.phase, ci.gen, crashes, content>>
  PROVE  Owned'
BY Zenon DEF Owned, InFlight, Condemned, CommitsIn, CommitFiles

\* Commit points in listings.
LEMMA PointsSurviveKept ==
  ASSUME CommitPointsSurvive, UNCHANGED <<recent, content, synced>>
  PROVE  CommitPointsSurvive'
BY Zenon DEF CommitPointsSurvive, CommitsIn, CommitFiles

-----------------------------------------------------------------------------
(* Steps under IndexWriter.inner *)

\* Under the lock nothing is condemned, and the commit points in the directory
\* are those of the deleter.
LEMMA LockFree ==
  ASSUME IInv, Writing
  PROVE  /\ iw.open /\ deleting = NoRemovals
         /\ ci.phase # "writing" /\ ci.phase # "renamed"
         /\ \A f : ~Condemned(f)
         /\ \A g \in CommitsIn(names) : g \in commits /\ g <= acked
         /\ \A g : ~Renamed(g)
<1>1. iw.open /\ deleting = NoRemovals /\ ci.phase # "writing" /\ ci.phase # "renamed"
  BY Zenon DEF Writing, InnerFree
<1>2. \A f : ~Condemned(f)
  BY <1>1, NoneCondemned, Zenon
<1>3. \A g : ~Renamed(g)
  BY <1>1, Zenon DEF Renamed
<1>4. \A g \in CommitsIn(names) : g \in commits /\ g <= acked
  BY <1>1, <1>2, <1>3, Zenon DEF IInv, PointsKnown, AckedKept
<1> QED BY <1>1, <1>2, <1>3, <1>4, Zenon

\* References are taken and given up, and what lost its last one is condemned:
\* what follows for files, commit points and readers.
LEMMA Released ==
  ASSUME IInv, Writing, TypeOK', Counted',
         UNCHANGED <<disk, commits, policy, history, dr>>,
         iw'.open, iw'.lastGen = iw.lastGen, iw.gen <= iw'.gen,
         ci'.phase # "renamed",
         ci.phase \in {"sync", "synced", "prepared"}
           => ci'.phase \in {"sync", "synced", "prepared"} /\ ci'.gen = ci.gen,
         orphans \subseteq orphans', merging'.target \notin flushing',
         \A f \in Names : Referenced(f)' => f \in names,
         \A f : Condemned(f)' => f \in FilesOf(Segs) /\ ~Referenced(f)',
         \A f \in names : Referenced(f) => Referenced(f)' \/ Condemned(f)',
         \A m \in Segs : InFlight(m)' =>
           InFlight(m) /\ ~Referenced(SegFile(m))' /\ ~Condemned(SegFile(m))',
         \A m \in Segs : InFlight(m) =>
           \/ InFlight(m)' \/ Referenced(SegFile(m))' \/ Condemned(SegFile(m))'
           \/ SegFile(m) \in orphans'
  PROVE  /\ ReferencedLive' /\ PointsFirst' /\ PointsKnown' /\ AckedKept'
         /\ SnapshotsDurable' /\ ReaderAhead' /\ CommitPointsSurvive'
         /\ Fresh' /\ Owned'
<1>1. UNCHANGED <<names, recent, synced, content, commits, counts, lastCommit,
                  acked, crashes, fails, dr>>
  BY Zenon DEF disk, policy, history
<1>2. /\ iw.open /\ \A f : ~Condemned(f)
      /\ \A g \in CommitsIn(names) : g \in commits /\ g <= acked
      /\ ci.phase # "writing" /\ ci.phase # "renamed"
  BY LockFree, Zenon
<1>3. \A g : ~Condemned(Segments(g))'
  BY FilesOfIs, Zenon
<1>4. ReferencedLive'
  <2>1. ASSUME NEW f \in Names, refs'[f] > 0 PROVE f \in names' /\ ~Condemned(f)'
    BY <1>1, <2>1, ReferencedCountsNext, Zenon
  <2> QED BY <2>1, Zenon DEF ReferencedLive
<1>5. PointsFirst'
  <2>1. SUFFICES ASSUME NEW i \in Stages, NEW f \in deleting'[i], NEW g \in CommitsIn(names)',
                        f \in CommitFiles(g)'
                 PROVE  FALSE
    BY Zenon DEF PointsFirst
  <2>2. ~Referenced(f)'
    BY Zenon DEF Condemned
  <2>3. g \in commits'
    BY <1>1, <1>2, Zenon DEF CommitsIn
  <2> QED BY <2>1, <2>2, <2>3, Zenon DEF Referenced
<1>6. PointsKnown'
  BY <1>1, <1>2, Zenon DEF PointsKnown, CommitsIn
<1>7. AckedKept'
  <2>1. acked # 0 => \A L \in recent : Segments(acked) \in L
    BY Zenon DEF IInv, AckedKept
  <2>2. lastCommit = acked /\ iw.lastGen = acked /\ acked <= iw.gen
          /\ \A g \in commits : g <= acked
    BY <1>2, Zenon DEF IInv, AckedKept
  <2>3. acked <= iw'.gen
    <3>1. acked \in Nat /\ iw.gen \in Nat /\ iw'.gen \in Nat
      BY BoundsAssumption DEF IInv, TypeOK, WriterRecord
    <3> QED BY <2>2, <3>1
  <2> QED BY <1>1, <1>2, <1>3, <2>1, <2>2, <2>3, Zenon DEF AckedKept, CommitsIn
<1>8. SnapshotsDurable'
  BY <1>1, <1>3, Zenon DEF IInv, SnapshotsDurable
<1>9. ReaderAhead'
  BY <1>1, <1>3, Zenon DEF IInv, ReaderAhead, CommitsIn
<1>10. CommitPointsSurvive'
  BY <1>1, PointsSurviveKept, Zenon DEF IInv
<1>11. Fresh'
  <2>1. ASSUME NEW m \in Segs, InFlight(m)'
        PROVE  SegFile(m) \in names' /\ ~Condemned(SegFile(m))' /\ refs'[SegFile(m)] = 0
    <3>1. SegFile(m) \in names /\ SegFile(m) \in Names
      BY <2>1, NamesAre, Zenon DEF IInv, Fresh
    <3> QED BY <1>1, <2>1, <3>1, ReferencedCountsNext, Zenon
  <2> QED BY <2>1, Zenon DEF Fresh
<1>12. Owned'
  <2>1. SUFFICES ASSUME NEW f \in names', ~(refs'[f] > 0), ~Condemned(f)', f \notin orphans',
                        ~(\E m \in Segs : InFlight(m)' /\ f = SegFile(m))
                 PROVE  /\ ci'.phase \in {"writing", "sync", "synced", "prepared"}
                        /\ f = Pending(ci'.gen)
    BY Zenon DEF Owned
  <2>2. f \in names /\ f \in Names
    BY <1>1, Zenon DEF TypeOK
  <2>3. ~Referenced(f)'
    BY <2>1, <2>2, ReferencedCountsNext, Zenon
  <2>4. ~(refs[f] > 0)
    BY <2>1, <2>2, <2>3, ReferencedCounts, Zenon DEF IInv
  <2>5. f \notin orphans /\ \A m \in Segs : ~(InFlight(m) /\ f = SegFile(m))
    BY <2>1, <2>3, Zenon
  <2>6. ci.phase \in {"sync", "synced", "prepared"} /\ f = Pending(ci.gen)
    BY <1>2, <2>2, <2>4, <2>5, Zenon DEF IInv, Owned
  <2> QED BY <2>6, Zenon
<1> QED BY <1>4, <1>5, <1>6, <1>7, <1>8, <1>9, <1>10, <1>11, <1>12, Zenon

\* A counted change.
LEMMA ChangeCounted ==
  ASSUME IInv, iw.open, iw'.lastCommitCC = iw.lastCommitCC,
         iw'.changeCount = iw.changeCount + 1 \/ iw'.changeCount = iw.changeCount + 2,
         ci'.cc = ci.cc,
         ci'.phase = "idle" <=> ci.phase = "idle"
  PROVE  ChangesCounted'
<1>1. /\ iw.lastCommitCC <= iw.changeCount
      /\ ci.phase # "idle" => iw.lastCommitCC <= ci.cc /\ ci.cc <= iw.changeCount
  BY Zenon DEF IInv, ChangesCounted
<1>2. iw.lastCommitCC \in Nat /\ iw.changeCount \in Nat /\ ci.cc \in Nat
  BY Fields, Zenon DEF IInv
<1>3. iw.lastCommitCC <= iw'.changeCount /\ iw'.changeCount # iw.lastCommitCC
  BY <1>1, <1>2
<1>4. ci.phase # "idle" => ci.cc <= iw'.changeCount /\ ci.cc # iw'.changeCount
  BY <1>1, <1>2
<1> QED BY <1>1, <1>3, <1>4, Zenon DEF ChangesCounted

-----------------------------------------------------------------------------
(* Flushes and merges *)

\* Removals: what is given, and what has lost its last reference.
LEMMA Removed ==
  ASSUME NEW first \in SUBSET Names, NEW F \in SUBSET Names,
         deleting' = Removals(first, <<>>, Dropped(refs', F))
  PROVE  /\ deleting' \in [Stages -> SUBSET Names]
         /\ \A f : Condemned(f)' <=> f \in first \/ (f \in F /\ refs'[f] = 0)
<1>1. Dropped(refs', F) \in SUBSET Names
  BY Zenon DEF Dropped
<1>2. \A i \in DOMAIN <<>> : <<>>[i] \in SUBSET Names
  OBVIOUS
<1>3. deleting' \in [Stages -> SUBSET Names]
  BY <1>1, <1>2, RemovalsType, Zenon
<1>4. \A f : Condemned(f)' <=> f \in first \/ f \in Dropped(refs', F)
  BY RemovedFiles, Zenon DEF Condemned
<1> QED BY <1>3, <1>4, Zenon DEF Dropped

\* checkpoint(): what it does to the infos, the counts and the removals.
LEMMA Checkpointed ==
  ASSUME TypeOK, NEW r \in [Names -> Nat], NEW S \in SUBSET Segs,
         NEW first \in SUBSET Names, CheckpointWith(S, r, first),
         \A f \in Names : Held(f, lastFiles) <= r[f]
  PROVE  /\ iw' \in WriterRecord
         /\ iw'.open = iw.open /\ iw'.gen = iw.gen /\ iw'.lastGen = iw.lastGen
         /\ iw'.counter = iw.counter /\ iw'.lastCommitCC = iw.lastCommitCC
         /\ iw'.infos = S /\ iw'.changeCount = iw.changeCount + 1
         /\ refs' \in [Names -> Nat]
         /\ \A f \in Names : refs'[f] = r[f] + Held(f, FilesOf(S)) - Held(f, lastFiles)
         /\ lastFiles' = FilesOf(S) /\ lastFiles' \in SUBSET Names
         /\ deleting' \in [Stages -> SUBSET Names]
         /\ \A f : Condemned(f)' <=> f \in first \/ (f \in lastFiles /\ refs'[f] = 0)
         /\ UNCHANGED commits
<1>1. /\ iw' = [iw EXCEPT !.infos = S, !.changeCount = @ + 1]
      /\ refs' = DecRef(IncRef(r, FilesOf(S)), lastFiles)
      /\ lastFiles' = FilesOf(S)
      /\ deleting' = Removals(first, <<>>, Dropped(refs', lastFiles))
      /\ UNCHANGED commits
  BY Zenon DEF CheckpointWith, Checkpoint
<1>2. iw \in WriterRecord
  BY Zenon DEF TypeOK
<1>3. /\ iw' \in WriterRecord
      /\ iw'.open = iw.open /\ iw'.gen = iw.gen /\ iw'.lastGen = iw.lastGen
      /\ iw'.counter = iw.counter /\ iw'.lastCommitCC = iw.lastCommitCC
      /\ iw'.infos = S /\ iw'.changeCount = iw.changeCount + 1
  <2>1. iw' = [iw EXCEPT !.infos = S, !.changeCount = iw.changeCount + 1]
    BY <1>1, <1>2, Zenon DEF WriterRecord
  <2>2. iw.changeCount + 1 \in Nat
    BY <1>2 DEF WriterRecord
  <2> QED BY <1>2, <2>1, <2>2, Zenon DEF WriterRecord
<1>4. PICK q : q = IncRef(r, FilesOf(S))
  BY Zenon
<1>5. q \in [Names -> Nat] /\ \A f \in Names : q[f] = r[f] + Held(f, FilesOf(S))
  BY <1>4, IncRefIs, Zenon
<1>6. /\ DecRef(q, lastFiles) \in [Names -> Nat]
      /\ \A f \in Names : Held(f, lastFiles) <= q[f]
           => DecRef(q, lastFiles)[f] = q[f] - Held(f, lastFiles)
  BY <1>5, DecRefIs, Zenon
<1>7. refs' = DecRef(q, lastFiles)
  BY <1>1, <1>4, Zenon
<1>8. ASSUME NEW f \in Names
      PROVE  refs'[f] = r[f] + Held(f, FilesOf(S)) - Held(f, lastFiles)
  <2>1. Held(f, FilesOf(S)) \in {0, 1} /\ Held(f, lastFiles) \in {0, 1} /\ r[f] \in Nat
    BY HeldIs, Zenon
  <2>2. q[f] = r[f] + Held(f, FilesOf(S)) /\ Held(f, lastFiles) <= r[f]
    BY <1>5, Zenon
  <2>3. Held(f, lastFiles) <= q[f]
    BY <2>1, <2>2
  <2>4. refs'[f] = q[f] - Held(f, lastFiles)
    BY <1>6, <1>7, <2>3, Zenon
  <2> QED BY <2>1, <2>2, <2>4
<1>9. lastFiles \in SUBSET Names
  BY Zenon DEF TypeOK
<1>10. /\ deleting' \in [Stages -> SUBSET Names]
       /\ \A f : Condemned(f)' <=> f \in first \/ (f \in lastFiles /\ refs'[f] = 0)
  BY <1>1, <1>9, Removed, Zenon
<1>11. FilesOf(S) \in SUBSET Names
  BY FilesOfIs, Zenon
<1> QED BY <1>1, <1>3, <1>6, <1>7, <1>8, <1>10, <1>11, Zenon

\* publish_flushed_segment keeps the invariant.
LEMMA PublishFlushStep ==
  ASSUME IInv, NEW n \in Segs, PublishFlush(n)
  PROVE  IInv'
<1> DEFINE S == iw.infos \union {n}
<1>1. /\ Writing /\ n \in flushing /\ flushing' = flushing \ {n}
      /\ CheckpointWith(S, refs, {})
      /\ UNCHANGED <<names, recent, synced, content, orphans, merging, ci, counts,
                     lastCommit, nrt, dr, acked, crashes, fails>>
  BY Zenon DEF PublishFlush, disk, policy, history
<1>2. iw.open /\ ci.phase # "writing" /\ ci.phase # "renamed"
  BY <1>1, LockFree, Zenon
<1>3. TypeOK /\ Shape /\ Counted /\ Fresh
  BY Zenon DEF IInv
<1>4. S \in SUBSET Segs /\ refs \in [Names -> Nat] /\ {} \in SUBSET Names
  BY <1>3, Fields, Zenon DEF TypeOK
<1>5. \A f \in Names : Held(f, lastFiles) <= refs[f]
  BY <1>3, CountParts
<1> HIDE DEF S
<1>6. /\ iw' \in WriterRecord
      /\ iw'.open = iw.open /\ iw'.gen = iw.gen /\ iw'.lastGen = iw.lastGen
      /\ iw'.counter = iw.counter /\ iw'.lastCommitCC = iw.lastCommitCC
      /\ iw'.infos = S /\ iw'.changeCount = iw.changeCount + 1
      /\ refs' \in [Names -> Nat]
      /\ \A f \in Names : refs'[f] = refs[f] + Held(f, FilesOf(S)) - Held(f, lastFiles)
      /\ lastFiles' = FilesOf(S) /\ lastFiles' \in SUBSET Names
      /\ deleting' \in [Stages -> SUBSET Names]
      /\ \A f : Condemned(f)' <=> f \in lastFiles /\ refs'[f] = 0
      /\ UNCHANGED commits
  BY <1>1, <1>3, <1>4, <1>5, Checkpointed, Zenon
<1>7. TypeOK'
  BY <1>1, <1>3, <1>6, Zenon DEF TypeOK
<1>8. Counted'
  <2>1. ASSUME NEW f \in Names PROVE refs'[f] = Holders(f)'
    <3>1. Holders(f)' = Cardinality(PointsOf(commits, f)) + Held(f, FilesOf(S))
                      + Held(f, ci.files) + Held(f, FilesOf(merging.sources))
                      + Held(f, FilesOf(nrt.segs))
      BY <1>1, <1>6, Zenon DEF Holders, PointsOf, CommitFiles
    <3>2. Held(f, FilesOf(S)) \in {0, 1}
      BY HeldIs, Zenon
    <3> QED BY <1>3, <1>6, <3>1, <3>2, CountParts
  <2> QED BY <2>1, Zenon DEF Counted
<1>9. \A f : f \in FilesOf(S) <=> f \in lastFiles \/ f = SegFile(n)
  <2>1. lastFiles = FilesOf(iw.infos)
    BY <1>3, Zenon DEF Shape
  <2> QED BY <2>1, FilesOfAdd, Zenon DEF S
<1>10. \A f : Referenced(f)' <=> Referenced(f) \/ f = SegFile(n)
  <2>1. ASSUME NEW f PROVE Referenced(f)' <=> Referenced(f) \/ f = SegFile(n)
    BY <1>1, <1>6, <1>9, Zenon DEF Referenced, CommitFiles
  <2> QED BY <2>1, Zenon
<1>11. SegFile(n) \in names
  BY <1>1, <1>3, Zenon DEF Fresh, InFlight
<1>12. \A f \in Names : Referenced(f)' => f \in names
  BY <1>3, <1>10, <1>11, ReferencedCounts, Zenon DEF IInv, ReferencedLive
<1>13. \A f : ~Condemned(f)'
  <2>1. SUFFICES ASSUME NEW f, f \in lastFiles, refs'[f] = 0 PROVE FALSE
    BY <1>6, Zenon
  <2>2. f \in Names /\ Referenced(f)'
    BY <1>3, <1>10, <2>1, Zenon DEF TypeOK, Referenced
  <2> QED BY <1>7, <1>8, <2>1, <2>2, ReferencedCountsNext, Zenon
<1>14. \A m \in Segs : InFlight(m)' =>
         InFlight(m) /\ ~Referenced(SegFile(m))' /\ ~Condemned(SegFile(m))'
  <2>1. SUFFICES ASSUME NEW m \in Segs, InFlight(m)'
                 PROVE  InFlight(m) /\ ~Referenced(SegFile(m))'
    BY <1>13, Zenon
  <2>2. InFlight(m) /\ m # n
    BY <1>1, <1>3, <2>1, Zenon DEF InFlight, Fresh
  <2>3. ~Referenced(SegFile(m))
    BY <1>3, <2>2, NamesAre, ReferencedCounts, Zenon DEF Fresh
  <2> QED BY <1>10, <2>2, <2>3, NamesDiffer, Zenon
<1>15. \A m \in Segs : InFlight(m) => InFlight(m)' \/ Referenced(SegFile(m))'
  BY <1>1, <1>10, Zenon DEF InFlight
<1>16. merging'.target \notin flushing'
  BY <1>1, <1>3, Zenon DEF Fresh
<1>17. /\ ReferencedLive' /\ PointsFirst' /\ PointsKnown' /\ AckedKept'
       /\ SnapshotsDurable' /\ ReaderAhead' /\ CommitPointsSurvive'
       /\ Fresh' /\ Owned'
  <2>1. iw.gen <= iw'.gen
    BY <1>3, <1>6, Fields
  <2> QED BY <1>1, <1>2, <1>6, <1>7, <1>8, <1>10, <1>12, <1>13, <1>14, <1>15, <1>16, <2>1,
             Released, Zenon DEF disk, policy, history
<1>18. Shape'
  BY <1>1, <1>2, <1>3, <1>6, Zenon DEF Shape, S, IdleCommit
<1>19. NamesTaken' /\ CommitInProgress' /\ ChangesCounted'
  BY <1>1, <1>2, <1>6, NamesTakenKept, CommitInProgressKept, ChangeCounted, Zenon DEF IInv
<1> QED BY <1>7, <1>8, <1>17, <1>18, <1>19, Zenon DEF IInv

\* A discarded flush keeps the invariant.
LEMMA DiscardFlushStep ==
  ASSUME IInv, NEW n \in Segs, NEW published \in BOOLEAN, DiscardFlush(n, published)
  PROVE  IInv'
<1>1. /\ Writing /\ n \in flushing /\ flushing' = flushing \ {n}
      /\ deleting' = Removals({}, <<>>, Dropped(refs, {SegFile(n)}))
      /\ iw' = [iw EXCEPT !.changeCount = IF published THEN @ + 2 ELSE @]
      /\ UNCHANGED <<names, recent, synced, content, merging, refs, commits,
                     lastFiles, orphans, ci, counts, lastCommit, nrt, dr, acked,
                     crashes, fails>>
  BY Zenon DEF DiscardFlush, disk, deleter, policy, history
<1>2. iw.open /\ ci.phase # "writing" /\ ci.phase # "renamed"
  BY <1>1, LockFree, Zenon
<1>3. TypeOK /\ Shape /\ Counted /\ Fresh
  BY Zenon DEF IInv
<1>20. /\ iw' \in WriterRecord /\ iw'.open = iw.open /\ iw'.infos = iw.infos
       /\ iw'.gen = iw.gen /\ iw'.lastGen = iw.lastGen /\ iw'.counter = iw.counter
       /\ iw'.lastCommitCC = iw.lastCommitCC
       /\ iw'.changeCount = iw.changeCount \/ iw'.changeCount = iw.changeCount + 2
  <2>1. iw \in WriterRecord /\ iw.changeCount \in Nat
    BY <1>3, Fields, Zenon DEF TypeOK
  <2>2. PICK cc \in Nat : /\ iw' = [iw EXCEPT !.changeCount = cc]
                          /\ cc = iw.changeCount \/ cc = iw.changeCount + 2
    <3>1. iw.changeCount + 2 \in Nat
      BY <2>1
    <3>2. iw' = [iw EXCEPT !.changeCount = IF published THEN iw.changeCount + 2
                                           ELSE iw.changeCount]
      BY <1>1, <2>1, Zenon DEF WriterRecord
    <3> QED BY <2>1, <3>1, <3>2, Zenon
  <2> QED BY <2>1, <2>2 DEF WriterRecord
<1>4. {SegFile(n)} \in SUBSET Names /\ {} \in SUBSET Names
  BY NamesAre, Zenon
<1>5. deleting' = Removals({}, <<>>, Dropped(refs', {SegFile(n)}))
  BY <1>1, Zenon
<1>6. /\ deleting' \in [Stages -> SUBSET Names]
      /\ \A f : Condemned(f)' <=> f \in {} \/ (f \in {SegFile(n)} /\ refs'[f] = 0)
  BY <1>4, <1>5, Removed, Zenon
<1>7. refs[SegFile(n)] = 0 /\ ~Referenced(SegFile(n))
  BY <1>1, <1>3, NamesAre, ReferencedCounts, Zenon DEF Fresh, InFlight
<1>8. \A f : Condemned(f)' <=> f = SegFile(n)
  BY <1>1, <1>6, <1>7, Zenon
<1>9. TypeOK'
  BY <1>1, <1>3, <1>6, <1>20, Zenon DEF TypeOK
<1>10. Counted'
  BY <1>1, <1>3, CountedKept, Zenon
<1>11. \A f : Referenced(f)' <=> Referenced(f)
  BY <1>1, Zenon DEF Referenced, CommitFiles
<1>12. \A f \in Names : Referenced(f)' => f \in names
  BY <1>3, <1>11, ReferencedCounts, Zenon DEF IInv, ReferencedLive
<1>13. \A m \in Segs : InFlight(m)' =>
         InFlight(m) /\ ~Referenced(SegFile(m))' /\ ~Condemned(SegFile(m))'
  <2>1. SUFFICES ASSUME NEW m \in Segs, InFlight(m)'
                 PROVE  InFlight(m) /\ ~Referenced(SegFile(m))' /\ ~Condemned(SegFile(m))'
    BY Zenon
  <2>2. InFlight(m) /\ m # n
    BY <1>1, <1>3, <2>1, Zenon DEF InFlight, Fresh
  <2>3. ~Referenced(SegFile(m))
    BY <1>3, <2>2, NamesAre, ReferencedCounts, Zenon DEF Fresh
  <2> QED BY <1>8, <1>11, <2>2, <2>3, NamesDiffer, Zenon
<1>14. \A m \in Segs : InFlight(m) => InFlight(m)' \/ Condemned(SegFile(m))'
  BY <1>1, <1>8, Zenon DEF InFlight
<1>15. \A f : Condemned(f)' => f \in FilesOf(Segs) /\ ~Referenced(f)'
  BY <1>7, <1>8, <1>11, FilesOfIs, Zenon
<1>16. merging'.target \notin flushing'
  BY <1>1, <1>3, Zenon DEF Fresh
<1>17. /\ ReferencedLive' /\ PointsFirst' /\ PointsKnown' /\ AckedKept'
       /\ SnapshotsDurable' /\ ReaderAhead' /\ CommitPointsSurvive'
       /\ Fresh' /\ Owned'
  <2>1. iw.gen <= iw'.gen
    BY <1>20, <1>3, Fields
  <2> QED BY <1>1, <1>2, <1>20, <1>9, <1>10, <1>11, <1>12, <1>13, <1>14, <1>15, <1>16, <2>1,
             Released, Zenon DEF disk, policy, history
<1>18. Shape'
  BY <1>1, <1>2, <1>3, <1>20, Zenon DEF Shape, IdleCommit
<1>19. NamesTaken' /\ CommitInProgress' /\ ChangesCounted'
  <2>1. NamesTaken' /\ CommitInProgress'
    BY <1>1, <1>20, NamesTakenKept, CommitInProgressKept, Zenon DEF IInv
  <2>2. CASE iw'.changeCount = iw.changeCount
    BY <1>1, <1>20, <2>1, <2>2, ChangesCountedKept, Zenon DEF IInv
  <2>3. CASE iw'.changeCount = iw.changeCount + 2
    BY <1>1, <1>2, <1>20, <2>1, <2>3, ChangeCounted, Zenon
  <2> QED BY <1>20, <2>1, <2>2, <2>3, Zenon
<1> QED BY <1>9, <1>10, <1>17, <1>18, <1>19, Zenon DEF IInv

\* register_merge keeps the invariant.
LEMMA StartMergeStep ==
  ASSUME IInv, NEW S \in SUBSET Segs, StartMerge(S)
  PROVE  IInv'
<1>1. /\ Writing /\ merging = NoMerge /\ S \subseteq iw.infos
      /\ merging' = [sources |-> S, target |-> MaxSeg, commit |-> FALSE]
      /\ refs' = IncRef(refs, FilesOf(S))
      /\ UNCHANGED <<names, recent, synced, content, iw, flushing, commits, lastFiles,
                     orphans, deleting, ci, counts, lastCommit, nrt, dr, acked,
                     crashes, fails>>
  BY Zenon DEF StartMerge, RegisterMerge, disk, policy, history
<1>2. /\ iw.open /\ ci.phase # "writing" /\ ci.phase # "renamed"
      /\ \A f : ~Condemned(f)
  BY <1>1, LockFree, Zenon
<1>3. TypeOK /\ Shape /\ Counted /\ Fresh
  BY Zenon DEF IInv
<1>4. /\ merging' \in MergeRecord /\ merging'.sources = S /\ merging'.target = MaxSeg
      /\ merging.sources = {} /\ merging.target = MaxSeg /\ MaxSeg \notin Segs
  BY <1>1, BoundsAssumption DEF MergeRecord, NoMerge, Segs
<1>5. /\ refs' \in [Names -> Nat]
      /\ \A f \in Names : refs'[f] = refs[f] + Held(f, FilesOf(S))
  BY <1>1, <1>3, IncRefIs, Zenon DEF TypeOK
<1>6. TypeOK'
  BY <1>1, <1>3, <1>4, <1>5, Zenon DEF TypeOK
<1>7. Counted'
  <2>1. ASSUME NEW f \in Names PROVE refs'[f] = Holders(f)'
    <3>1. Holders(f)' = Cardinality(PointsOf(commits, f)) + Held(f, lastFiles)
                      + Held(f, ci.files) + Held(f, FilesOf(S)) + Held(f, FilesOf(nrt.segs))
      BY <1>1, <1>4, Zenon DEF Holders, PointsOf, CommitFiles
    <3>2. Held(f, FilesOf(S)) \in {0, 1} /\ Held(f, FilesOf(merging.sources)) = 0
      BY <1>4, FilesOfIs, Zenon DEF Held
    <3> QED BY <1>3, <1>5, <3>1, <3>2, CountParts
  <2> QED BY <2>1, Zenon DEF Counted
<1>8. \A f : Referenced(f)' <=> Referenced(f)
  <2>1. ASSUME NEW f PROVE Referenced(f)' <=> Referenced(f)
    <3>1. f \in FilesOf(S) => f \in lastFiles
      <4>1. lastFiles = FilesOf(iw.infos)
        BY <1>3, Zenon DEF Shape
      <4> QED BY <1>1, <4>1, FilesOfSubset, Zenon
    <3>2. f \notin FilesOf(merging.sources)
      BY <1>4, FilesOfIs, Zenon
    <3> QED BY <1>1, <1>4, <3>1, <3>2, Zenon DEF Referenced, CommitFiles
  <2> QED BY <2>1, Zenon
<1>9. \A f \in Names : Referenced(f)' => f \in names
  BY <1>3, <1>8, ReferencedCounts, Zenon DEF IInv, ReferencedLive
<1>10. \A f : ~Condemned(f)'
  BY <1>1, <1>2, Zenon DEF Condemned
<1>11. \A m \in Segs : InFlight(m)' <=> InFlight(m)
  BY <1>1, <1>4, Zenon DEF InFlight
<1>12. \A m \in Segs : InFlight(m)' => ~Referenced(SegFile(m))'
  BY <1>3, <1>8, <1>11, NamesAre, ReferencedCounts, Zenon DEF Fresh
<1>13. merging'.target \notin flushing'
  BY <1>1, <1>3, <1>4, Zenon DEF Fresh
<1>14. /\ ReferencedLive' /\ PointsFirst' /\ PointsKnown' /\ AckedKept'
       /\ SnapshotsDurable' /\ ReaderAhead' /\ CommitPointsSurvive'
       /\ Fresh' /\ Owned'
  <2>1. iw.gen <= iw'.gen
    BY <1>1, <1>3, Fields
  <2> QED BY <1>1, <1>2, <1>6, <1>7, <1>8, <1>9, <1>10, <1>11, <1>12, <1>13, <2>1,
             Released, Zenon DEF disk, policy, history
<1>15. Shape'
  BY <1>1, <1>2, <1>3, <1>4, Zenon DEF Shape, IdleCommit, NoRemovals
<1>16. NamesTaken' /\ CommitInProgress' /\ ChangesCounted'
  BY <1>1, NamesTakenKept, CommitInProgressKept, ChangesCountedKept, Zenon DEF IInv
<1> QED BY <1>6, <1>7, <1>14, <1>15, <1>16, Zenon DEF IInv

\* An aborted merge keeps the invariant.
LEMMA AbortMergeStep ==
  ASSUME IInv, NEW writing \in BOOLEAN, AbortMerge(writing)
  PROVE  IInv'
<1> DEFINE F == FilesOf(merging.sources)
           T == FilesOf({merging.target} \intersect Segs)
           K == IF writing THEN {} ELSE T
<1>1. /\ Writing /\ merging' = NoMerge
      /\ refs' = DecRef(refs, F)
      /\ deleting' = Removals(K, <<>>, Dropped(refs', F))
      /\ orphans' = IF writing THEN orphans \union T ELSE orphans
      /\ UNCHANGED <<names, recent, synced, content, iw, flushing, commits, lastFiles, ci, 
                     counts, lastCommit, nrt, dr, acked, crashes, fails>>
  BY Zenon DEF AbortMerge, disk, policy, history
<1>2. /\ iw.open /\ ci.phase # "writing" /\ ci.phase # "renamed"
  BY <1>1, LockFree, Zenon
<1>3. TypeOK /\ Shape /\ Counted /\ Fresh
  BY Zenon DEF IInv
<1>4. /\ merging' \in MergeRecord /\ merging'.sources = {} /\ merging'.target = MaxSeg
      /\ MaxSeg \notin Segs
  BY <1>1, BoundsAssumption DEF MergeRecord, NoMerge, Segs
<1>5. F \in SUBSET Names /\ T \in SUBSET Names
  BY <1>3, Fields, FilesOfIs, Zenon
<1>6. \A f : f \in T <=> \E m \in Segs : m = merging.target /\ f = SegFile(m)
  BY FilesOfIs
<1>7. \A f : f \in F => f \in lastFiles
  <2>1. lastFiles = FilesOf(iw.infos) /\ merging.sources \subseteq iw.infos
    BY <1>3, Zenon DEF Shape
  <2> QED BY <2>1, FilesOfSubset, Zenon
<1>23. /\ K \subseteq T /\ K \in SUBSET Names
       /\ orphans \subseteq orphans' /\ orphans' \in SUBSET Names
       /\ \A f \in T : f \in K \/ f \in orphans'
  <2>1. orphans \in SUBSET Names
    BY <1>3, Zenon DEF TypeOK
  <2> HIDE DEF T
  <2> QED BY <1>1, <1>5, <2>1, Zenon
<1> HIDE DEF F, T, K
<1>8. /\ refs' \in [Names -> Nat]
      /\ \A f \in Names : refs'[f] = refs[f] - Held(f, F)
  <2>1. refs \in [Names -> Nat]
    BY <1>3, Zenon DEF TypeOK
  <2>2. \A f \in Names : Held(f, F) <= refs[f]
    BY <1>3, CountParts DEF F
  <2> QED BY <1>1, <2>1, <2>2, DecRefIs, Zenon
<1>9. /\ deleting' \in [Stages -> SUBSET Names]
      /\ \A f : Condemned(f)' <=> f \in K \/ (f \in F /\ refs'[f] = 0)
  BY <1>1, <1>5, <1>23, Removed, Zenon
<1>10. TypeOK'
  BY <1>1, <1>3, <1>4, <1>8, <1>9, <1>23, Zenon DEF TypeOK
<1>11. Counted'
  <2>1. ASSUME NEW f \in Names PROVE refs'[f] = Holders(f)'
    <3>1. Holders(f)' = Cardinality(PointsOf(commits, f)) + Held(f, lastFiles)
                      + Held(f, ci.files) + Held(f, FilesOf({})) + Held(f, FilesOf(nrt.segs))
      BY <1>1, <1>4, Zenon DEF Holders, PointsOf, CommitFiles
    <3>2. Held(f, FilesOf({})) = 0
      BY FilesOfIs, Zenon DEF Held
    <3> QED BY <1>3, <1>8, <3>1, <3>2, CountParts DEF F
  <2> QED BY <2>1, Zenon DEF Counted
<1>12. \A f : Referenced(f)' <=> Referenced(f)
  <2>1. ASSUME NEW f PROVE Referenced(f)' <=> Referenced(f)
    <3>1. f \notin FilesOf(merging'.sources)
      BY <1>4, FilesOfIs, Zenon
    <3> QED BY <1>1, <1>7, <3>1, Zenon DEF Referenced, CommitFiles, F
  <2> QED BY <2>1, Zenon
<1>13. \A f \in Names : Referenced(f)' => f \in names
  BY <1>3, <1>12, ReferencedCounts, Zenon DEF IInv, ReferencedLive
<1>14. \A f : Condemned(f)' <=> f \in K
  <2>1. SUFFICES ASSUME NEW f, f \in F, refs'[f] = 0 PROVE FALSE
    BY <1>9, Zenon
  <2>2. f \in Names /\ Referenced(f)'
    BY <1>5, <1>7, <1>12, <2>1, Zenon DEF Referenced
  <2> QED BY <1>10, <1>11, <2>1, <2>2, ReferencedCountsNext, Zenon
<1>15. \A m \in Segs : InFlight(m) => ~Referenced(SegFile(m))
  BY <1>3, NamesAre, ReferencedCounts, Zenon DEF Fresh
<1>16. \A f : Condemned(f)' => f \in FilesOf(Segs) /\ ~Referenced(f)'
  <2>1. ASSUME NEW f, Condemned(f)' PROVE f \in FilesOf(Segs) /\ ~Referenced(f)'
    <3>1. PICK m \in Segs : m = merging.target /\ f = SegFile(m)
      BY <1>6, <1>14, <1>23, <2>1, Zenon
    <3>2. ~Referenced(SegFile(m))
      BY <1>15, <3>1, Zenon DEF InFlight
    <3> QED BY <1>12, <3>1, <3>2, FilesOfIs, Zenon
  <2> QED BY <2>1, Zenon
<1>17. \A m \in Segs : InFlight(m)' =>
         InFlight(m) /\ ~Referenced(SegFile(m))' /\ ~Condemned(SegFile(m))'
  <2>1. SUFFICES ASSUME NEW m \in Segs, InFlight(m)'
                 PROVE  InFlight(m) /\ ~Referenced(SegFile(m))' /\ ~Condemned(SegFile(m))'
    BY Zenon
  <2>2. m \in flushing /\ m # merging.target
    BY <1>1, <1>3, <1>4, <2>1, Zenon DEF InFlight, Fresh
  <2>3. SegFile(m) \notin K
    BY <1>6, <1>23, <2>2, NamesDiffer, Zenon
  <2> QED BY <1>12, <1>14, <1>15, <2>2, <2>3, Zenon DEF InFlight
<1>18. \A m \in Segs : InFlight(m) =>
         InFlight(m)' \/ Condemned(SegFile(m))' \/ SegFile(m) \in orphans'
  BY <1>1, <1>6, <1>14, <1>23, Zenon DEF InFlight
<1>19. merging'.target \notin flushing'
  BY <1>1, <1>3, <1>4, Zenon DEF TypeOK
<1>20. /\ ReferencedLive' /\ PointsFirst' /\ PointsKnown' /\ AckedKept'
       /\ SnapshotsDurable' /\ ReaderAhead' /\ CommitPointsSurvive'
       /\ Fresh' /\ Owned'
  <2>1. iw.gen <= iw'.gen
    BY <1>1, <1>3, Fields
  <2> QED BY <1>1, <1>2, <1>10, <1>11, <1>12, <1>13, <1>16, <1>17, <1>18, <1>19, <1>23, <2>1,
             Released, Zenon DEF disk, policy, history
<1>21. Shape'
  BY <1>1, <1>2, <1>3, <1>4, Zenon DEF Shape, IdleCommit
<1>22. NamesTaken' /\ CommitInProgress' /\ ChangesCounted'
  BY <1>1, NamesTakenKept, CommitInProgressKept, ChangesCountedKept, Zenon DEF IInv
<1> QED BY <1>10, <1>11, <1>20, <1>21, <1>22, Zenon DEF IInv

\* delete_all keeps the invariant.
LEMMA DeleteAllStep ==
  ASSUME IInv, NEW D \in SUBSET Segs, DeleteAll(D)
  PROVE  IInv'
<1>1. /\ Writing /\ merging = NoMerge /\ D \subseteq flushing
      /\ flushing' = flushing \ D /\ orphans' = orphans \union FilesOf(D)
      /\ CheckpointWith({}, refs, {})
      /\ UNCHANGED <<names, recent, synced, content, merging, ci, counts,
                     lastCommit, nrt, dr, acked, crashes, fails>>
  BY Zenon DEF DeleteAll, disk, policy, history
<1>2. iw.open /\ ci.phase # "writing" /\ ci.phase # "renamed"
  BY <1>1, LockFree, Zenon
<1>3. TypeOK /\ Shape /\ Counted /\ Fresh
  BY Zenon DEF IInv
<1>4. refs \in [Names -> Nat] /\ {} \in SUBSET Names /\ {} \in SUBSET Segs
  BY <1>3, Zenon DEF TypeOK
<1>5. \A f \in Names : Held(f, lastFiles) <= refs[f]
  BY <1>3, CountParts
<1>6. /\ iw' \in WriterRecord
      /\ iw'.open = iw.open /\ iw'.gen = iw.gen /\ iw'.lastGen = iw.lastGen
      /\ iw'.counter = iw.counter /\ iw'.lastCommitCC = iw.lastCommitCC
      /\ iw'.infos = {} /\ iw'.changeCount = iw.changeCount + 1
      /\ refs' \in [Names -> Nat]
      /\ \A f \in Names : refs'[f] = refs[f] + Held(f, FilesOf({})) - Held(f, lastFiles)
      /\ lastFiles' = FilesOf({}) /\ lastFiles' \in SUBSET Names
      /\ deleting' \in [Stages -> SUBSET Names]
      /\ \A f : Condemned(f)' <=> f \in lastFiles /\ refs'[f] = 0
      /\ UNCHANGED commits
  BY <1>1, <1>3, <1>4, <1>5, Checkpointed, Zenon
<1>7. TypeOK'
  <2>1. flushing' \in SUBSET Segs /\ FilesOf(D) \in SUBSET Names
    BY <1>1, <1>3, FilesOfIs, Zenon DEF TypeOK
  <2>2. orphans' \in SUBSET Names
    BY <1>1, <1>3, <2>1, Zenon DEF TypeOK
  <2> QED BY <1>1, <1>3, <1>6, <2>1, <2>2, Zenon DEF TypeOK
<1>8. Counted'
  <2>1. ASSUME NEW f \in Names PROVE refs'[f] = Holders(f)'
    <3>1. Holders(f)' = Cardinality(PointsOf(commits, f)) + Held(f, FilesOf({}))
                      + Held(f, ci.files) + Held(f, FilesOf(merging.sources))
                      + Held(f, FilesOf(nrt.segs))
      BY <1>1, <1>6, Zenon DEF Holders, PointsOf, CommitFiles
    <3>2. Held(f, FilesOf({})) \in {0, 1}
      BY HeldIs, Zenon
    <3> QED BY <1>3, <1>6, <3>1, <3>2, CountParts
  <2> QED BY <2>1, Zenon DEF Counted
<1>9. \A f : Referenced(f)' => Referenced(f)
  <2>1. ASSUME NEW f, Referenced(f)' PROVE Referenced(f)
    <3>1. f \notin lastFiles'
      BY <1>6, FilesOfIs, Zenon
    <3> QED BY <1>1, <1>6, <2>1, <3>1, Zenon DEF Referenced, CommitFiles
  <2> QED BY <2>1, Zenon
<1>10. \A f \in Names : Referenced(f)' => f \in names
  BY <1>3, <1>9, ReferencedCounts, Zenon DEF IInv, ReferencedLive
<1>11. \A f : Condemned(f)' <=> f \in lastFiles /\ ~Referenced(f)'
  BY <1>3, <1>6, <1>7, <1>8, ReferencedCountsNext, Zenon DEF TypeOK
<1>12. \A f : Condemned(f)' => f \in FilesOf(Segs) /\ ~Referenced(f)'
  BY <1>3, <1>11, SegmentFiles, Zenon
<1>13. \A f \in names : Referenced(f) => Referenced(f)' \/ Condemned(f)'
  <2>1. ASSUME NEW f, Referenced(f), ~Referenced(f)' PROVE f \in lastFiles
    BY <1>1, <1>6, <2>1, Zenon DEF Referenced, CommitFiles
  <2> QED BY <1>11, <2>1, Zenon
<1>14. \A m \in Segs : InFlight(m)' =>
         InFlight(m) /\ ~Referenced(SegFile(m))' /\ ~Condemned(SegFile(m))'
  <2>1. SUFFICES ASSUME NEW m \in Segs, InFlight(m)'
                 PROVE  InFlight(m) /\ ~Referenced(SegFile(m))' /\ ~Condemned(SegFile(m))'
    BY Zenon
  <2>2. InFlight(m)
    BY <1>1, <2>1, Zenon DEF InFlight
  <2>3. ~Referenced(SegFile(m))
    BY <1>3, <2>2, NamesAre, ReferencedCounts, Zenon DEF Fresh
  <2> QED BY <1>9, <1>11, <2>2, <2>3, Zenon DEF Referenced
<1>15. \A m \in Segs : InFlight(m) => InFlight(m)' \/ SegFile(m) \in orphans'
  BY <1>1, FilesOfIs, Zenon DEF InFlight
<1>16. merging'.target \notin flushing'
  BY <1>1, <1>3, Zenon DEF Fresh
<1>17. /\ ReferencedLive' /\ PointsFirst' /\ PointsKnown' /\ AckedKept'
       /\ SnapshotsDurable' /\ ReaderAhead' /\ CommitPointsSurvive'
       /\ Fresh' /\ Owned'
  <2>1. iw.gen <= iw'.gen
    BY <1>3, <1>6, Fields
  <2>2. orphans \subseteq orphans'
    BY <1>1, Zenon
  <2> QED BY <1>1, <1>2, <1>6, <1>7, <1>8, <1>10, <1>12, <1>13, <1>14, <1>15, <1>16, <2>1, <2>2,
             Released, Zenon DEF disk, policy, history
<1>18. Shape'
  <2>1. merging'.sources = {}
    BY <1>1, Zenon DEF NoMerge
  <2> QED BY <1>1, <1>2, <1>3, <1>6, <2>1, Zenon DEF Shape, IdleCommit
<1>19. NamesTaken' /\ CommitInProgress' /\ ChangesCounted'
  BY <1>1, <1>2, <1>6, NamesTakenKept, CommitInProgressKept, ChangeCounted, Zenon DEF IInv
<1> QED BY <1>7, <1>8, <1>17, <1>18, <1>19, Zenon DEF IInv

\* merge_finished for a waiting commit: the counts follow the files of the commit.
LEMMA MergeJoins ==
  ASSUME TypeOK, Shape, Counted, Fresh, NEW drop \in BOOLEAN, merging.target \in Segs,
         ci' = IF JoinsCommit(drop) THEN MergedIntoCommit(merging.target) ELSE ci,
         NEW r, r = IF JoinsCommit(drop) THEN ProtectMerged(refs, merging.target) ELSE refs
  PROVE  /\ ci' \in CommitRecord
         /\ ci'.phase = ci.phase /\ ci'.gen = ci.gen /\ ci'.cc = ci.cc
         /\ ci' = ci \/ ci.phase = "await"
         /\ ci'.files = FilesOf(ci'.segs)
         /\ r \in [Names -> Nat]
         /\ \A f \in Names : r[f] = refs[f] + Held(f, ci'.files) - Held(f, ci.files)
         /\ \A f : f \in ci'.files => f \in ci.files \/ (~drop /\ f = SegFile(merging.target))
         /\ \A f : f \in ci.files => f \in ci'.files \/ f \in FilesOf(merging.sources)
<1> DEFINE t == merging.target
           S == (ci.segs \ merging.sources) \union {t}
           I == FilesOf(ci.segs \intersect merging.sources)
<1>1. /\ ci \in CommitRecord /\ refs \in [Names -> Nat]
      /\ ci.segs \in SUBSET Segs /\ ci.counter \in Nat /\ t \in Nat
  BY Fields DEF TypeOK, Segs
<1>2. ci.files = FilesOf(ci.segs)
  BY Zenon DEF Shape
<1>3. CASE ~JoinsCommit(drop)
  <2>1. ci' = ci /\ r = refs
    BY <1>3, Zenon
  <2>2. \A f \in Names : r[f] = refs[f] + Held(f, ci'.files) - Held(f, ci.files)
    BY <1>1, <2>1 DEF Held
  <2> QED BY <1>1, <1>2, <2>1, <2>2, Zenon
<1>4. CASE JoinsCommit(drop)
  <2>1. ~drop /\ ci.phase = "await"
    BY <1>4, Zenon DEF JoinsCommit
  <2>2. S \in SUBSET Segs /\ FilesOf(S) \in SUBSET Names
    <3>1. S \in SUBSET Segs
      BY <1>1, Zenon
    <3> HIDE DEF S
    <3> QED BY <3>1, FilesOfIs, Zenon
  <2>3. /\ ci' \in CommitRecord
        /\ ci'.phase = ci.phase /\ ci'.gen = ci.gen /\ ci'.cc = ci.cc
        /\ ci'.files = FilesOf(S) /\ ci'.segs = S
    <3>1. PICK c \in Nat : c = IF ci.counter > t THEN ci.counter ELSE t + 1
      BY <1>1
    <3>2. ci' = [ci EXCEPT !.segs = S, !.files = FilesOf(S), !.counter = c]
      BY <1>1, <1>4, <3>1, Zenon DEF MergedIntoCommit, CommitRecord
    <3> HIDE DEF S
    <3> QED BY <1>1, <2>2, <3>2, Zenon DEF CommitRecord
  <2>4. SegFile(t) \notin ci.files
    <3>1. refs[SegFile(t)] = 0 /\ SegFile(t) \in Names
      BY NamesAre, Zenon DEF Fresh, InFlight
    <3> QED BY <3>1, ReferencedCounts, Zenon DEF Referenced
  <2>5. \A f : f \in FilesOf(S)
           <=> (f \in ci.files /\ f \notin FilesOf(merging.sources)) \/ f = SegFile(t)
    <3> DEFINE R == ci.segs \ merging.sources
    <3>1. \A f : f \in FilesOf(R) <=> f \in FilesOf(ci.segs) /\ f \notin FilesOf(merging.sources)
      BY FilesOfMinus, Zenon
    <3> HIDE DEF R
    <3>2. \A f : f \in FilesOf(R \union {t}) <=> f \in FilesOf(R) \/ f = SegFile(t)
      BY FilesOfAdd, Zenon
    <3>3. FilesOf(S) = FilesOf(R \union {t})
      BY Zenon DEF R
    <3> HIDE DEF S
    <3> QED BY <1>2, <3>1, <3>2, <3>3, Zenon
  <2>6. \A f : f \in I <=> f \in ci.files /\ f \in FilesOf(merging.sources)
    <3>1. \A f : f \in I <=> f \in FilesOf(ci.segs) /\ f \in FilesOf(merging.sources)
      BY FilesOfMinus, Zenon
    <3> QED BY <1>2, <3>1, Zenon
  <2> HIDE DEF I, S
  <2>7. PICK q : q = IncRef(refs, {SegFile(t)})
    BY Zenon
  <2>8. q \in [Names -> Nat] /\ \A f \in Names : q[f] = refs[f] + Held(f, {SegFile(t)})
    BY <1>1, <2>7, IncRefIs, Zenon
  <2>9. r = DecRef(q, I)
    BY <1>4, <2>7, Zenon DEF ProtectMerged, I
  <2>10. r \in [Names -> Nat]
    BY <2>8, <2>9, DecRefIs, ZenonT(60)
  <2>11. ASSUME NEW f \in Names
         PROVE  r[f] = refs[f] + Held(f, ci'.files) - Held(f, ci.files)
    <3>1. /\ Held(f, ci.files) <= refs[f] /\ refs[f] \in Nat
      BY <1>1, CountParts
    <3>2. Held(f, I) <= Held(f, ci.files) /\ Held(f, I) \in {0, 1}
      BY <2>6 DEF Held
    <3>3. Held(f, {SegFile(t)}) \in {0, 1} /\ Held(f, ci.files) \in {0, 1}
      BY HeldIs, Zenon
    <3>4. q[f] = refs[f] + Held(f, {SegFile(t)})
      BY <2>8, Zenon
    <3>5. Held(f, I) <= q[f]
      BY <3>1, <3>2, <3>3, <3>4
    <3>6. r[f] = q[f] - Held(f, I)
      <4>1. Held(f, I) <= q[f] => DecRef(q, I)[f] = q[f] - Held(f, I)
        BY <2>8, DecRefIs, Zenon
      <4> QED BY <2>9, <3>5, <4>1, Zenon
    <3>7. Held(f, FilesOf(S)) = Held(f, ci.files) + Held(f, {SegFile(t)}) - Held(f, I)
      BY <2>4, <2>5, <2>6 DEF Held
    <3>8. Held(f, ci'.files) = Held(f, FilesOf(S))
      BY <2>3, Zenon
    <3> QED BY <3>1, <3>2, <3>3, <3>4, <3>6, <3>7, <3>8
  <2>12. \A f : f \in ci'.files => f \in ci.files \/ f = SegFile(t)
    BY <2>3, <2>5, Zenon
  <2>13. \A f : f \in ci.files => f \in ci'.files \/ f \in FilesOf(merging.sources)
    BY <2>3, <2>5, Zenon
  <2> QED BY <2>1, <2>3, <2>10, <2>11, <2>12, <2>13, Zenon
<1> QED BY <1>3, <1>4, Zenon

\* commit_merge keeps the invariant.
LEMMA CommitMergeStep ==
  ASSUME IInv, NEW drop \in BOOLEAN, CommitMerge(drop)
  PROVE  IInv'
<1>0. PICK t : t = merging.target
  BY Zenon
<1> DEFINE F == FilesOf(merging.sources)
           S == (iw.infos \ merging.sources) \union (IF drop THEN {} ELSE {t})
           first == IF drop THEN {SegFile(t)} ELSE {}
<1>1. PICK r : r = IF JoinsCommit(drop) THEN ProtectMerged(refs, t) ELSE refs
  BY Zenon
<1>2. /\ Writing /\ t \in Segs /\ merging' = NoMerge
      /\ CheckpointWith(S, DecRef(r, F), first)
      /\ ci' = IF JoinsCommit(drop) THEN MergedIntoCommit(t) ELSE ci
      /\ UNCHANGED <<names, recent, synced, content, flushing, orphans, counts,
                     lastCommit, nrt, dr, acked, crashes, fails>>
  BY <1>0, <1>1, Zenon DEF CommitMerge, disk, policy, history
<1>3. iw.open /\ ci.phase # "writing" /\ ci.phase # "renamed"
  BY <1>2, LockFree, Zenon
<1>4. TypeOK /\ Shape /\ Counted /\ Fresh
  BY Zenon DEF IInv
<1>5. /\ ci' \in CommitRecord
      /\ ci'.phase = ci.phase /\ ci'.gen = ci.gen /\ ci'.cc = ci.cc
      /\ ci' = ci \/ ci.phase = "await"
      /\ ci'.files = FilesOf(ci'.segs)
      /\ r \in [Names -> Nat]
      /\ \A f \in Names : r[f] = refs[f] + Held(f, ci'.files) - Held(f, ci.files)
      /\ \A f : f \in ci'.files => f \in ci.files \/ (~drop /\ f = SegFile(t))
      /\ \A f : f \in ci.files => f \in ci'.files \/ f \in F
  BY <1>0, <1>1, <1>2, <1>4, MergeJoins, Zenon
<1>6. S \in SUBSET Segs /\ first \in SUBSET Names
  BY <1>2, <1>4, Fields, NamesAre, Zenon
<1>7. /\ merging' \in MergeRecord /\ merging'.sources = {} /\ merging'.target = MaxSeg
      /\ MaxSeg \notin Segs
  BY <1>2, BoundsAssumption DEF MergeRecord, NoMerge, Segs
<1>8. \A f : f \in F => f \in lastFiles
  <2>1. lastFiles = FilesOf(iw.infos) /\ merging.sources \subseteq iw.infos
    BY <1>4, Zenon DEF Shape
  <2> QED BY <2>1, FilesOfSubset, Zenon
<1>9. \A f : f \in FilesOf(S) => f \in lastFiles \/ (~drop /\ f = SegFile(t))
  <2>1. lastFiles = FilesOf(iw.infos)
    BY <1>4, Zenon DEF Shape
  <2>2. ASSUME NEW f \in FilesOf(S) PROVE f \in lastFiles \/ (~drop /\ f = SegFile(t))
    <3>1. PICK n \in S : f = SegFile(n)
      BY FilesOfIs
    <3> QED BY <2>1, <3>1, FilesOfIs, Zenon
  <2> QED BY <2>2, Zenon
<1>10. ~drop => SegFile(t) \in FilesOf(S)
  BY FilesOfIs, Zenon
<1>11. \A f : f \in first <=> drop /\ f = SegFile(t)
  BY Zenon
<1> HIDE DEF S, F, first
<1>12. ASSUME NEW f \in Names
       PROVE  /\ r[f] = Cardinality(PointsOf(commits, f)) + Held(f, lastFiles)
                        + Held(f, ci'.files) + Held(f, F) + Held(f, FilesOf(nrt.segs))
              /\ Cardinality(PointsOf(commits, f)) \in Nat
              /\ Held(f, lastFiles) \in {0, 1} /\ Held(f, ci'.files) \in {0, 1}
              /\ Held(f, F) \in {0, 1} /\ Held(f, FilesOf(nrt.segs)) \in {0, 1}
              /\ Held(f, FilesOf(S)) \in {0, 1}
  <2>1. Held(f, ci'.files) \in {0, 1} /\ Held(f, FilesOf(S)) \in {0, 1}
    BY HeldIs, Zenon
  <2>2. r[f] = refs[f] + Held(f, ci'.files) - Held(f, ci.files)
    BY <1>5, Zenon
  <2> QED BY <1>4, <2>1, <2>2, CountParts DEF F
<1>13. /\ DecRef(r, F) \in [Names -> Nat]
       /\ \A f \in Names : DecRef(r, F)[f] = r[f] - Held(f, F)
  <2>1. \A f \in Names : Held(f, F) <= r[f]
    BY <1>12
  <2> QED BY <1>5, <2>1, DecRefIs, Zenon
<1>14. \A f \in Names : Held(f, lastFiles) <= DecRef(r, F)[f]
  <2>1. ASSUME NEW f \in Names PROVE Held(f, lastFiles) <= DecRef(r, F)[f]
    BY <1>12, <1>13
  <2> QED BY <2>1, Zenon
<1>15. /\ iw' \in WriterRecord
       /\ iw'.open = iw.open /\ iw'.gen = iw.gen /\ iw'.lastGen = iw.lastGen
       /\ iw'.counter = iw.counter /\ iw'.lastCommitCC = iw.lastCommitCC
       /\ iw'.infos = S /\ iw'.changeCount = iw.changeCount + 1
       /\ refs' \in [Names -> Nat]
       /\ \A f \in Names : refs'[f] = DecRef(r, F)[f] + Held(f, FilesOf(S)) - Held(f, lastFiles)
       /\ lastFiles' = FilesOf(S) /\ lastFiles' \in SUBSET Names
       /\ deleting' \in [Stages -> SUBSET Names]
       /\ \A f : Condemned(f)' <=> f \in first \/ (f \in lastFiles /\ refs'[f] = 0)
       /\ UNCHANGED commits
  BY <1>2, <1>4, <1>6, <1>13, <1>14, Checkpointed, Zenon
<1>16. TypeOK'
  BY <1>2, <1>4, <1>5, <1>7, <1>15, Zenon DEF TypeOK
<1>17. Counted'
  <2>1. ASSUME NEW f \in Names PROVE refs'[f] = Holders(f)'
    <3>1. Holders(f)' = Cardinality(PointsOf(commits, f)) + Held(f, FilesOf(S))
                      + Held(f, ci'.files) + Held(f, FilesOf({})) + Held(f, FilesOf(nrt.segs))
      BY <1>2, <1>7, <1>15, Zenon DEF Holders, PointsOf, CommitFiles
    <3>2. Held(f, FilesOf({})) = 0
      BY FilesOfIs, Zenon DEF Held
    <3> QED BY <1>12, <1>13, <1>15, <3>1, <3>2
  <2> QED BY <2>1, Zenon DEF Counted
<1>18. /\ SegFile(t) \in names /\ SegFile(t) \in Names
       /\ \A m \in Segs : InFlight(m) => ~Referenced(SegFile(m))
  BY <1>0, <1>2, <1>4, NamesAre, ReferencedCounts, Zenon DEF Fresh, InFlight
<1>19. \A f : Referenced(f)' => Referenced(f) \/ (~drop /\ f = SegFile(t))
  <2>1. ASSUME NEW f, Referenced(f)' PROVE Referenced(f) \/ (~drop /\ f = SegFile(t))
    <3>1. f \notin FilesOf(merging'.sources)
      BY <1>7, FilesOfIs, Zenon
    <3>2. \/ \E g \in commits : f \in CommitFiles(g)
          \/ f \in FilesOf(S) \/ f \in ci'.files \/ f \in FilesOf(nrt.segs)
      BY <1>2, <1>15, <2>1, <3>1, Zenon DEF Referenced, CommitFiles
    <3>3. f \in FilesOf(S) => f \in lastFiles \/ (~drop /\ f = SegFile(t))
      BY <1>9, Zenon
    <3>4. f \in ci'.files => f \in ci.files \/ (~drop /\ f = SegFile(t))
      BY <1>5, Zenon
    <3> QED BY <3>2, <3>3, <3>4, Zenon DEF Referenced
  <2> QED BY <2>1, Zenon
<1>20. \A f : Referenced(f) => Referenced(f)' \/ f \in lastFiles
  <2>1. ASSUME NEW f, Referenced(f) PROVE Referenced(f)' \/ f \in lastFiles
    BY <1>2, <1>5, <1>8, <1>15, <2>1, Zenon DEF Referenced, CommitFiles, F
  <2> QED BY <2>1, Zenon
<1>21. ~drop => Referenced(SegFile(t))'
  BY <1>10, <1>15, Zenon DEF Referenced
<1>22. \A f : Condemned(f)' <=> (drop /\ f = SegFile(t)) \/ (f \in lastFiles /\ ~Referenced(f)')
  BY <1>4, <1>11, <1>15, <1>16, <1>17, ReferencedCountsNext, Zenon DEF TypeOK
<1>23. \A f \in Names : Referenced(f)' => f \in names
  <2>1. \A f \in Names : Referenced(f) => f \in names
    BY <1>4, ReferencedCounts, Zenon DEF IInv, ReferencedLive
  <2> QED BY <1>18, <1>19, <2>1, Zenon
<1>24. \A f : Condemned(f)' => f \in FilesOf(Segs) /\ ~Referenced(f)'
  <2>1. ASSUME NEW f, drop, f = SegFile(t) PROVE f \in FilesOf(Segs) /\ ~Referenced(f)'
    BY <1>0, <1>2, <1>18, <1>19, <2>1, FilesOfIs, Zenon DEF InFlight
  <2>2. \A f \in lastFiles : f \in FilesOf(Segs)
    BY <1>4, SegmentFiles, Zenon
  <2> QED BY <1>22, <2>1, <2>2, Zenon
<1>25. \A f \in names : Referenced(f) => Referenced(f)' \/ Condemned(f)'
  BY <1>20, <1>22, Zenon
<1>26. \A m \in Segs : InFlight(m)' =>
         InFlight(m) /\ ~Referenced(SegFile(m))' /\ ~Condemned(SegFile(m))'
  <2>1. SUFFICES ASSUME NEW m \in Segs, InFlight(m)'
                 PROVE  InFlight(m) /\ ~Referenced(SegFile(m))' /\ ~Condemned(SegFile(m))'
    BY Zenon
  <2>2. InFlight(m) /\ m # t
    BY <1>0, <1>2, <1>4, <1>7, <2>1, Zenon DEF InFlight, Fresh
  <2>3. SegFile(m) # SegFile(t) /\ ~Referenced(SegFile(m))
    BY <1>18, <2>2, NamesDiffer, Zenon
  <2>4. SegFile(m) \notin lastFiles
    BY <2>3, Zenon DEF Referenced
  <2>5. ~Referenced(SegFile(m))'
    BY <1>19, <2>3, Zenon
  <2>6. ~Condemned(SegFile(m))'
    BY <1>22, <2>3, <2>4, Zenon
  <2> QED BY <2>2, <2>5, <2>6, Zenon
<1>27. \A m \in Segs : InFlight(m) =>
         InFlight(m)' \/ Referenced(SegFile(m))' \/ Condemned(SegFile(m))'
  BY <1>0, <1>2, <1>21, <1>22, Zenon DEF InFlight
<1>28. merging'.target \notin flushing'
  BY <1>2, <1>4, <1>7, Zenon DEF TypeOK
<1>29. /\ ReferencedLive' /\ PointsFirst' /\ PointsKnown' /\ AckedKept'
       /\ SnapshotsDurable' /\ ReaderAhead' /\ CommitPointsSurvive'
       /\ Fresh' /\ Owned'
  <2>1. iw.gen <= iw'.gen
    BY <1>4, <1>15, Fields
  <2> QED BY <1>2, <1>3, <1>5, <1>15, <1>16, <1>17, <1>23, <1>24, <1>25, <1>26, <1>27, <1>28,
             <2>1, Released, Zenon DEF disk, policy, history
<1>30. Shape'
  <2>1. ci'.phase = "idle" => ci' = IdleCommit
    <3>1. "await" # "idle"
      BY Zenon
    <3> QED BY <1>4, <1>5, <3>1, Zenon DEF Shape, IdleCommit
  <2> QED BY <1>2, <1>3, <1>4, <1>5, <1>7, <1>15, <2>1, Zenon DEF Shape
<1>31. CommitInProgress'
  <2>1. CASE ci' = ci
    BY <1>2, <1>15, <2>1, CommitInProgressKept, Zenon DEF IInv
  <2>2. CASE ci.phase = "await"
    BY <1>2, <1>5, <1>15, <2>2, Zenon DEF IInv, CommitInProgress, Written
  <2> QED BY <1>5, <2>1, <2>2, Zenon
<1>32. NamesTaken' /\ ChangesCounted'
  BY <1>2, <1>3, <1>5, <1>15, NamesTakenKept, ChangeCounted, Zenon DEF IInv
<1> QED BY <1>16, <1>17, <1>29, <1>30, <1>31, <1>32, Zenon DEF IInv

-----------------------------------------------------------------------------
(* NRT readers *)

\* get_reader keeps the invariant.
LEMMA OpenReaderStep ==
  ASSUME IInv, OpenReader
  PROVE  IInv'
<1>1. /\ Writing /\ ~nrt.open /\ nrt' = [open |-> TRUE, segs |-> iw.infos]
      /\ refs' = IncRef(refs, FilesOf(iw.infos))
      /\ UNCHANGED <<names, recent, synced, content, iw, flushing, merging, commits,
                     lastFiles, orphans, deleting, ci, counts, lastCommit, dr, acked,
                     crashes, fails>>
  BY Zenon DEF OpenReader, disk, policy, history
<1>2. /\ iw.open /\ ci.phase # "writing" /\ ci.phase # "renamed"
      /\ \A f : ~Condemned(f)
  BY <1>1, LockFree, Zenon
<1>3. TypeOK /\ Shape /\ Counted /\ Fresh
  BY Zenon DEF IInv
<1>4. /\ nrt' \in ReaderRecord /\ nrt'.segs = iw.infos /\ nrt'.open
      /\ nrt.segs = {} /\ lastFiles = FilesOf(iw.infos)
  <2>1. nrt.segs = {} /\ lastFiles = FilesOf(iw.infos)
    BY <1>1, <1>3, Zenon DEF Shape
  <2>2. iw.infos \in SUBSET Segs
    BY <1>3, Fields, Zenon
  <2> QED BY <1>1, <2>1, <2>2, Zenon DEF ReaderRecord
<1>5. /\ refs' \in [Names -> Nat]
      /\ \A f \in Names : refs'[f] = refs[f] + Held(f, FilesOf(iw.infos))
  BY <1>1, <1>3, IncRefIs, Zenon DEF TypeOK
<1>6. TypeOK'
  BY <1>1, <1>3, <1>4, <1>5, Zenon DEF TypeOK
<1>7. Counted'
  <2>1. ASSUME NEW f \in Names PROVE refs'[f] = Holders(f)'
    <3>1. Holders(f)' = Cardinality(PointsOf(commits, f)) + Held(f, lastFiles)
                      + Held(f, ci.files) + Held(f, FilesOf(merging.sources))
                      + Held(f, FilesOf(iw.infos))
      BY <1>1, <1>4, Zenon DEF Holders, PointsOf, CommitFiles
    <3>2. Held(f, FilesOf(nrt.segs)) = 0 /\ Held(f, FilesOf(iw.infos)) \in {0, 1}
      BY <1>4, FilesOfIs, Zenon DEF Held
    <3> QED BY <1>3, <1>5, <3>1, <3>2, CountParts
  <2> QED BY <2>1, Zenon DEF Counted
<1>8. \A f : Referenced(f)' <=> Referenced(f)
  <2>1. ASSUME NEW f PROVE Referenced(f)' <=> Referenced(f)
    <3>1. f \notin FilesOf(nrt.segs)
      BY <1>4, FilesOfIs, Zenon
    <3> QED BY <1>1, <1>4, <3>1, Zenon DEF Referenced, CommitFiles
  <2> QED BY <2>1, Zenon
<1>9. \A f \in Names : Referenced(f)' => f \in names
  BY <1>3, <1>8, ReferencedCounts, Zenon DEF IInv, ReferencedLive
<1>10. \A f : ~Condemned(f)'
  BY <1>1, <1>2, Zenon DEF Condemned
<1>11. \A m \in Segs : InFlight(m)' <=> InFlight(m)
  BY <1>1, Zenon DEF InFlight
<1>12. \A m \in Segs : InFlight(m)' => ~Referenced(SegFile(m))'
  BY <1>3, <1>8, <1>11, NamesAre, ReferencedCounts, Zenon DEF Fresh
<1>13. merging'.target \notin flushing'
  BY <1>1, <1>3, Zenon DEF Fresh
<1>14. /\ ReferencedLive' /\ PointsFirst' /\ PointsKnown' /\ AckedKept'
       /\ SnapshotsDurable' /\ ReaderAhead' /\ CommitPointsSurvive'
       /\ Fresh' /\ Owned'
  <2>1. iw.gen <= iw'.gen
    BY <1>1, <1>3, Fields
  <2> QED BY <1>1, <1>2, <1>6, <1>7, <1>8, <1>9, <1>10, <1>11, <1>12, <1>13, <2>1,
             Released, Zenon DEF disk, policy, history
<1>15. Shape'
  BY <1>1, <1>2, <1>3, <1>4, Zenon DEF Shape, IdleCommit, NoRemovals
<1>16. NamesTaken' /\ CommitInProgress' /\ ChangesCounted'
  BY <1>1, NamesTakenKept, CommitInProgressKept, ChangesCountedKept, Zenon DEF IInv
<1> QED BY <1>6, <1>7, <1>14, <1>15, <1>16, Zenon DEF IInv

\* The close of an NRT reader keeps the invariant.
LEMMA CloseReaderStep ==
  ASSUME IInv, CloseReader
  PROVE  IInv'
<1>0. PICK F : F = FilesOf(nrt.segs)
  BY Zenon
<1>1. /\ Writing /\ nrt' = NoReader
      /\ refs' = DecRef(refs, F)
      /\ deleting' = Removals({}, <<>>, Dropped(refs', F))
      /\ UNCHANGED <<names, recent, synced, content, iw, flushing, merging, commits,
                     lastFiles, orphans, ci, counts, lastCommit, dr, acked, crashes, fails>>
  BY <1>0, Zenon DEF CloseReader, disk, policy, history
<1>2. /\ iw.open /\ ci.phase # "writing" /\ ci.phase # "renamed"
  BY <1>1, LockFree, Zenon
<1>3. TypeOK /\ Shape /\ Counted /\ Fresh
  BY Zenon DEF IInv
<1>4. nrt' \in ReaderRecord /\ nrt'.segs = {}
  BY <1>1, Zenon DEF ReaderRecord, NoReader
<1>5. F \in SUBSET Names /\ F \subseteq FilesOf(Segs) /\ {} \in SUBSET Names
  BY <1>0, <1>3, Fields, FilesOfIs, SegmentFiles, Zenon
<1>6. /\ refs' \in [Names -> Nat]
      /\ \A f \in Names : refs'[f] = refs[f] - Held(f, F)
  <2>1. refs \in [Names -> Nat]
    BY <1>3, Zenon DEF TypeOK
  <2>2. \A f \in Names : Held(f, F) <= refs[f]
    BY <1>0, <1>3, CountParts
  <2> QED BY <1>1, <2>1, <2>2, DecRefIs, Zenon
<1>7. /\ deleting' \in [Stages -> SUBSET Names]
      /\ \A f : Condemned(f)' <=> f \in {} \/ (f \in F /\ refs'[f] = 0)
  BY <1>1, <1>5, Removed, Zenon
<1>8. TypeOK'
  BY <1>1, <1>3, <1>4, <1>6, <1>7, Zenon DEF TypeOK
<1>9. Counted'
  <2>1. ASSUME NEW f \in Names PROVE refs'[f] = Holders(f)'
    <3>1. Holders(f)' = Cardinality(PointsOf(commits, f)) + Held(f, lastFiles)
                      + Held(f, ci.files) + Held(f, FilesOf(merging.sources))
                      + Held(f, FilesOf({}))
      BY <1>1, <1>4, Zenon DEF Holders, PointsOf, CommitFiles
    <3>2. Held(f, FilesOf({})) = 0
      BY FilesOfIs, Zenon DEF Held
    <3> QED BY <1>0, <1>3, <1>6, <3>1, <3>2, CountParts
  <2> QED BY <2>1, Zenon DEF Counted
<1>10. \A f : /\ Referenced(f)' => Referenced(f)
              /\ Referenced(f) => Referenced(f)' \/ f \in F
  <2>1. ASSUME NEW f
        PROVE  (Referenced(f)' => Referenced(f)) /\ (Referenced(f) => Referenced(f)' \/ f \in F)
    <3>1. f \notin FilesOf(nrt'.segs)
      BY <1>4, FilesOfIs, Zenon
    <3> QED BY <1>0, <1>1, <3>1, Zenon DEF Referenced, CommitFiles
  <2> QED BY <2>1, Zenon
<1>11. \A f \in Names : Referenced(f)' => f \in names
  BY <1>3, <1>10, ReferencedCounts, Zenon DEF IInv, ReferencedLive
<1>12. \A f : Condemned(f)' <=> f \in F /\ ~Referenced(f)'
  BY <1>5, <1>7, <1>8, <1>9, ReferencedCountsNext, Zenon
<1>13. \A m \in Segs : InFlight(m)' <=> InFlight(m)
  BY <1>1, Zenon DEF InFlight
<1>14. \A m \in Segs : InFlight(m) => ~Referenced(SegFile(m)) /\ SegFile(m) \notin F
  BY <1>0, <1>3, NamesAre, ReferencedCounts, Zenon DEF Fresh, Referenced
<1>15. \A m \in Segs : InFlight(m)' =>
         InFlight(m) /\ ~Referenced(SegFile(m))' /\ ~Condemned(SegFile(m))'
  BY <1>10, <1>12, <1>13, <1>14, Zenon
<1>16. merging'.target \notin flushing'
  BY <1>1, <1>3, Zenon DEF Fresh
<1>17. /\ ReferencedLive' /\ PointsFirst' /\ PointsKnown' /\ AckedKept'
       /\ SnapshotsDurable' /\ ReaderAhead' /\ CommitPointsSurvive'
       /\ Fresh' /\ Owned'
  <2>1. iw.gen <= iw'.gen
    BY <1>1, <1>3, Fields
  <2>2. \A f : Condemned(f)' => f \in FilesOf(Segs) /\ ~Referenced(f)'
    BY <1>5, <1>12, Zenon
  <2>3. \A f \in names : Referenced(f) => Referenced(f)' \/ Condemned(f)'
    BY <1>10, <1>12, Zenon
  <2> QED BY <1>1, <1>2, <1>8, <1>9, <1>11, <1>13, <1>15, <1>16, <2>1, <2>2, <2>3,
             Released, Zenon DEF disk, policy, history
<1>18. Shape'
  BY <1>1, <1>2, <1>3, <1>4, Zenon DEF Shape, IdleCommit
<1>19. NamesTaken' /\ CommitInProgress' /\ ChangesCounted'
  BY <1>1, NamesTakenKept, CommitInProgressKept, ChangesCountedKept, Zenon DEF IInv
<1> QED BY <1>8, <1>9, <1>17, <1>18, <1>19, Zenon DEF IInv
=============================================================================
