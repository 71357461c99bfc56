------------------------- MODULE DeleteQueueProofs --------------------------
(***************************************************************************)
(* Proofs about DeleteQueue for any number of threads, DWPTs, generations, *)
(* nodes and documents: the parts of the invariant of DeleteQueueInv one   *)
(* after the other, then the theorems that follow from it.                 *)
(***************************************************************************)
EXTENDS DeleteQueueInv, TLAPS

-----------------------------------------------------------------------------
(* Types, and the effect of the operators the actions share *)

(* The initial state of a fresh queue satisfies the inductive invariant. *)
LEMMA InitIndInv == Init => IndInv
<1> SUFFICES ASSUME Init PROVE IndInv
  BY Zenon
<1> USE ConstantsAssumption DEF Gen, Idx, NoGen, Callers
<1>1. TypeOK
  BY DEF Init, TypeOK
<1>2. QueueInv
  BY DEF Init, QueueInv, WindowInv, NodesInv
<1>3. SliceInv
  BY Zenon DEF Init, SliceInv, OneSlice, FreshSlice
<1>4. GlobalInv
  BY DEF Init, GlobalInv, PacketsInv, CutInv
<1> QED
  BY <1>1, <1>2, <1>3, <1>4, Zenon DEF IndInv

(* The ranges of positions and generations as first-order facts. *)
LEMMA IdxFact == \A i : i \in Idx <=> i \in Nat /\ 1 <= i /\ i <= MaxIdx
  BY ConstantsAssumption DEF Idx

LEMMA GenFact ==
  /\ \A g : g \in Gen <=> g \in Nat /\ g <= MaxGen
  /\ NoGen \notin Gen
  BY ConstantsAssumption DEF Gen, NoGen

-----------------------------------------------------------------------------
(* What the building blocks of the actions assign, variable by variable.   *)
(* get_next_sequence_number: *)
LEMMA TakeEffect ==
  ASSUME TypeOK, NEW g \in Gen, TakeSeqNo(g)
  PROVE  /\ nextSeq' \in [Gen -> 1 .. MaxLong]
         /\ budget' \in [Gen -> 0 .. MaxPending]
         /\ \A h \in Gen : nextSeq'[h] = IF h = g THEN nextSeq[h] + 1 ELSE nextSeq[h]
         /\ \A h \in Gen : budget'[h] = IF h = g /\ advanced[h] THEN budget[h] - 1 ELSE budget[h]
         /\ advanced[g] => budget[g] > 0
  BY ConstantsAssumption DEF TypeOK, TakeSeqNo

(* add: *)
LEMMA AddEffect ==
  ASSUME TypeOK, NEW g \in Gen, Add(g)
  PROVE  /\ tail' \in [Gen -> 0 .. MaxIdx]
         /\ nodeSeq' \in [Gen -> [Idx -> 0 .. MaxLong]]
         /\ tail[g] + 1 \in Idx
         /\ \A h \in Gen : tail'[h] = IF h = g THEN tail[h] + 1 ELSE tail[h]
         /\ \A h \in Gen, i \in Idx : nodeSeq'[h][i] =
              IF h = g /\ i = tail[g] + 1 THEN nextSeq[g] ELSE nodeSeq[h][i]
<1> USE ConstantsAssumption
<1>1. tail[g] \in 0 .. MaxIdx /\ nextSeq[g] \in 0 .. MaxLong
  BY DEF TypeOK
<1>2. tail[g] + 1 \in Idx
  BY <1>1, IdxFact DEF Add
<1>3. /\ tail' \in [Gen -> 0 .. MaxIdx]
      /\ \A h \in Gen : tail'[h] = IF h = g THEN tail[h] + 1 ELSE tail[h]
  BY <1>1 DEF TypeOK, Add
<1> DEFINE row == [nodeSeq[g] EXCEPT ![tail[g] + 1] = nextSeq[g]]
<1>4. nodeSeq[g] \in [Idx -> 0 .. MaxLong]
  BY Zenon DEF TypeOK
<1>5. /\ row \in [Idx -> 0 .. MaxLong]
      /\ \A i \in Idx : row[i] = IF i = tail[g] + 1 THEN nextSeq[g] ELSE nodeSeq[g][i]
  BY <1>1, <1>2, <1>4, Zenon
<1>6. nodeSeq' = [nodeSeq EXCEPT ![g] = row]
  BY Zenon DEF Add
<1> HIDE DEF row
<1>7. /\ nodeSeq' \in [Gen -> [Idx -> 0 .. MaxLong]]
      /\ \A h \in Gen, i \in Idx : nodeSeq'[h][i] =
           IF h = g /\ i = tail[g] + 1 THEN nextSeq[g] ELSE nodeSeq[h][i]
  BY <1>5, <1>6, Zenon DEF TypeOK
<1> QED
  BY <1>2, <1>3, <1>7, Zenon

(* DeleteSlice::apply: *)
LEMMA ApplyEffect ==
  ASSUME TypeOK, NEW s \in Slices, NEW newTail \in 0 .. MaxIdx, NEW upto \in 0 .. MaxIdx,
         ApplySlice(s, newTail, upto)
  PROVE  /\ sHead' \in [Slices -> 0 .. MaxIdx]
         /\ limit' \in [Slices -> [Idx -> 0 .. MaxIdx]]
         /\ \A r \in Slices : sHead'[r] = IF r = s THEN newTail ELSE sHead[r]
         /\ \A r \in Slices, i \in Idx : limit'[r][i] =
              IF r = s /\ sHead[s] < i /\ i <= newTail /\ limit[s][i] < upto
                THEN upto ELSE limit[r][i]
  BY ConstantsAssumption, Zenon DEF TypeOK, ApplySlice

(* The documents of one update_documents call: *)
LEMMA DocsEffect ==
  ASSUME TypeOK, NEW s \in Slices, NEW n \in 1 .. MaxBlock, NEW seq \in 0 .. MaxLong,
         AddDocs(s, n, seq)
  PROVE  /\ nDocs' \in [Slices -> 0 .. MaxIdx]
         /\ docSeq' \in [Slices -> [Idx -> 0 .. MaxLong]]
         /\ \A r \in Slices : nDocs'[r] = IF r = s THEN nDocs[r] + n ELSE nDocs[r]
         /\ \A r \in Slices, j \in Idx : docSeq'[r][j] =
              IF r = s /\ nDocs[s] < j /\ j <= nDocs[s] + n THEN seq ELSE docSeq[r][j]
  BY ConstantsAssumption DEF TypeOK, AddDocs

(* The nodes behind the global slice are nodes of the queue. *)
LEMMA GlobalSliceFact ==
  ASSUME TypeOK, NEW g \in Gen
  PROVE  /\ GlobalSlice(g) \subseteq Idx
         /\ \A i : i \in GlobalSlice(g) <=> i \in Idx /\ gHead[g] < i /\ i <= tail[g]
<1>1. gHead[g] \in 0 .. MaxIdx /\ tail[g] \in 0 .. MaxIdx
  BY Zenon DEF TypeOK
<1> QED
  BY <1>1, IdxFact, ConstantsAssumption DEF GlobalSlice

(* freeze_global_buffer_internal: *)
LEMMA FreezeEffect ==
  ASSUME TypeOK, NEW g \in Gen, FreezeInternal(g)
  PROVE  /\ frozen' \in [Gen -> SUBSET Idx] /\ gBuf' \in [Gen -> SUBSET Idx]
         /\ gHead' \in [Gen -> 0 .. MaxIdx] /\ dropped' = dropped
         /\ \A h \in Gen : gHead'[h] = IF h = g THEN tail[h] ELSE gHead[h]
         /\ \A h \in Gen : gBuf'[h] = IF h = g THEN {} ELSE gBuf[h]
         /\ \A h \in Gen : frozen'[h] =
              IF h = g THEN frozen[h] \cup gBuf[h] \cup GlobalSlice(h) ELSE frozen[h]
  BY Zenon, GlobalSliceFact, ConstantsAssumption DEF TypeOK, FreezeInternal

(* advance_queue: *)
LEMMA AdvanceEffect ==
  ASSUME TypeOK, NEW n \in 0 .. MaxPending, AdvanceQueue(n)
  PROVE  /\ gen + 1 \in Gen /\ gen' = gen + 1 /\ ~advanced[gen]
         /\ nextSeq[gen] + n + 1 \in 1 .. MaxLong
         /\ \A h \in Gen : advanced'[h] = IF h = gen THEN TRUE ELSE advanced[h]
         /\ \A h \in Gen : maxSeq'[h] = IF h = gen THEN nextSeq[gen] + n ELSE maxSeq[h]
         /\ \A h \in Gen : budget'[h] = IF h = gen THEN n ELSE budget[h]
         /\ \A h \in Gen : startSeq'[h] = IF h = gen + 1 THEN nextSeq[gen] + n + 1 ELSE startSeq[h]
         /\ \A h \in Gen : nextSeq'[h] = IF h = gen + 1 THEN nextSeq[gen] + n + 1 ELSE nextSeq[h]
<1> USE ConstantsAssumption
<1>1. gen \in Gen /\ gen \in Nat /\ nextSeq[gen] \in 1 .. MaxLong
  BY GenFact, Zenon DEF TypeOK
<1>2. gen + 1 \in Gen /\ gen' = gen + 1 /\ ~advanced[gen]
  BY <1>1, GenFact DEF AdvanceQueue
<1>3. nextSeq[gen] - 1 + n + 1 = nextSeq[gen] + n /\ nextSeq[gen] + n + 1 \in 1 .. MaxLong
  BY <1>1 DEF AdvanceQueue
<1> QED
  BY <1>1, <1>2, <1>3, Zenon DEF TypeOK, AdvanceQueue

-----------------------------------------------------------------------------
(* Every operation of the queue and of the DWPTs keeps the types. *)
LEMMA TypeStep == TypeOK /\ QueueInv /\ [Next]_vars => TypeOK'
<1> SUFFICES ASSUME TypeOK, QueueInv, [Next]_vars PROVE TypeOK'
  BY Zenon
<1> USE ConstantsAssumption DEF TypeOK, queueVars, globalVars, sliceVars
<1>1. ASSUME NEW t \in Threads, AddDelete(t) PROVE TypeOK'
  <2>1. gen \in Gen /\ Add(gen) /\ TakeSeqNo(gen)
    BY <1>1, Zenon DEF AddDelete, Add
  <2>2. pend' \in [Callers -> Gen \cup {NoGen}]
    BY <1>1, Zenon DEF AddDelete, Callers
  <2> QED
    BY <1>1, <2>1, <2>2, TakeEffect, AddEffect, Zenon DEF AddDelete
<1>2. ASSUME NEW s \in Slices, NEW n \in 1 .. MaxBlock, UpdateDocuments(s, n) PROVE TypeOK'
  <2> DEFINE g == sGen[s]
  <2>1. g \in Gen /\ Add(g) /\ TakeSeqNo(g)
    BY <1>2, Zenon DEF UpdateDocuments, Usable, Add
  <2>2. tail[g] + 1 \in 0 .. MaxIdx /\ nDocs[s] \in 0 .. MaxIdx /\ nextSeq[g] \in 0 .. MaxLong
    BY <2>1 DEF Add
  <2>3. pend' \in [Callers -> Gen \cup {NoGen}]
    BY <1>2, <2>1, Zenon DEF UpdateDocuments, Callers
  <2>4. AddDocs(s, n, nextSeq[g]) /\ ApplySlice(s, tail[g] + 1, nDocs[s])
    BY <1>2, Zenon DEF UpdateDocuments
  <2>5. /\ nDocs' \in [Slices -> 0 .. MaxIdx] /\ docSeq' \in [Slices -> [Idx -> 0 .. MaxLong]]
        /\ sHead' \in [Slices -> 0 .. MaxIdx] /\ limit' \in [Slices -> [Idx -> 0 .. MaxIdx]]
    BY <2>2, <2>4, DocsEffect, ApplyEffect, Zenon
  <2>6. /\ tail' \in [Gen -> 0 .. MaxIdx] /\ nodeSeq' \in [Gen -> [Idx -> 0 .. MaxLong]]
        /\ nextSeq' \in [Gen -> 1 .. MaxLong] /\ budget' \in [Gen -> 0 .. MaxPending]
    BY <2>1, TakeEffect, AddEffect, Zenon
  <2> QED
    BY <1>2, <2>3, <2>5, <2>6, Zenon DEF UpdateDocuments
<1>3. ASSUME NEW s \in Slices, NEW n \in 1 .. MaxBlock, AddDocuments(s, n) PROVE TypeOK'
  <2> DEFINE g == sGen[s]
  <2>1. g \in Gen /\ TakeSeqNo(g)
    BY <1>3, Zenon DEF AddDocuments, Usable
  <2>2. tail[g] \in 0 .. MaxIdx /\ nDocs[s] \in 0 .. MaxIdx /\ nextSeq[g] \in 0 .. MaxLong
    BY <2>1
  <2>4. AddDocs(s, n, nextSeq[g]) /\ ApplySlice(s, tail[g], nDocs[s])
    BY <1>3, Zenon DEF AddDocuments
  <2>5. /\ nDocs' \in [Slices -> 0 .. MaxIdx] /\ docSeq' \in [Slices -> [Idx -> 0 .. MaxLong]]
        /\ sHead' \in [Slices -> 0 .. MaxIdx] /\ limit' \in [Slices -> [Idx -> 0 .. MaxIdx]]
    BY <2>2, <2>4, DocsEffect, ApplyEffect, Zenon
  <2>6. nextSeq' \in [Gen -> 1 .. MaxLong] /\ budget' \in [Gen -> 0 .. MaxPending]
    BY <2>1, TakeEffect, Zenon
  <2> QED
    BY <1>3, <2>5, <2>6, Zenon DEF AddDocuments
<1>4. ASSUME NEW s \in Slices, NEW n \in 1 .. MaxBlock, FailDocuments(s, n) PROVE TypeOK'
  <2>1. AddDocs(s, n, 0) /\ 0 \in 0 .. MaxLong
    BY <1>4 DEF FailDocuments
  <2> QED
    BY <1>4, <2>1, DocsEffect, Zenon DEF FailDocuments
<1>5. ASSUME NEW s \in Slices, NewSlice(s) PROVE TypeOK'
  BY <1>5, Zenon DEF NewSlice
<1>6. ASSUME NEW s \in Slices, PrepareFlush(s) PROVE TypeOK'
  <2> DEFINE g == sGen[s]
  <2>1. g \in Gen /\ FreezeInternal(g)
    BY <1>6, Zenon DEF PrepareFlush, Usable
  <2>2. tail[g] \in 0 .. MaxIdx /\ nDocs[s] \in 0 .. MaxIdx
    BY <2>1, Zenon
  <2>3. sHead' \in [Slices -> 0 .. MaxIdx] /\ limit' \in [Slices -> [Idx -> 0 .. MaxIdx]]
    BY <1>6, <2>2, ApplyEffect, Zenon DEF PrepareFlush
  <2>4. /\ frozen' \in [Gen -> SUBSET Idx] /\ gBuf' \in [Gen -> SUBSET Idx]
        /\ gHead' \in [Gen -> 0 .. MaxIdx] /\ dropped' = dropped
    BY <2>1, FreezeEffect, Zenon
  <2> QED
    BY <1>6, <2>3, <2>4, Zenon DEF PrepareFlush
<1>7. ASSUME NEW c \in Callers, TryApplyGlobalSlice(c) PROVE TypeOK'
  <2>1. pend[c] \in Gen
    BY <1>7, Zenon DEF TryApplyGlobalSlice
  <2>2. GlobalSlice(pend[c]) \subseteq Idx
    BY <2>1, GlobalSliceFact, Zenon
  <2>3. pend' \in [Callers -> Gen \cup {NoGen}]
    BY <1>7, Zenon DEF TryApplyGlobalSlice
  <2>4. gBuf' \in [Gen -> SUBSET Idx] /\ gHead' \in [Gen -> 0 .. MaxIdx]
    BY <1>7, <2>1, <2>2 DEF TryApplyGlobalSlice
  <2> QED
    BY <1>7, <2>3, <2>4, Zenon DEF TryApplyGlobalSlice
<1>8. ASSUME NEW g \in Gen, MaybeFreezeGlobalBuffer(g) PROVE TypeOK'
  BY <1>8, FreezeEffect, Zenon DEF MaybeFreezeGlobalBuffer
<1>9. ASSUME NEW g \in Gen, Close(g) PROVE TypeOK'
  <2>1. maxSeq[g] + 1 \in 1 .. MaxLong
    BY <1>9 DEF Close, QueueInv, WindowInv
  <2> QED
    BY <1>9, <2>1, Zenon DEF Close
<1>10. ASSUME NEW n \in 0 .. MaxPending, AdvanceQueue(n) PROVE TypeOK'
  <2>1. /\ gen + 1 \in Gen /\ nextSeq[gen] - 1 + n + 1 = nextSeq[gen] + n
        /\ nextSeq[gen] + n \in 0 .. MaxLong /\ nextSeq[gen] + n + 1 \in 1 .. MaxLong
    <3>1. nextSeq[gen] \in 1 .. MaxLong
      BY Zenon DEF TypeOK
    <3>2. gen + 1 \in Gen /\ nextSeq[gen] + n + 1 \in 1 .. MaxLong
      BY Zenon, <1>10, AdvanceEffect DEF TypeOK
    <3> HIDE DEF TypeOK
    <3> QED
      BY <3>1, <3>2
  <2> QED
    BY <1>10, <2>1, Zenon DEF AdvanceQueue
<1>11. ASSUME NEW n \in 0 .. MaxPending, SkipSequenceNumbers(n + 1) PROVE TypeOK'
  BY <1>11 DEF SkipSequenceNumbers
<1>12. CASE Clear
  <2>1. gen \in Gen /\ GlobalSlice(gen) \subseteq Idx
    BY GlobalSliceFact, Zenon
  <2> QED
    BY <1>12, <2>1, Zenon DEF Clear
<1>13. CASE UNCHANGED vars
  BY <1>13, Zenon DEF vars
<1> QED
  BY Zenon, <1>1, <1>2, <1>3, <1>4, <1>5, <1>6, <1>7, <1>8, <1>9, <1>10, <1>11, <1>12, <1>13 DEF Next

-----------------------------------------------------------------------------
(* QueueInv: the sequence numbers handed out by each queue stay inside its *)
(* window                                                                  *)

(* The types of the fields of one queue. *)
PointTypes(g) ==
  /\ g \in Nat /\ gen \in Nat /\ MaxLong \in Nat
  /\ nextSeq[g] \in Nat /\ maxSeq[g] \in Nat /\ startSeq[g] \in Nat
  /\ budget[g] \in Nat /\ tail[g] \in Nat
  /\ \A i \in Idx : i \in Nat /\ nodeSeq[g][i] \in Nat

LEMMA PointTypesFact == ASSUME TypeOK, NEW g \in Gen PROVE PointTypes(g)
<1>1. /\ nextSeq[g] \in 1 .. MaxLong /\ maxSeq[g] \in 0 .. MaxLong /\ startSeq[g] \in 1 .. MaxLong
      /\ budget[g] \in 0 .. MaxPending /\ tail[g] \in 0 .. MaxIdx /\ gen \in Gen
      /\ \A i \in Idx : nodeSeq[g][i] \in 0 .. MaxLong
  BY Zenon DEF TypeOK
<1> QED
  BY <1>1, GenFact, IdxFact, ConstantsAssumption DEF PointTypes

(* Steps that do not touch the queues keep QueueInv. *)
LEMMA QueueFrame == ASSUME QueueInv, UNCHANGED queueVars PROVE QueueInv'
  BY Zenon DEF queueVars, QueueInv, WindowInv, NodesInv

(* Taking a sequence number within the window keeps QueueInv. *)
LEMMA TakeKeepsQueueInv ==
  ASSUME TypeOK, QueueInv, NEW g \in Gen, g <= gen, TakeSeqNo(g), ~closed[g],
         UNCHANGED <<gen, tail, nodeSeq, maxSeq, startSeq, advanced, closed>>
  PROVE  QueueInv'
<1>1. /\ \A h \in Gen : nextSeq'[h] = IF h = g THEN nextSeq[h] + 1 ELSE nextSeq[h]
      /\ \A h \in Gen : budget'[h] = IF h = g /\ advanced[h] THEN budget[h] - 1 ELSE budget[h]
      /\ advanced[g] => budget[g] > 0
      /\ nextSeq[g] < MaxLong
  BY Zenon, TakeEffect DEF TakeSeqNo
<1> SUFFICES ASSUME NEW h \in Gen PROVE WindowInv(h)' /\ NodesInv(h)'
  BY Zenon DEF QueueInv
<1>2. WindowInv(h) /\ NodesInv(h) /\ PointTypes(h)
  BY PointTypesFact, Zenon DEF QueueInv
<1>3. WindowInv(h)'
  BY <1>1, <1>2 DEF WindowInv, PointTypes
<1>4. NodesInv(h)'
  BY <1>1, <1>2 DEF NodesInv, PointTypes
<1> QED
  BY <1>3, <1>4, Zenon

(* So does linking a node that gets this number. *)
LEMMA AddKeepsQueueInv ==
  ASSUME TypeOK, QueueInv, NEW g \in Gen, g <= gen, Add(g),
         UNCHANGED <<gen, maxSeq, startSeq, advanced, closed>>
  PROVE  QueueInv'
<1>1. /\ \A h \in Gen : nextSeq'[h] = IF h = g THEN nextSeq[h] + 1 ELSE nextSeq[h]
      /\ \A h \in Gen : budget'[h] = IF h = g /\ advanced[h] THEN budget[h] - 1 ELSE budget[h]
      /\ advanced[g] => budget[g] > 0
      /\ nextSeq[g] < MaxLong
      /\ ~closed[g]
  BY Zenon, TakeEffect DEF Add, TakeSeqNo
<1>2. /\ \A h \in Gen : tail'[h] = IF h = g THEN tail[h] + 1 ELSE tail[h]
      /\ \A h \in Gen, i \in Idx : nodeSeq'[h][i] =
           IF h = g /\ i = tail[g] + 1 THEN nextSeq[g] ELSE nodeSeq[h][i]
  BY AddEffect, Zenon
<1> SUFFICES ASSUME NEW h \in Gen PROVE WindowInv(h)' /\ NodesInv(h)'
  BY Zenon DEF QueueInv
<1>3. WindowInv(h) /\ NodesInv(h) /\ PointTypes(h)
  BY PointTypesFact, Zenon DEF QueueInv
<1>4. WindowInv(h)'
  BY <1>1, <1>2, <1>3 DEF WindowInv, PointTypes
<1>5. NodesInv(h)'
  BY <1>1, <1>2, <1>3 DEF WindowInv, NodesInv, PointTypes
<1> QED
  BY <1>4, <1>5, Zenon

(* The sequence numbers stay inside the windows of their queues. *)
LEMMA QueueStep == TypeOK /\ QueueInv /\ SliceInv /\ [Next]_vars => QueueInv'
<1> SUFFICES ASSUME TypeOK, QueueInv, SliceInv, [Next]_vars PROVE QueueInv'
  BY Zenon
<1> USE ConstantsAssumption
<1>1. ASSUME NEW t \in Threads, AddDelete(t) PROVE QueueInv'
  <2>1. gen \in Gen /\ gen <= gen /\ Add(gen)
    BY <1>1, GenFact DEF AddDelete, TypeOK
  <2>2. UNCHANGED <<gen, maxSeq, startSeq, advanced, closed>>
    BY <1>1, Zenon DEF AddDelete
  <2> QED
    BY <2>1, <2>2, AddKeepsQueueInv, Zenon
<1>2. ASSUME NEW s \in Slices, NEW n \in 1 .. MaxBlock, UpdateDocuments(s, n) PROVE QueueInv'
  <2>1. sGen[s] \in Gen /\ Add(sGen[s]) /\ sGen[s] <= gen
    BY <1>2, Zenon DEF UpdateDocuments, Usable, TypeOK, SliceInv, OneSlice, SliceInvFor,
       FreshSlice
  <2>2. UNCHANGED <<gen, maxSeq, startSeq, advanced, closed>>
    BY <1>2, Zenon DEF UpdateDocuments
  <2> QED
    BY <2>1, <2>2, AddKeepsQueueInv, Zenon
<1>3. ASSUME NEW s \in Slices, NEW n \in 1 .. MaxBlock, AddDocuments(s, n) PROVE QueueInv'
  <2>1. sGen[s] \in Gen /\ TakeSeqNo(sGen[s]) /\ sGen[s] <= gen /\ ~closed[sGen[s]]
    BY <1>3, Zenon DEF AddDocuments, Usable, TypeOK, SliceInv, OneSlice, SliceInvFor, FreshSlice
  <2>2. UNCHANGED <<gen, tail, nodeSeq, maxSeq, startSeq, advanced, closed>>
    BY <1>3, Zenon DEF AddDocuments
  <2> QED
    BY <2>1, <2>2, TakeKeepsQueueInv, Zenon
<1>4. ASSUME NEW s \in Slices, NEW n \in 1 .. MaxBlock, FailDocuments(s, n) PROVE QueueInv'
  BY <1>4, QueueFrame, Zenon DEF FailDocuments
<1>5. ASSUME NEW s \in Slices, NewSlice(s) PROVE QueueInv'
  BY <1>5, QueueFrame, Zenon DEF NewSlice
<1>6. ASSUME NEW s \in Slices, PrepareFlush(s) PROVE QueueInv'
  BY <1>6, QueueFrame, Zenon DEF PrepareFlush
<1>7. ASSUME NEW c \in Callers, TryApplyGlobalSlice(c) PROVE QueueInv'
  BY <1>7, QueueFrame, Zenon DEF TryApplyGlobalSlice
<1>8. ASSUME NEW g \in Gen, MaybeFreezeGlobalBuffer(g) PROVE QueueInv'
  BY <1>8, QueueFrame, Zenon DEF MaybeFreezeGlobalBuffer
<1>9. ASSUME NEW g \in Gen, Close(g) PROVE QueueInv'
  <2>1. /\ nextSeq'[g] = maxSeq[g] + 1 /\ closed'[g] /\ advanced[g] /\ ~closed[g]
        /\ \A h \in Gen : h # g => nextSeq'[h] = nextSeq[h] /\ closed'[h] = closed[h]
        /\ UNCHANGED <<gen, tail, nodeSeq, maxSeq, startSeq, advanced, budget>>
    BY <1>9, Zenon DEF Close, TypeOK
  <2> SUFFICES ASSUME NEW h \in Gen PROVE WindowInv(h)' /\ NodesInv(h)'
    BY Zenon DEF QueueInv
  <2>2. WindowInv(h) /\ NodesInv(h) /\ PointTypes(h)
    BY PointTypesFact, Zenon DEF QueueInv
  <2>3. CASE h # g
    <3>1. nextSeq'[h] = nextSeq[h] /\ closed'[h] = closed[h]
      BY <2>1, <2>3, Zenon
    <3> QED
      BY <2>1, <2>2, <3>1, Zenon DEF WindowInv, NodesInv
  <2>4. CASE h = g
    <3>1. /\ nextSeq'[h] = maxSeq[h] + 1 /\ closed'[h] /\ advanced[h] /\ ~closed[h]
          /\ gen' = gen /\ tail'[h] = tail[h] /\ nodeSeq'[h] = nodeSeq[h] /\ maxSeq'[h] = maxSeq[h]
          /\ startSeq'[h] = startSeq[h] /\ startSeq'[h + 1] = startSeq[h + 1]
          /\ advanced'[h] = advanced[h] /\ budget'[h] = budget[h]
      BY <2>1, <2>4, Zenon
    <3>2. nextSeq[h] <= maxSeq[h] /\ startSeq[h] <= nextSeq[h] /\ h < gen
      BY <2>2, <3>1 DEF WindowInv, PointTypes
    <3>3. WindowInv(h)'
      BY <2>2, <3>1, <3>2 DEF WindowInv, PointTypes
    <3>4. NodesInv(h)'
      BY <2>2, <3>1, <3>2 DEF NodesInv, PointTypes
    <3> QED
      BY <3>3, <3>4, Zenon
  <2> QED
    BY <2>3, <2>4, Zenon
<1>10. ASSUME NEW n \in 0 .. MaxPending, AdvanceQueue(n) PROVE QueueInv'
  <2> DEFINE m == nextSeq[gen] + n
  <2>1. /\ gen + 1 \in Gen /\ gen' = gen + 1 /\ ~advanced[gen] /\ m + 1 \in 1 .. MaxLong
        /\ \A h \in Gen : advanced'[h] = IF h = gen THEN TRUE ELSE advanced[h]
        /\ \A h \in Gen : maxSeq'[h] = IF h = gen THEN m ELSE maxSeq[h]
        /\ \A h \in Gen : budget'[h] = IF h = gen THEN n ELSE budget[h]
        /\ \A h \in Gen : startSeq'[h] = IF h = gen + 1 THEN m + 1 ELSE startSeq[h]
        /\ \A h \in Gen : nextSeq'[h] = IF h = gen + 1 THEN m + 1 ELSE nextSeq[h]
    BY Zenon, <1>10, AdvanceEffect
  <2>2. UNCHANGED <<tail, nodeSeq, closed>> /\ gen \in Gen /\ gen \in Nat
    BY <1>10, GenFact, Zenon DEF AdvanceQueue, TypeOK
  <2>3. WindowInv(gen) /\ NodesInv(gen) /\ PointTypes(gen) /\ WindowInv(gen + 1)
    BY <2>1, <2>2, PointTypesFact, Zenon DEF QueueInv
  <2>4. m \in Nat /\ m < MaxLong /\ nextSeq[gen] <= m /\ \A i \in Idx : i <= tail[gen] => nodeSeq[gen][i] < m
    BY <2>1, <2>3 DEF PointTypes, NodesInv
  <2>5. tail[gen + 1] = 0 /\ ~closed[gen] /\ ~closed[gen + 1] /\ ~advanced[gen + 1] /\ maxSeq[gen + 1] = MaxLong
    BY <2>2, <2>3 DEF WindowInv
  <2>a. advanced'[gen] /\ gen + 1 # gen
    <3>1. advanced'[gen]
      BY <1>10, <2>2, Zenon DEF AdvanceQueue, TypeOK
    <3> QED
      BY <2>2, <3>1
  <2>b. /\ advanced'[gen + 1] = advanced[gen + 1] /\ maxSeq'[gen] = m /\ budget'[gen] = n
        /\ startSeq'[gen] = startSeq[gen] /\ nextSeq'[gen] = nextSeq[gen]
        /\ maxSeq'[gen + 1] = maxSeq[gen + 1] /\ startSeq'[gen + 1] = m + 1 /\ nextSeq'[gen + 1] = m + 1
    BY Zenon, <2>1, <2>2, <2>a
  <2>c. m = nextSeq[gen] + n
    BY Zenon
  <2> HIDE DEF m
  <2> SUFFICES ASSUME NEW h \in Gen PROVE WindowInv(h)' /\ NodesInv(h)'
    BY Zenon DEF QueueInv
  <2>6. WindowInv(h) /\ NodesInv(h) /\ PointTypes(h)
    BY PointTypesFact, Zenon DEF QueueInv
  <2>7. CASE h = gen
    <3>1. /\ gen' = gen + 1 /\ h + 1 \in Gen /\ advanced'[h] /\ maxSeq'[h] = m /\ budget'[h] = n /\ startSeq'[h + 1] = m + 1
          /\ startSeq'[h] = startSeq[h] /\ nextSeq'[h] = nextSeq[h] /\ tail'[h] = tail[h] /\ nodeSeq'[h] = nodeSeq[h]
          /\ closed'[h] = closed[h] /\ ~closed[h] /\ m = nextSeq[h] + n /\ m \in Nat /\ m < MaxLong
      BY <2>1, <2>2, <2>4, <2>5, <2>7, <2>a, <2>b, <2>c, Zenon
    <3>2. WindowInv(h)'
      BY <2>6, <2>7, <3>1 DEF WindowInv, PointTypes
    <3>3. NodesInv(h)'
      BY <2>4, <2>6, <2>7, <3>1 DEF NodesInv, PointTypes
    <3> QED
      BY <3>2, <3>3, Zenon
  <2>8. CASE h = gen + 1
    <3>1. /\ gen' = h /\ ~advanced'[h] /\ maxSeq'[h] = MaxLong /\ startSeq'[h] = m + 1 /\ nextSeq'[h] = m + 1
          /\ tail'[h] = 0 /\ ~closed'[h] /\ m \in Nat /\ m < MaxLong
      BY <2>1, <2>2, <2>4, <2>5, <2>8, <2>b, Zenon
    <3>2. WindowInv(h)'
      BY <2>6, <3>1 DEF WindowInv, PointTypes
    <3>3. NodesInv(h)'
      BY <3>1, IdxFact DEF NodesInv
    <3> QED
      BY <3>2, <3>3, Zenon
  <2>9. CASE h # gen /\ h # gen + 1
    <3>1. advanced'[h] = advanced[h] /\ maxSeq'[h] = maxSeq[h] /\ budget'[h] = budget[h] /\ startSeq'[h] = startSeq[h] /\ nextSeq'[h] = nextSeq[h]
      BY Zenon, <2>1, <2>9
    <3>2. h < gen => h + 1 \in Gen /\ startSeq'[h + 1] = startSeq[h + 1]
      BY <2>1, <2>2, <2>6, GenFact DEF PointTypes
    <3>3. WindowInv(h)'
      BY <2>1, <2>2, <2>6, <2>9, <3>1, <3>2 DEF WindowInv, PointTypes
    <3> QED
      BY <2>2, <2>6, <3>1, <3>3, Zenon DEF NodesInv
  <2> QED
    BY <2>7, <2>8, <2>9, Zenon
<1>11. ASSUME NEW n \in 0 .. MaxPending, SkipSequenceNumbers(n + 1) PROVE QueueInv'
  <2>1. \A h \in Gen : nextSeq'[h] = IF h = gen THEN nextSeq[gen] + (n + 1) ELSE nextSeq[h]
    BY <1>11, Zenon DEF SkipSequenceNumbers, TypeOK
  <2>2. UNCHANGED <<gen, tail, nodeSeq, maxSeq, startSeq, advanced, closed, budget>>
    BY <1>11, Zenon DEF SkipSequenceNumbers
  <2>3. gen \in Gen /\ gen \in Nat /\ nextSeq[gen] + (n + 1) <= MaxLong
    BY <1>11, GenFact, Zenon DEF SkipSequenceNumbers, TypeOK
  <2> SUFFICES ASSUME NEW h \in Gen PROVE WindowInv(h)' /\ NodesInv(h)'
    BY Zenon DEF QueueInv
  <2>4. WindowInv(h) /\ NodesInv(h) /\ PointTypes(h)
    BY PointTypesFact, Zenon DEF QueueInv
  <2>5. /\ gen' = gen /\ tail' = tail /\ startSeq' = startSeq /\ maxSeq'[h] = maxSeq[h] /\ nodeSeq'[h] = nodeSeq[h]
        /\ advanced'[h] = advanced[h] /\ closed'[h] = closed[h] /\ budget'[h] = budget[h]
    BY <2>2, Zenon
  <2>6. CASE h = gen
    <3>1. nextSeq'[h] = nextSeq[h] + (n + 1) /\ nextSeq[h] + (n + 1) <= MaxLong /\ n \in Nat
      BY <2>1, <2>3, <2>6 DEF PointTypes
    <3>2. ~advanced[h] /\ ~closed[h] /\ maxSeq[h] = MaxLong /\ startSeq[h] <= nextSeq[h]
      BY <2>4, <2>6 DEF WindowInv, PointTypes
    <3>3. WindowInv(h)'
      BY <2>4, <2>5, <2>6, <3>1, <3>2 DEF WindowInv, PointTypes
    <3>4. NodesInv(h)'
      BY <2>4, <2>5, <3>1 DEF NodesInv, PointTypes
    <3> QED
      BY <3>3, <3>4, Zenon
  <2>7. CASE h # gen
    <3>1. nextSeq'[h] = nextSeq[h]
      BY <2>1, <2>7, Zenon
    <3> QED
      BY <2>4, <2>5, <3>1, Zenon DEF WindowInv, NodesInv
  <2> QED
    BY <2>6, <2>7, Zenon
<1>12. CASE Clear
  BY <1>12, QueueFrame, Zenon DEF Clear
<1>13. CASE UNCHANGED vars
  BY <1>13, QueueFrame, Zenon DEF vars
<1> QED
  BY <1>1, <1>2, <1>3, <1>4, <1>5, <1>6, <1>7, <1>8, <1>9, <1>10, <1>11, <1>12, <1>13, Zenon DEF
     Next

-----------------------------------------------------------------------------
(* SliceInv: the documents and delete slices of the DWPTs stay consistent  *)
(* with their queue, whatever the queue does meanwhile                     *)

(* How a step may change queue g without touching the documents and slices *)
(* that refer to it: it only appends nodes, numbered from next_seq_no on,  *)
(* and max_seq_no never falls below a number that was handed out.          *)
QueueGrows(g) ==
  /\ gen <= gen' /\ gen' \in Nat
  /\ startSeq'[g] = startSeq[g]
  /\ nextSeq'[g] \in Nat /\ nextSeq[g] <= nextSeq'[g]
  /\ maxSeq'[g] \in Nat /\ (maxSeq[g] <= maxSeq'[g] \/ nextSeq[g] <= maxSeq'[g] + 1)
  /\ tail'[g] \in Nat /\ tail[g] <= tail'[g]
  /\ \A i \in Idx : /\ nodeSeq'[g][i] \in Nat
                    /\ i <= tail[g] => nodeSeq'[g][i] = nodeSeq[g][i]
                    /\ tail[g] < i /\ i <= tail'[g] => nextSeq[g] <= nodeSeq'[g][i]

(* The types of the fields of one slice. *)
SliceTypes(s) ==
  /\ sHead[s] \in Nat /\ nDocs[s] \in Nat
  /\ \A i \in Idx : i \in Nat /\ i > 0 /\ docSeq[s][i] \in Nat /\ limit[s][i] \in Nat

LEMMA SliceTypesFact == ASSUME TypeOK, NEW s \in Slices PROVE SliceTypes(s)
<1>1. /\ sHead[s] \in 0 .. MaxIdx /\ nDocs[s] \in 0 .. MaxIdx
      /\ \A i \in Idx : docSeq[s][i] \in 0 .. MaxLong /\ limit[s][i] \in 0 .. MaxIdx
  BY Zenon DEF TypeOK
<1> QED
  BY <1>1, IdxFact, ConstantsAssumption DEF SliceTypes

(* A slice that the step does not touch stays consistent with its queue. *)
LEMMA SliceFrame ==
  ASSUME TypeOK, NEW s \in Slices, OneSlice(s),
         sGen'[s] = sGen[s], sHead'[s] = sHead[s], nDocs'[s] = nDocs[s],
         docSeq'[s] = docSeq[s], limit'[s] = limit[s], s \in done' => s \in done,
         \A g \in Gen : g <= gen => QueueGrows(g)
  PROVE  OneSlice(s)'
<1>1. CASE sGen[s] = NoGen
  BY <1>1, Zenon DEF OneSlice, FreshSlice
<1>2. CASE sGen[s] # NoGen
  <2> DEFINE g == sGen[s]
  <2>1. g \in Gen /\ SliceInvFor(s, g) /\ PointTypes(g) /\ SliceTypes(s)
    BY <1>2, PointTypesFact, SliceTypesFact, Zenon DEF TypeOK, OneSlice
  <2>2. QueueGrows(g)
    BY <2>1, Zenon DEF SliceInvFor
  <2> HIDE DEF g
  <2>3. \A j \in Idx : Indexed(s, j)' <=> Indexed(s, j)
    BY Zenon DEF Indexed
  <2>4. \A j \in Idx : Indexed(s, j)' => /\ startSeq'[g] <= docSeq'[s][j]
                                         /\ docSeq'[s][j] < nextSeq'[g]
                                         /\ docSeq'[s][j] <= maxSeq'[g]
    BY <2>1, <2>2, <2>3 DEF SliceInvFor, QueueGrows, PointTypes, SliceTypes
  <2>5. \A i, j \in Idx : i <= sHead'[s] /\ Indexed(s, j)'
          => (j <= limit'[s][i] <=> docSeq'[s][j] < nodeSeq'[g][i])
    BY <2>1, <2>2, <2>3 DEF SliceInvFor, QueueGrows, PointTypes, SliceTypes
  <2>6. \A i, j \in Idx : sHead'[s] < i /\ i <= tail'[g] /\ Indexed(s, j)'
          => docSeq'[s][j] < nodeSeq'[g][i]
    BY <2>1, <2>2, <2>3, SMTT(30) DEF SliceInvFor, QueueGrows, PointTypes, SliceTypes
  <2>7. /\ g <= gen' /\ sHead'[s] <= tail'[g]
        /\ \A i \in Idx : limit'[s][i] <= nDocs'[s]
        /\ \A i \in Idx : i > sHead'[s] => limit'[s][i] = 0
    BY <2>1, <2>2 DEF SliceInvFor, QueueGrows, PointTypes, SliceTypes
  <2>8. (SliceInvFor(s, g))'
    BY <2>4, <2>5, <2>6, <2>7, g' = g, Zenon DEF SliceInvFor, g
  <2> QED
    BY <1>2, <2>8, Zenon DEF OneSlice, g
<1> QED
  BY <1>1, <1>2, Zenon

-----------------------------------------------------------------------------
(* finish_documents: the new documents carry the number of their call, the *)
(* older ones are covered by every node up to the new tail.                *)
LEMMA FinishKeepsSlice ==
  ASSUME TypeOK, NEW s \in Slices, NEW g \in Gen, SliceInvFor(s, g), NodesInv(g), WindowInv(g),
         QueueGrows(g), nextSeq'[g] = nextSeq[g] + 1, nextSeq[g] <= maxSeq'[g], g <= gen,
         NEW n \in 1 .. MaxBlock, AddDocs(s, n, nextSeq[g]),
         tail'[g] \in 0 .. MaxIdx, ApplySlice(s, tail'[g], nDocs[s]),
         \A i \in Idx : tail[g] < i /\ i <= tail'[g] => nodeSeq'[g][i] = nextSeq[g]
  PROVE  (SliceInvFor(s, g))'
<1>1. SliceTypes(s) /\ PointTypes(g) /\ n \in Nat /\ nDocs[s] \in 0 .. MaxIdx /\ nextSeq[g] \in 0 .. MaxLong
  BY SliceTypesFact, PointTypesFact, ConstantsAssumption, SMTT(30) DEF TypeOK
<1>2. /\ nDocs'[s] = nDocs[s] + n
      /\ \A j \in Idx : docSeq'[s][j] =
           IF nDocs[s] < j /\ j <= nDocs[s] + n THEN nextSeq[g] ELSE docSeq[s][j]
  BY <1>1, DocsEffect
<1>3. /\ sHead'[s] = tail'[g]
      /\ \A i \in Idx : limit'[s][i] =
           IF sHead[s] < i /\ i <= tail'[g] /\ limit[s][i] < nDocs[s] THEN nDocs[s] ELSE limit[s][i]
  BY <1>1, ApplyEffect
<1>4. \A j \in Idx : Indexed(s, j)' => (j <= nDocs[s] /\ Indexed(s, j) /\ docSeq'[s][j] = docSeq[s][j])
                                       \/ (nDocs[s] < j /\ docSeq'[s][j] = nextSeq[g])
  BY <1>1, <1>2, SMTT(30) DEF Indexed, SliceTypes
<1>5. \A j \in Idx : Indexed(s, j)' => /\ startSeq'[g] <= docSeq'[s][j]
                                       /\ docSeq'[s][j] < nextSeq'[g]
                                       /\ docSeq'[s][j] <= maxSeq'[g]
  BY <1>1, <1>4, SMTT(30) DEF SliceInvFor, QueueGrows, PointTypes, SliceTypes, WindowInv
<1>6. ASSUME NEW i \in Idx, NEW j \in Idx, i <= sHead'[s], Indexed(s, j)'
      PROVE  j <= limit'[s][i] <=> docSeq'[s][j] < nodeSeq'[g][i]
  <2>1. CASE i <= sHead[s]
    <3>1. i <= tail[g] /\ nodeSeq'[g][i] = nodeSeq[g][i] /\ nodeSeq[g][i] < nextSeq[g] /\ limit'[s][i] = limit[s][i] /\ limit[s][i] <= nDocs[s]
      BY <1>1, <1>3, <2>1, SMTT(30) DEF SliceInvFor, QueueGrows, PointTypes, SliceTypes, NodesInv
    <3> QED
      BY <1>1, <1>4, <1>6, <2>1, <3>1, SMTT(30) DEF SliceInvFor, PointTypes, SliceTypes
  <2>2. CASE sHead[s] < i
    <3>1. limit'[s][i] = nDocs[s]
      BY <1>1, <1>3, <1>6, <2>2 DEF SliceInvFor, SliceTypes
    <3>2. CASE i <= tail[g]
      BY <1>1, <1>4, <1>6, <2>2, <3>1, <3>2, SMTT(30) DEF SliceInvFor, QueueGrows, PointTypes, SliceTypes, NodesInv
    <3>3. CASE tail[g] < i
      BY <1>1, <1>3, <1>4, <1>6, <2>2, <3>1, <3>3 DEF SliceInvFor, PointTypes, SliceTypes
    <3> QED
      BY <1>1, <3>2, <3>3 DEF PointTypes, SliceTypes
  <2> QED
    BY <1>1, <2>1, <2>2, SMTT(30) DEF SliceTypes
<1>7. /\ g <= gen' /\ sHead'[s] <= tail'[g]
      /\ \A i \in Idx : limit'[s][i] <= nDocs'[s]
      /\ \A i \in Idx : i > sHead'[s] => limit'[s][i] = 0
  BY <1>1, <1>2, <1>3 DEF SliceInvFor, QueueGrows, PointTypes, SliceTypes
<1>8. \A i, j \in Idx : sHead'[s] < i /\ i <= tail'[g] /\ Indexed(s, j)'
         => docSeq'[s][j] < nodeSeq'[g][i]
  BY <1>1, <1>3 DEF QueueGrows, PointTypes, SliceTypes
<1> QED
  BY <1>5, <1>6, <1>7, <1>8, Zenon DEF SliceInvFor

(* Steps that leave the queues alone let them grow trivially. *)
LEMMA GrowsFrame ==
  ASSUME TypeOK, NEW g \in Gen, UNCHANGED queueVars PROVE QueueGrows(g)
<1>1. PointTypes(g)
  BY PointTypesFact, Zenon
<1> QED
  BY <1>1 DEF PointTypes, QueueGrows, queueVars

LEMMA GrowsTake ==
  ASSUME TypeOK, NEW g \in Gen, TakeSeqNo(g), NEW h \in Gen,
         UNCHANGED <<gen, tail, nodeSeq, maxSeq, startSeq>>
  PROVE  QueueGrows(h)
<1>1. PointTypes(h) /\ \A k \in Gen : nextSeq'[k] = IF k = g THEN nextSeq[k] + 1 ELSE nextSeq[k]
  BY PointTypesFact, TakeEffect, Zenon
<1> QED
  BY <1>1 DEF PointTypes, QueueGrows

LEMMA GrowsAdd ==
  ASSUME TypeOK, NEW g \in Gen, Add(g), NEW h \in Gen, UNCHANGED <<gen, maxSeq, startSeq>>
  PROVE  QueueGrows(h)
<1>1. PointTypes(h) /\ PointTypes(g) /\ \A k \in Gen : nextSeq'[k] = IF k = g THEN nextSeq[k] + 1 ELSE nextSeq[k]
  BY PointTypesFact, TakeEffect, Zenon DEF Add
<1>2. /\ \A k \in Gen : tail'[k] = IF k = g THEN tail[k] + 1 ELSE tail[k]
      /\ \A k \in Gen, i \in Idx : nodeSeq'[k][i] =
           IF k = g /\ i = tail[g] + 1 THEN nextSeq[g] ELSE nodeSeq[k][i]
  BY AddEffect, Zenon
<1> QED
  BY <1>1, <1>2 DEF PointTypes, QueueGrows

LEMMA GrowsAdvance ==
  ASSUME TypeOK, NEW n \in 0 .. MaxPending, AdvanceQueue(n), NEW h \in Gen, h <= gen
  PROVE  QueueGrows(h)
<1>1. PointTypes(h) /\ PointTypes(gen) /\ gen \in Gen
  BY PointTypesFact, Zenon DEF TypeOK
<1>2. /\ gen' = gen + 1 /\ maxSeq'[h] = IF h = gen THEN nextSeq[gen] + n ELSE maxSeq[h]
      /\ startSeq'[h] = IF h = gen + 1 THEN nextSeq[gen] + n + 1 ELSE startSeq[h]
      /\ nextSeq'[h] = IF h = gen + 1 THEN nextSeq[gen] + n + 1 ELSE nextSeq[h]
  BY Zenon, AdvanceEffect
<1>3. UNCHANGED <<tail, nodeSeq>>
  BY Zenon DEF AdvanceQueue
<1> QED
  BY <1>1, <1>2, <1>3 DEF PointTypes, QueueGrows

LEMMA GrowsClose ==
  ASSUME TypeOK, QueueInv, NEW g \in Gen, Close(g), NEW h \in Gen PROVE QueueGrows(h)
<1>1. /\ nextSeq'[g] = maxSeq[g] + 1 /\ ~closed[g]
      /\ \A k \in Gen : k # g => nextSeq'[k] = nextSeq[k]
      /\ UNCHANGED <<gen, tail, nodeSeq, maxSeq, startSeq>>
  BY Zenon DEF Close, TypeOK
<1>2. PointTypes(h) /\ WindowInv(h)
  BY PointTypesFact, Zenon DEF QueueInv
<1>3. nextSeq[h] <= nextSeq'[h] /\ nextSeq'[h] \in Nat
  BY <1>1, <1>2 DEF WindowInv, PointTypes
<1> QED
  BY <1>1, <1>2, <1>3 DEF QueueGrows, PointTypes

LEMMA GrowsSkip ==
  ASSUME TypeOK, NEW n \in 0 .. MaxPending, SkipSequenceNumbers(n + 1), NEW h \in Gen
  PROVE  QueueGrows(h)
<1>1. /\ nextSeq'[gen] = nextSeq[gen] + (n + 1) /\ gen \in Gen
      /\ \A k \in Gen : k # gen => nextSeq'[k] = nextSeq[k]
      /\ UNCHANGED <<gen, tail, nodeSeq, maxSeq, startSeq>>
  BY Zenon DEF SkipSequenceNumbers, TypeOK
<1>2. PointTypes(h)
  BY PointTypesFact, Zenon
<1>3. nextSeq[h] <= nextSeq'[h] /\ nextSeq'[h] \in Nat
  BY <1>1, <1>2 DEF PointTypes
<1> QED
  BY <1>1, <1>2, <1>3 DEF QueueGrows, PointTypes

-----------------------------------------------------------------------------
(* Steps of other components keep all slices consistent. *)
LEMMA AllSlicesFrame ==
  ASSUME TypeOK, SliceInv, UNCHANGED sliceVars, \A g \in Gen : g <= gen => QueueGrows(g)
  PROVE  SliceInv'
<1> SUFFICES ASSUME NEW s \in Slices PROVE OneSlice(s)'
  BY Zenon DEF SliceInv
<1>1. OneSlice(s)
  BY Zenon DEF SliceInv
<1> QED
  BY <1>1, SliceFrame, Zenon DEF sliceVars

(* The documents and slices of the DWPTs stay consistent with their queues. *)
LEMMA SliceStep == TypeOK /\ QueueInv /\ SliceInv /\ [Next]_vars => SliceInv'
<1> SUFFICES ASSUME TypeOK, QueueInv, SliceInv, [Next]_vars PROVE SliceInv'
  BY Zenon
<1> USE ConstantsAssumption
<1>1. ASSUME NEW t \in Threads, AddDelete(t) PROVE SliceInv'
  <2>1. gen \in Gen /\ Add(gen) /\ UNCHANGED <<gen, maxSeq, startSeq>>
    BY <1>1, Zenon DEF AddDelete, TypeOK
  <2>2. \A h \in Gen : h <= gen => QueueGrows(h)
    BY <2>1, GrowsAdd, Zenon
  <2>3. UNCHANGED sliceVars
    BY <1>1, Zenon DEF AddDelete, sliceVars
  <2> QED
    BY <2>2, <2>3, AllSlicesFrame, Zenon
<1>2. ASSUME NEW s \in Slices, NEW n \in 1 .. MaxBlock, UpdateDocuments(s, n) PROVE SliceInv'
  <2>g. PICK g \in Gen : g = sGen[s]
    BY <1>2, Zenon DEF UpdateDocuments, Usable, TypeOK
  <2>1. /\ g \in Gen /\ g # NoGen /\ SliceInvFor(s, g) /\ WindowInv(g) /\ NodesInv(g) /\ g <= gen
    BY <1>2, <2>g, GenFact, Zenon DEF UpdateDocuments, Usable, TypeOK, SliceInv, OneSlice,
       SliceInvFor, QueueInv
  <2>2. /\ Add(g) /\ TakeSeqNo(g) /\ AddDocs(s, n, nextSeq[g]) /\ ApplySlice(s, tail[g] + 1, nDocs[s])
        /\ ~closed[g] /\ UNCHANGED <<gen, maxSeq, startSeq, sGen, done>>
    BY <1>2, <2>g, Zenon DEF UpdateDocuments, Add
  <2>3. PointTypes(g) /\ nDocs[s] \in 0 .. MaxIdx /\ nextSeq[g] \in 0 .. MaxLong
    BY <2>1, PointTypesFact DEF TypeOK
  <2>4. /\ tail'[g] = tail[g] + 1 /\ tail'[g] \in 0 .. MaxIdx /\ nodeSeq'[g][tail[g] + 1] = nextSeq[g]
        /\ nextSeq'[g] = nextSeq[g] + 1 /\ nextSeq[g] <= maxSeq'[g]
    <3>1. tail' \in [Gen -> 0 .. MaxIdx] /\ tail[g] + 1 \in Idx /\ nextSeq'[g] = nextSeq[g] + 1
          /\ tail'[g] = tail[g] + 1 /\ nodeSeq'[g][tail[g] + 1] = nextSeq[g]
      BY <2>1, <2>2, AddEffect, TakeEffect, Zenon
    <3> QED
      BY <2>1, <2>2, <3>1, Zenon DEF WindowInv
  <2>5. \A h \in Gen : QueueGrows(h)
    BY <2>1, <2>2, GrowsAdd, Zenon
  <2>6. \A i \in Idx : tail[g] < i /\ i <= tail'[g] => nodeSeq'[g][i] = nextSeq[g]
    <3>1. \A i \in Idx : tail[g] < i /\ i <= tail'[g] => i = tail[g] + 1
      BY <2>3, <2>4 DEF PointTypes
    <3> QED
      BY <2>4, <3>1, Zenon
  <2>7. (SliceInvFor(s, g))'
    BY <2>1, <2>2, <2>4, <2>5, <2>6, FinishKeepsSlice, Zenon
  <2> SUFFICES ASSUME NEW r \in Slices PROVE OneSlice(r)'
    BY Zenon DEF SliceInv
  <2>8. CASE r = s
    BY <2>g, <2>1, <2>2, <2>7, <2>8, Zenon DEF OneSlice
  <2>9. CASE r # s
    <3>1. OneSlice(r) /\ sHead'[r] = sHead[r] /\ limit'[r] = limit[r] /\ nDocs'[r] = nDocs[r] /\ docSeq'[r] = docSeq[r]
      BY <2>2, <2>9, Zenon DEF SliceInv, AddDocs, ApplySlice, TypeOK
    <3> QED
      BY <2>2, <2>5, <3>1, SliceFrame, Zenon
  <2> QED
    BY <2>8, <2>9, Zenon
<1>3. ASSUME NEW s \in Slices, NEW n \in 1 .. MaxBlock, AddDocuments(s, n) PROVE SliceInv'
  <2>g. PICK g \in Gen : g = sGen[s]
    BY <1>3, Zenon DEF AddDocuments, Usable, TypeOK
  <2>1. /\ g \in Gen /\ g # NoGen /\ SliceInvFor(s, g) /\ WindowInv(g) /\ NodesInv(g) /\ g <= gen
    BY <1>3, <2>g, GenFact, Zenon DEF AddDocuments, Usable, TypeOK, SliceInv, OneSlice,
       SliceInvFor, QueueInv
  <2>2. /\ TakeSeqNo(g) /\ AddDocs(s, n, nextSeq[g]) /\ ApplySlice(s, tail[g], nDocs[s])
        /\ ~closed[g] /\ UNCHANGED <<gen, tail, nodeSeq, maxSeq, startSeq, sGen, done>>
    BY <1>3, <2>g, Zenon DEF AddDocuments
  <2>3. PointTypes(g) /\ nDocs[s] \in 0 .. MaxIdx /\ nextSeq[g] \in 0 .. MaxLong
    BY <2>1, PointTypesFact DEF TypeOK
  <2>4. /\ tail'[g] = tail[g] /\ tail'[g] \in 0 .. MaxIdx
        /\ nextSeq'[g] = nextSeq[g] + 1 /\ nextSeq[g] <= maxSeq'[g]
    <3>1. nextSeq'[g] = nextSeq[g] + 1 /\ tail[g] \in 0 .. MaxIdx
      BY <2>1, <2>2, TakeEffect, Zenon DEF TypeOK
    <3> QED
      BY <2>1, <2>2, <3>1, Zenon DEF WindowInv
  <2>5. \A h \in Gen : QueueGrows(h)
    BY <2>1, <2>2, GrowsTake, Zenon
  <2>6. \A i \in Idx : tail[g] < i /\ i <= tail'[g] => nodeSeq'[g][i] = nextSeq[g]
    BY <2>3, <2>4 DEF PointTypes
  <2>7. (SliceInvFor(s, g))'
    BY <2>1, <2>2, <2>4, <2>5, <2>6, FinishKeepsSlice, Zenon
  <2> SUFFICES ASSUME NEW r \in Slices PROVE OneSlice(r)'
    BY Zenon DEF SliceInv
  <2>8. CASE r = s
    BY <2>g, <2>1, <2>2, <2>7, <2>8, Zenon DEF OneSlice
  <2>9. CASE r # s
    <3>1. OneSlice(r) /\ sHead'[r] = sHead[r] /\ limit'[r] = limit[r] /\ nDocs'[r] = nDocs[r] /\ docSeq'[r] = docSeq[r]
      BY <2>2, <2>9, Zenon DEF SliceInv, AddDocs, ApplySlice, TypeOK
    <3> QED
      BY <2>2, <2>5, <3>1, SliceFrame, Zenon
  <2> QED
    BY <2>8, <2>9, Zenon
<1>4. ASSUME NEW s \in Slices, NEW n \in 1 .. MaxBlock, FailDocuments(s, n) PROVE SliceInv'
  <2>g. PICK g \in Gen : g = sGen[s]
    BY <1>4, Zenon DEF FailDocuments, Usable, TypeOK
  <2>1. g \in Gen /\ g # NoGen /\ SliceInvFor(s, g)
    BY <1>4, <2>g, GenFact, Zenon DEF FailDocuments, Usable, TypeOK, SliceInv, OneSlice
  <2>2. AddDocs(s, n, 0) /\ UNCHANGED <<queueVars, sGen, sHead, limit, done>> /\ UNCHANGED queueVars
    BY <1>4, <2>g, Zenon DEF FailDocuments
  <2>3. \A h \in Gen : QueueGrows(h)
    BY <2>2, GrowsFrame, Zenon
  <2>4. SliceTypes(s) /\ PointTypes(g) /\ n \in Nat /\ 0 \in 0 .. MaxLong
    BY <2>1, SliceTypesFact, PointTypesFact
  <2>5. /\ nDocs'[s] = nDocs[s] + n
        /\ \A j \in Idx : docSeq'[s][j] = IF nDocs[s] < j /\ j <= nDocs[s] + n THEN 0 ELSE docSeq[s][j]
    BY <2>2, <2>4, DocsEffect
  <2>6. \A j \in Idx : Indexed(s, j)' => Indexed(s, j) /\ docSeq'[s][j] = docSeq[s][j]
    BY <2>4, <2>5 DEF Indexed, SliceTypes
  <2>7. (SliceInvFor(s, g))'
    BY <2>1, <2>2, <2>4, <2>5, <2>6 DEF SliceInvFor, SliceTypes, PointTypes, queueVars
  <2> SUFFICES ASSUME NEW r \in Slices PROVE OneSlice(r)'
    BY Zenon DEF SliceInv
  <2>8. CASE r = s
    BY <2>g, <2>1, <2>2, <2>7, <2>8, Zenon DEF OneSlice
  <2>9. CASE r # s
    <3>1. OneSlice(r) /\ nDocs'[r] = nDocs[r] /\ docSeq'[r] = docSeq[r]
      BY <2>2, <2>9, Zenon DEF SliceInv, AddDocs, TypeOK
    <3> QED
      BY <2>2, <2>3, <3>1, SliceFrame, Zenon
  <2> QED
    BY <2>8, <2>9, Zenon
<1>5. ASSUME NEW s \in Slices, NewSlice(s) PROVE SliceInv'
  <2>1. /\ gen \in Gen /\ PointTypes(gen) /\ gen # NoGen /\ tail[gen] \in 0 .. MaxIdx
    BY PointTypesFact, GenFact, Zenon DEF TypeOK
  <2>2. sGen'[s] = gen /\ sHead'[s] = tail[gen] /\ UNCHANGED <<queueVars, nDocs, docSeq, limit, done>> /\ UNCHANGED queueVars
    BY <1>5, Zenon DEF NewSlice, TypeOK
  <2>3. \A h \in Gen : QueueGrows(h)
    BY <2>2, GrowsFrame, Zenon
  <2>4. FreshSlice(s) /\ SliceTypes(s)
    BY <1>5, SliceTypesFact, Zenon DEF NewSlice, SliceInv, OneSlice
  <2>5. \A j \in Idx : ~Indexed(s, j)'
    BY <2>2, <2>4 DEF FreshSlice, SliceTypes, Indexed
  <2>6. /\ gen <= gen /\ \A i \in Idx : limit[s][i] = 0 /\ nDocs[s] = 0
        /\ tail[gen] <= tail[gen]
    BY <2>1, <2>4, SMTT(30) DEF FreshSlice, PointTypes
  <2>7. OneSlice(s)'
    BY <2>1, <2>2, <2>5, <2>6 DEF SliceInvFor, OneSlice, queueVars
  <2> SUFFICES ASSUME NEW r \in Slices PROVE OneSlice(r)'
    BY Zenon DEF SliceInv
  <2>8. CASE r = s
    BY <2>7, <2>8, Zenon
  <2>9. CASE r # s
    <3>1. OneSlice(r) /\ sGen'[r] = sGen[r] /\ sHead'[r] = sHead[r]
      BY <1>5, <2>9, Zenon DEF SliceInv, NewSlice, TypeOK
    <3> QED
      BY <2>2, <2>3, <3>1, SliceFrame, Zenon
  <2> QED
    BY <2>8, <2>9, Zenon
<1>6. ASSUME NEW s \in Slices, PrepareFlush(s) PROVE SliceInv'
  <2>g. PICK g \in Gen : g = sGen[s]
    BY <1>6, Zenon DEF PrepareFlush, Usable, TypeOK
  <2>1. g \in Gen /\ g # NoGen /\ SliceInvFor(s, g)
    BY <1>6, <2>g, GenFact, Zenon DEF PrepareFlush, Usable, TypeOK, SliceInv, OneSlice
  <2>2. ApplySlice(s, tail[g], nDocs[s]) /\ UNCHANGED <<queueVars, sGen, nDocs, docSeq>> /\ UNCHANGED queueVars
        /\ done' = done \cup {s}
    BY <1>6, <2>g, Zenon DEF PrepareFlush
  <2>3. \A h \in Gen : QueueGrows(h)
    BY <2>2, GrowsFrame, Zenon
  <2>4. SliceTypes(s) /\ PointTypes(g) /\ tail[g] \in 0 .. MaxIdx /\ nDocs[s] \in 0 .. MaxIdx
    BY <2>1, SliceTypesFact, PointTypesFact, Zenon DEF TypeOK
  <2>5. /\ sHead'[s] = tail[g]
        /\ \A i \in Idx : limit'[s][i] =
             IF sHead[s] < i /\ i <= tail[g] /\ limit[s][i] < nDocs[s] THEN nDocs[s] ELSE limit[s][i]
    BY <2>2, <2>4, ApplyEffect
  <2>6. (\A j \in Idx : Indexed(s, j)' <=> Indexed(s, j)) /\ docSeq'[s] = docSeq[s] /\ nDocs'[s] = nDocs[s]
        /\ tail' = tail /\ nodeSeq' = nodeSeq /\ gen' = gen /\ startSeq' = startSeq /\ nextSeq' = nextSeq /\ maxSeq' = maxSeq
    BY <2>2, Zenon DEF Indexed, queueVars
  <2>7. (SliceInvFor(s, g))'
    <3>1. \A i, j \in Idx : i <= sHead'[s] /\ Indexed(s, j)
            => (j <= limit'[s][i] <=> docSeq[s][j] < nodeSeq[g][i])
      BY <2>1, <2>4, <2>5 DEF SliceInvFor, SliceTypes, PointTypes, Indexed
    <3>2. (\A i \in Idx : limit'[s][i] <= nDocs[s]) /\ \A i \in Idx : i > sHead'[s] => limit'[s][i] = 0
      BY <2>1, <2>4, <2>5 DEF SliceInvFor, SliceTypes, PointTypes
    <3> QED
      BY <2>1, <2>4, <2>5, <2>6, <3>1, <3>2 DEF SliceInvFor, PointTypes, SliceTypes
  <2> SUFFICES ASSUME NEW r \in Slices PROVE OneSlice(r)'
    BY Zenon DEF SliceInv
  <2>8. CASE r = s
    BY <2>g, <2>1, <2>2, <2>7, <2>8, Zenon DEF OneSlice
  <2>9. CASE r # s
    <3>1. OneSlice(r) /\ sHead'[r] = sHead[r] /\ limit'[r] = limit[r]
      BY <2>2, <2>9, Zenon DEF SliceInv, ApplySlice, TypeOK
    <3> QED
      BY <2>2, <2>3, <2>9, <3>1, SliceFrame, Zenon
  <2> QED
    BY <2>8, <2>9, Zenon
<1>7. ASSUME NEW c \in Callers, TryApplyGlobalSlice(c) PROVE SliceInv'
  <2>1. \A h \in Gen : h <= gen => QueueGrows(h)
    BY <1>7, GrowsFrame, Zenon DEF TryApplyGlobalSlice
  <2>2. UNCHANGED sliceVars
    BY <1>7, Zenon DEF TryApplyGlobalSlice, sliceVars
  <2> QED
    BY <2>1, <2>2, AllSlicesFrame, Zenon
<1>8. ASSUME NEW g \in Gen, MaybeFreezeGlobalBuffer(g) PROVE SliceInv'
  <2>1. \A h \in Gen : h <= gen => QueueGrows(h)
    BY <1>8, GrowsFrame, Zenon DEF MaybeFreezeGlobalBuffer
  <2>2. UNCHANGED sliceVars
    BY <1>8, Zenon DEF MaybeFreezeGlobalBuffer, sliceVars
  <2> QED
    BY <2>1, <2>2, AllSlicesFrame, Zenon
<1>9. ASSUME NEW g \in Gen, Close(g) PROVE SliceInv'
  <2>1. \A h \in Gen : h <= gen => QueueGrows(h)
    BY <1>9, GrowsClose, Zenon
  <2>2. UNCHANGED sliceVars
    BY <1>9, Zenon DEF Close, sliceVars
  <2> QED
    BY <2>1, <2>2, AllSlicesFrame, Zenon
<1>10. ASSUME NEW n \in 0 .. MaxPending, AdvanceQueue(n) PROVE SliceInv'
  <2>1. \A h \in Gen : h <= gen => QueueGrows(h)
    BY <1>10, GrowsAdvance, Zenon
  <2>2. UNCHANGED sliceVars
    BY <1>10, Zenon DEF AdvanceQueue, sliceVars
  <2> QED
    BY <2>1, <2>2, AllSlicesFrame, Zenon
<1>11. ASSUME NEW n \in 0 .. MaxPending, SkipSequenceNumbers(n + 1) PROVE SliceInv'
  <2>1. \A h \in Gen : h <= gen => QueueGrows(h)
    BY <1>11, GrowsSkip, Zenon
  <2>2. UNCHANGED sliceVars
    BY <1>11, Zenon DEF SkipSequenceNumbers, sliceVars
  <2> QED
    BY <2>1, <2>2, AllSlicesFrame, Zenon
<1>12. CASE Clear
  BY <1>12, GrowsFrame, AllSlicesFrame, Zenon DEF Clear
<1>13. CASE UNCHANGED vars
  BY <1>13, GrowsFrame, AllSlicesFrame, Zenon DEF vars
<1> QED
  BY <1>1, <1>2, <1>3, <1>4, <1>5, <1>6, <1>7, <1>8, <1>9, <1>10, <1>11, <1>12, <1>13, Zenon DEF
     Next

-----------------------------------------------------------------------------
(* GlobalInv, the global slice and the frozen packets, and the conclusions *)

(* Steps that leave the global slice alone: a queue may get new nodes      *)
(* unless it is closed, a flushed DWPT keeps its cut.                      *)
QueueOpen(g) == tail[g] <= tail'[g] /\ closed'[g] = closed[g] /\ (closed[g] => tail'[g] = tail[g])
CutKept(s) == s \in done' => s \in done /\ sHead'[s] = sHead[s] /\ sGen'[s] = sGen[s]

LEMMA GlobalFrame ==
  ASSUME TypeOK, GlobalInv, UNCHANGED globalVars,
         \A g \in Gen : QueueOpen(g), \A s \in Slices : CutKept(s), TypeOK'
  PROVE  GlobalInv'
<1>1. ASSUME NEW g \in Gen PROVE PacketsInv(g)'
  <2>1. PacketsInv(g) /\ QueueOpen(g) /\ gHead[g] \in 0 .. MaxIdx /\ tail[g] \in 0 .. MaxIdx /\ tail'[g] \in 0 .. MaxIdx
    BY Zenon DEF GlobalInv, TypeOK
  <2> QED
    BY <2>1, ConstantsAssumption DEF PacketsInv, QueueOpen, globalVars
<1>2. ASSUME NEW s \in Slices PROVE CutInv(s)'
  BY Zenon DEF CutInv, CutKept, GlobalInv, globalVars
<1> QED
  BY <1>1, <1>2, Zenon DEF GlobalInv

LEMMA OpenFrame ==
  ASSUME TypeOK, UNCHANGED <<tail, closed>>, NEW g \in Gen PROVE QueueOpen(g)
<1>1. PointTypes(g)
  BY PointTypesFact, Zenon
<1> QED
  BY <1>1 DEF QueueOpen, PointTypes

LEMMA OpenAdd ==
  ASSUME TypeOK, NEW g \in Gen, Add(g), UNCHANGED closed, NEW h \in Gen PROVE QueueOpen(h)
<1>1. PointTypes(h) /\ tail'[h] = (IF h = g THEN tail[h] + 1 ELSE tail[h]) /\ ~closed[g]
  BY Zenon, PointTypesFact, AddEffect DEF Add
<1> QED
  BY <1>1 DEF QueueOpen, PointTypes

(* The global slice of queue g is brought up to the tail: the new nodes    *)
(* and the ones buffered so far are buffered, frozen or dropped.           *)
MoveGlobal(g) ==
  /\ gHead'[g] = tail[g]
  /\ \A i \in Idx : i \in gBuf'[g] \/ i \in frozen'[g] \/ i \in dropped'[g]
       <=> i \in gBuf[g] \/ i \in frozen[g] \/ i \in dropped[g] \/ i \in GlobalSlice(g)
  /\ \A i \in Idx : i \in gBuf'[g] => i \in gBuf[g] \/ i \in GlobalSlice(g)
  /\ \A i \in Idx : /\ ~(i \in gBuf'[g] /\ i \in frozen'[g] /\ i \notin frozen[g])
                    /\ ~(i \in gBuf'[g] /\ i \in dropped'[g] /\ i \notin dropped[g])
                    /\ i \in frozen[g] => i \in frozen'[g]
                    /\ i \in frozen'[g] /\ i \notin frozen[g] => i \in gBuf[g] \/ i \in GlobalSlice(g)
                    /\ i \in dropped'[g] /\ i \notin dropped[g] => i \in gBuf[g] \/ i \in GlobalSlice(g)
                    /\ ~(i \in frozen'[g] /\ i \in dropped'[g] /\ i \notin frozen[g] /\ i \notin dropped[g])
  /\ \A h \in Gen : h # g => gHead'[h] = gHead[h] /\ gBuf'[h] = gBuf[h]
                             /\ frozen'[h] = frozen[h] /\ dropped'[h] = dropped[h]
  /\ closed[g] => gBuf'[g] = {}
  /\ gBuf'[g] \subseteq Idx

LEMMA MoveKeepsPackets ==
  ASSUME TypeOK, GlobalInv, NEW g \in Gen, MoveGlobal(g), UNCHANGED <<tail, closed>>
  PROVE  \A h \in Gen : PacketsInv(h)'
<1> SUFFICES ASSUME NEW h \in Gen PROVE PacketsInv(h)'
  BY Zenon
<1>1. PacketsInv(h) /\ gHead[h] \in 0 .. MaxIdx /\ PointTypes(h)
  BY PointTypesFact, Zenon DEF GlobalInv, TypeOK
<1>2. CASE h # g
  BY <1>1, <1>2, Zenon DEF MoveGlobal, PacketsInv
<1>3. CASE h = g
  <2>1. \A i \in Idx : i \in GlobalSlice(h) <=> gHead[h] < i /\ i <= tail[h]
    BY GlobalSliceFact, Zenon
  <2>2. \A i \in Idx : i \in GlobalSlice(h) => i \notin gBuf[h] /\ i \notin frozen[h] /\ i \notin dropped[h]
    BY <1>1, <2>1, ConstantsAssumption DEF PacketsInv, PointTypes
  <2>3. gHead'[h] <= tail'[h] /\ (closed'[h] => gBuf'[h] = {} /\ gHead'[h] = tail'[h])
    BY <1>1, <1>3 DEF MoveGlobal, PointTypes
  <2>4. \A i \in Idx : i \in gBuf'[h] \/ i \in frozen'[h] \/ i \in dropped'[h] <=> i <= gHead'[h]
    BY <1>1, <1>3, <2>1, ConstantsAssumption DEF MoveGlobal, PacketsInv, PointTypes
  <2>5. \A i \in Idx : /\ ~(i \in gBuf'[h] /\ i \in frozen'[h])
                       /\ ~(i \in dropped'[h] /\ i \in gBuf'[h])
                       /\ ~(i \in dropped'[h] /\ i \in frozen'[h])
    BY <1>1, <1>3, <2>2, Zenon DEF MoveGlobal, PacketsInv
  <2> QED
    BY <2>3, <2>4, <2>5, Zenon DEF PacketsInv
<1> QED
  BY <1>2, <1>3, Zenon

LEMMA MoveKeepsCut ==
  ASSUME TypeOK, GlobalInv, NEW g \in Gen, MoveGlobal(g), NEW s \in Slices, CutInv(s),
         s \in done' => s \in done, sHead'[s] = sHead[s], sGen'[s] = sGen[s]
  PROVE  CutInv(s)'
<1> SUFFICES ASSUME s \in done PROVE CutInv(s)'
  BY Zenon DEF CutInv
<1>1. /\ sGen[s] \in Gen /\ sGen[s] # NoGen /\ sHead[s] \in 0 .. MaxIdx
      /\ sHead[s] <= gHead[sGen[s]] /\ \A i \in gBuf[sGen[s]] : sHead[s] < i
  BY Zenon DEF CutInv, TypeOK
<1>2. CASE sGen[s] # g
  BY <1>1, <1>2, Zenon DEF CutInv, MoveGlobal
<1>3. CASE sGen[s] = g
  <2>1. PacketsInv(g) /\ gHead[g] \in 0 .. MaxIdx /\ tail[g] \in 0 .. MaxIdx
    BY Zenon DEF GlobalInv, TypeOK
  <2>2. \A i \in Idx : i \in Nat /\ (i \in GlobalSlice(g) => gHead[g] < i)
    BY GlobalSliceFact, IdxFact, Zenon
  <2>3. sHead[s] <= gHead'[g]
    BY <1>1, <1>3, <2>1, ConstantsAssumption DEF MoveGlobal, PacketsInv
  <2>4. \A i \in gBuf'[g] : sHead[s] < i
    BY <1>1, <1>3, <2>1, <2>2, ConstantsAssumption DEF MoveGlobal
  <2> QED
    BY <1>1, <1>3, <2>3, <2>4, Zenon DEF CutInv
<1> QED
  BY <1>2, <1>3, Zenon

LEMMA MoveKeepsGlobal ==
  ASSUME TypeOK, GlobalInv, NEW g \in Gen, MoveGlobal(g), UNCHANGED <<tail, closed, sliceVars>>
  PROVE  GlobalInv'
<1>1. \A h \in Gen : PacketsInv(h)'
  BY MoveKeepsPackets, Zenon
<1>2. ASSUME NEW s \in Slices PROVE CutInv(s)'
  <2>1. CutInv(s)
    BY Zenon DEF GlobalInv
  <2> QED
    BY <2>1, MoveKeepsCut, Zenon DEF sliceVars
<1> QED
  BY <1>1, <1>2, Zenon DEF GlobalInv

LEMMA FreezeMoves ==
  ASSUME TypeOK, NEW g \in Gen, FreezeInternal(g) PROVE MoveGlobal(g)
<1>1. /\ dropped' = dropped /\ gHead'[g] = tail[g] /\ gBuf'[g] = {}
      /\ frozen'[g] = frozen[g] \cup gBuf[g] \cup GlobalSlice(g)
      /\ \A h \in Gen : h # g => gHead'[h] = gHead[h] /\ gBuf'[h] = gBuf[h] /\ frozen'[h] = frozen[h]
  BY Zenon, FreezeEffect
<1>2. gBuf[g] \subseteq Idx /\ GlobalSlice(g) \subseteq Idx
  BY GlobalSliceFact, Zenon DEF TypeOK
<1> QED
  BY <1>1, <1>2, Zenon DEF MoveGlobal

(* Deletes move from the queue to packets without loss or repetition. *)
LEMMA GlobalStep == TypeOK /\ TypeOK' /\ SliceInv /\ GlobalInv /\ [Next]_vars => GlobalInv'
<1> SUFFICES ASSUME TypeOK, TypeOK', SliceInv, GlobalInv, [Next]_vars PROVE GlobalInv'
  BY Zenon
<1> USE ConstantsAssumption
<1>1. ASSUME NEW t \in Threads, AddDelete(t) PROVE GlobalInv'
  <2>1. UNCHANGED globalVars
    BY <1>1, Zenon DEF AddDelete
  <2>2. \A h \in Gen : QueueOpen(h)
    <3>1. gen \in Gen /\ Add(gen) /\ UNCHANGED closed
      BY <1>1, GenFact, Zenon DEF AddDelete, TypeOK, Usable
    <3> QED
      BY <3>1, OpenAdd, Zenon
  <2>3. \A r \in Slices : CutKept(r)
    BY <1>1, Zenon DEF AddDelete, CutKept, sliceVars
  <2> QED
    BY <2>1, <2>2, <2>3, GlobalFrame, Zenon
<1>2. ASSUME NEW s \in Slices, NEW n \in 1 .. MaxBlock, UpdateDocuments(s, n) PROVE GlobalInv'
  <2>1. UNCHANGED globalVars
    BY <1>2, Zenon DEF UpdateDocuments
  <2>2. \A h \in Gen : QueueOpen(h)
    <3>1. sGen[s] \in Gen /\ Add(sGen[s]) /\ UNCHANGED closed
      BY <1>2, GenFact, Zenon DEF UpdateDocuments, TypeOK, Usable
    <3> QED
      BY <3>1, OpenAdd, Zenon
  <2>3. \A r \in Slices : CutKept(r)
    BY <1>2, Zenon DEF UpdateDocuments, CutKept, ApplySlice, TypeOK, Usable
  <2> QED
    BY <2>1, <2>2, <2>3, GlobalFrame, Zenon
<1>3. ASSUME NEW s \in Slices, NEW n \in 1 .. MaxBlock, AddDocuments(s, n) PROVE GlobalInv'
  <2>1. UNCHANGED globalVars
    BY <1>3, Zenon DEF AddDocuments
  <2>2. \A h \in Gen : QueueOpen(h)
    BY <1>3, OpenFrame, Zenon DEF AddDocuments
  <2>3. \A r \in Slices : CutKept(r)
    BY <1>3, Zenon DEF AddDocuments, CutKept, ApplySlice, TypeOK, Usable
  <2> QED
    BY <2>1, <2>2, <2>3, GlobalFrame, Zenon
<1>4. ASSUME NEW s \in Slices, NEW n \in 1 .. MaxBlock, FailDocuments(s, n) PROVE GlobalInv'
  <2>1. UNCHANGED globalVars
    BY <1>4, Zenon DEF FailDocuments
  <2>2. \A h \in Gen : QueueOpen(h)
    BY <1>4, OpenFrame, Zenon DEF FailDocuments, queueVars
  <2>3. \A r \in Slices : CutKept(r)
    BY <1>4, Zenon DEF FailDocuments, CutKept, sliceVars
  <2> QED
    BY <2>1, <2>2, <2>3, GlobalFrame, Zenon
<1>5. ASSUME NEW s \in Slices, NewSlice(s) PROVE GlobalInv'
  <2>1. UNCHANGED globalVars
    BY <1>5, Zenon DEF NewSlice
  <2>2. \A h \in Gen : QueueOpen(h)
    BY <1>5, OpenFrame, Zenon DEF NewSlice, queueVars
  <2>3. \A r \in Slices : CutKept(r)
    BY <1>5, Zenon DEF NewSlice, CutKept, TypeOK, SliceInv, OneSlice, FreshSlice
  <2> QED
    BY <2>1, <2>2, <2>3, GlobalFrame, Zenon
<1>6. ASSUME NEW s \in Slices, PrepareFlush(s) PROVE GlobalInv'
  <2>g. PICK g \in Gen : g = sGen[s]
    BY <1>6 DEF PrepareFlush, Usable, TypeOK
  <2>1. FreezeInternal(g) /\ ApplySlice(s, tail[g], nDocs[s]) /\ done' = done \cup {s} /\ s \notin done
        /\ UNCHANGED <<tail, closed, sGen>> /\ g # NoGen
    BY <1>6, <2>g, GenFact, Zenon DEF PrepareFlush, queueVars, Usable
  <2>2. MoveGlobal(g)
    BY <2>1, FreezeMoves, Zenon
  <2>3. sHead'[s] = tail[g] /\ \A r \in Slices : r # s => sHead'[r] = sHead[r]
    BY <2>1, Zenon DEF ApplySlice, TypeOK
  <2>4. \A h \in Gen : PacketsInv(h)'
    BY <2>1, <2>2, MoveKeepsPackets, Zenon
  <2>5. gHead'[g] = tail[g] /\ gBuf'[g] = {} /\ PointTypes(g)
    BY <2>1, FreezeEffect, PointTypesFact, Zenon
  <2> SUFFICES ASSUME NEW r \in Slices PROVE CutInv(r)'
    BY <2>4, Zenon DEF GlobalInv
  <2>6. CASE r = s
    BY <2>1, <2>3, <2>5, <2>6, <2>g DEF CutInv, PointTypes
  <2>7. CASE r # s
    <3>1. CutInv(r)
      BY Zenon DEF GlobalInv
    <3> QED
      BY <2>1, <2>2, <2>3, <2>7, <3>1, MoveKeepsCut, Zenon
  <2> QED
    BY <2>6, <2>7, Zenon
<1>7. ASSUME NEW c \in Callers, TryApplyGlobalSlice(c) PROVE GlobalInv'
  <2>1. CASE UNCHANGED globalVars
    <3>1. \A h \in Gen : QueueOpen(h)
      BY <1>7, OpenFrame, Zenon DEF TryApplyGlobalSlice, queueVars
    <3>2. \A r \in Slices : CutKept(r)
      BY <1>7, Zenon DEF TryApplyGlobalSlice, CutKept, sliceVars
    <3> QED
      BY <2>1, <3>1, <3>2, GlobalFrame, Zenon
  <2>2. CASE ~UNCHANGED globalVars
    <3>g. PICK g \in Gen : g = pend[c]
      BY <1>7 DEF TryApplyGlobalSlice, TypeOK
    <3>1. /\ ~closed[g] /\ gBuf' = [gBuf EXCEPT ![g] = @ \cup GlobalSlice(g)]
          /\ gHead' = [gHead EXCEPT ![g] = tail[g]] /\ UNCHANGED <<frozen, dropped>>
          /\ UNCHANGED <<tail, closed, sliceVars>>
      BY <1>7, <2>2, <3>g, Zenon DEF TryApplyGlobalSlice, queueVars
    <3>2. MoveGlobal(g)
      BY <3>1, GlobalSliceFact DEF MoveGlobal, TypeOK
    <3> QED
      BY <3>1, <3>2, MoveKeepsGlobal, Zenon
  <2> QED
    BY <2>1, <2>2, Zenon
<1>8. ASSUME NEW g \in Gen, MaybeFreezeGlobalBuffer(g) PROVE GlobalInv'
  <2>2. MoveGlobal(g)
    BY <1>8, FreezeMoves, Zenon DEF MaybeFreezeGlobalBuffer
  <2>3. g \in Gen /\ UNCHANGED <<tail, closed, sliceVars>>
    BY <1>8, GenFact, Zenon DEF MaybeFreezeGlobalBuffer, TypeOK, queueVars
  <2> QED
    BY <2>2, <2>3, MoveKeepsGlobal, Zenon
<1>9. ASSUME NEW g \in Gen, Close(g) PROVE GlobalInv'
  <2>1. UNCHANGED <<globalVars, tail, sliceVars>> /\ gBuf[g] = {} /\ gHead[g] = tail[g]
        /\ \A h \in Gen : h # g => closed'[h] = closed[h]
    BY <1>9 DEF Close, AnyChanges, TypeOK
  <2>2. ASSUME NEW h \in Gen PROVE PacketsInv(h)'
    <3>1. PacketsInv(h)
      BY Zenon DEF GlobalInv
    <3> QED
      BY <2>1, <3>1, Zenon DEF PacketsInv, globalVars
  <2>3. ASSUME NEW r \in Slices PROVE CutInv(r)'
    BY <2>1, Zenon DEF CutInv, GlobalInv, globalVars, sliceVars
  <2> QED
    BY <2>2, <2>3, Zenon DEF GlobalInv
<1>10. ASSUME NEW n \in 0 .. MaxPending, AdvanceQueue(n) PROVE GlobalInv'
  <2>1. UNCHANGED globalVars
    BY <1>10, Zenon DEF AdvanceQueue
  <2>2. \A h \in Gen : QueueOpen(h)
    BY <1>10, OpenFrame, Zenon DEF AdvanceQueue
  <2>3. \A r \in Slices : CutKept(r)
    BY <1>10, Zenon DEF AdvanceQueue, CutKept, sliceVars
  <2> QED
    BY <2>1, <2>2, <2>3, GlobalFrame, Zenon
<1>11. ASSUME NEW n \in 0 .. MaxPending, SkipSequenceNumbers(n + 1) PROVE GlobalInv'
  <2>1. UNCHANGED globalVars
    BY <1>11, Zenon DEF SkipSequenceNumbers
  <2>2. \A h \in Gen : QueueOpen(h)
    BY <1>11, OpenFrame, Zenon DEF SkipSequenceNumbers
  <2>3. \A r \in Slices : CutKept(r)
    BY <1>11, Zenon DEF SkipSequenceNumbers, CutKept, sliceVars
  <2> QED
    BY <2>1, <2>2, <2>3, GlobalFrame, Zenon
<1>12. CASE Clear
  <2>1. gen \in Gen
    BY Zenon DEF TypeOK
  <2>2. /\ dropped' = [dropped EXCEPT ![gen] = @ \cup gBuf[gen] \cup GlobalSlice(gen)]
        /\ gBuf' = [gBuf EXCEPT ![gen] = {}] /\ gHead' = [gHead EXCEPT ![gen] = tail[gen]]
        /\ frozen' = frozen /\ UNCHANGED <<tail, closed, sliceVars>>
    BY <1>12, Zenon DEF Clear, queueVars
  <2>3. MoveGlobal(gen)
    BY <2>1, <2>2, GlobalSliceFact DEF MoveGlobal, TypeOK
  <2> QED
    BY <2>1, <2>2, <2>3, MoveKeepsGlobal, Zenon
<1>13. CASE UNCHANGED vars
  BY <1>13, Zenon DEF vars, queueVars, globalVars, sliceVars, GlobalInv, PacketsInv, CutInv
<1> QED
  BY <1>1, <1>2, <1>3, <1>4, <1>5, <1>6, <1>7, <1>8, <1>9, <1>10, <1>11, <1>12, <1>13, Zenon DEF
     Next

-----------------------------------------------------------------------------
(* No step rewrites a queue that is in use: queues only grow. *)
LEMMA GrowsStep == TypeOK /\ QueueInv /\ [Next]_vars => (\A h \in Gen : h <= gen => QueueGrows(h))
<1> SUFFICES ASSUME TypeOK, QueueInv, [Next]_vars PROVE (\A h \in Gen : h <= gen => QueueGrows(h))
  BY Zenon
<1> USE ConstantsAssumption
<1>1. ASSUME NEW t \in Threads, AddDelete(t) PROVE (\A h \in Gen : h <= gen => QueueGrows(h))
  BY <1>1, GrowsAdd, Zenon DEF AddDelete, TypeOK
<1>2. ASSUME NEW s \in Slices, NEW n \in 1 .. MaxBlock, UpdateDocuments(s, n) PROVE (\A h \in Gen : h <= gen => QueueGrows(h))
  BY <1>2, GrowsAdd, Zenon DEF UpdateDocuments, Usable, TypeOK
<1>3. ASSUME NEW s \in Slices, NEW n \in 1 .. MaxBlock, AddDocuments(s, n) PROVE (\A h \in Gen : h <= gen => QueueGrows(h))
  BY <1>3, GrowsTake, Zenon DEF AddDocuments, Usable, TypeOK
<1>4. ASSUME NEW s \in Slices, NEW n \in 1 .. MaxBlock, FailDocuments(s, n) PROVE (\A h \in Gen : h <= gen => QueueGrows(h))
  BY <1>4, GrowsFrame, Zenon DEF FailDocuments
<1>5. ASSUME NEW s \in Slices, NewSlice(s) PROVE (\A h \in Gen : h <= gen => QueueGrows(h))
  BY <1>5, GrowsFrame, Zenon DEF NewSlice
<1>6. ASSUME NEW s \in Slices, PrepareFlush(s) PROVE (\A h \in Gen : h <= gen => QueueGrows(h))
  BY <1>6, GrowsFrame, Zenon DEF PrepareFlush
<1>7. ASSUME NEW c \in Callers, TryApplyGlobalSlice(c) PROVE (\A h \in Gen : h <= gen => QueueGrows(h))
  BY <1>7, GrowsFrame, Zenon DEF TryApplyGlobalSlice
<1>8. ASSUME NEW g \in Gen, MaybeFreezeGlobalBuffer(g) PROVE (\A h \in Gen : h <= gen => QueueGrows(h))
  BY <1>8, GrowsFrame, Zenon DEF MaybeFreezeGlobalBuffer
<1>9. ASSUME NEW g \in Gen, Close(g) PROVE (\A h \in Gen : h <= gen => QueueGrows(h))
  BY <1>9, GrowsClose, Zenon
<1>10. ASSUME NEW n \in 0 .. MaxPending, AdvanceQueue(n) PROVE (\A h \in Gen : h <= gen => QueueGrows(h))
  BY <1>10, GrowsAdvance, Zenon
<1>11. ASSUME NEW n \in 0 .. MaxPending, SkipSequenceNumbers(n + 1) PROVE (\A h \in Gen : h <= gen => QueueGrows(h))
  BY <1>11, GrowsSkip, Zenon
<1>12. CASE Clear
  BY <1>12, GrowsFrame, Zenon DEF Clear
<1>13. CASE UNCHANGED vars
  BY <1>13, GrowsFrame, Zenon DEF vars
<1> QED
  BY <1>1, <1>2, <1>3, <1>4, <1>5, <1>6, <1>7, <1>8, <1>9, <1>10, <1>11, <1>12, <1>13, Zenon DEF
     Next

-----------------------------------------------------------------------------
(* The invariants of the model follow from the inductive invariant. *)
LEMMA IndImplies ==
  ASSUME IndInv
  PROVE  UpdateConsistency /\ LaterPacketsAreNewer /\ DeletesFrozenOnce /\ ClosedQueueDrained
<1> USE DEF IndInv
<1>1. UpdateConsistency
  BY Zenon DEF UpdateConsistency, SliceInv, OneSlice, SliceInvFor
<1>2. LaterPacketsAreNewer
  <2> SUFFICES ASSUME NEW s \in done, NEW i \in Idx, NEW j \in Idx, Indexed(s, j),
                      i \in gBuf[sGen[s]] \cup GlobalSlice(sGen[s])
               PROVE  docSeq[s][j] < nodeSeq[sGen[s]][i]
    BY Zenon DEF LaterPacketsAreNewer
  <2>1. s \in Slices /\ CutInv(s) /\ sGen[s] # NoGen /\ sGen[s] \in Gen /\ SliceInvFor(s, sGen[s]) /\ PacketsInv(sGen[s])
    BY Zenon DEF TypeOK, GlobalInv, CutInv, SliceInv, OneSlice
  <2>2. /\ sHead[s] \in 0 .. MaxIdx /\ gHead[sGen[s]] \in 0 .. MaxIdx /\ tail[sGen[s]] \in 0 .. MaxIdx /\ i \in Nat
        /\ i \in GlobalSlice(sGen[s]) => gHead[sGen[s]] < i /\ i <= tail[sGen[s]]
    BY <2>1, IdxFact, GlobalSliceFact, Zenon DEF TypeOK
  <2>a. /\ sHead[s] <= gHead[sGen[s]] /\ gHead[sGen[s]] <= tail[sGen[s]]
        /\ i \in gBuf[sGen[s]] => sHead[s] < i /\ i <= gHead[sGen[s]]
    BY Zenon, <2>1 DEF CutInv, PacketsInv
  <2>b. sHead[s] \in Nat /\ gHead[sGen[s]] \in Nat /\ tail[sGen[s]] \in Nat
    BY <2>2
  <2>3. sHead[s] < i /\ i <= tail[sGen[s]]
    BY <2>2, <2>a, <2>b
  <2> QED
    BY <2>1, <2>3, Zenon DEF SliceInvFor
<1>3. ASSUME NEW g \in Gen
      PROVE  /\ gBuf[g] \cap frozen[g] = {} /\ dropped[g] \cap (gBuf[g] \cup frozen[g]) = {}
             /\ gBuf[g] \cup frozen[g] \cup dropped[g] = 1 .. gHead[g]
  <2>1. PacketsInv(g) /\ gHead[g] \in 0 .. MaxIdx
        /\ gBuf[g] \subseteq Idx /\ frozen[g] \subseteq Idx /\ dropped[g] \subseteq Idx
    BY Zenon DEF GlobalInv, TypeOK
  <2>2. \A i : i \in 1 .. gHead[g] <=> i \in Idx /\ i <= gHead[g]
    BY <2>1, IdxFact, ConstantsAssumption
  <2> QED
    BY <2>1, <2>2, Zenon DEF PacketsInv
<1>4. DeletesFrozenOnce
  BY <1>3, Zenon DEF DeletesFrozenOnce
<1>5. ClosedQueueDrained
  <2> SUFFICES ASSUME NEW g \in Gen, closed[g]
               PROVE  ~AnyChanges(g) /\ frozen[g] \cup dropped[g] = 1 .. tail[g]
    BY Zenon DEF ClosedQueueDrained
  <2>1. gBuf[g] = {} /\ gHead[g] = tail[g]
    BY Zenon DEF GlobalInv, PacketsInv
  <2>2. gBuf[g] \cup frozen[g] \cup dropped[g] = 1 .. gHead[g]
    BY <1>3, Zenon
  <2>3. gBuf[g] \cup frozen[g] \cup dropped[g] = frozen[g] \cup dropped[g]
    BY <2>1, Zenon
  <2> QED
    BY <2>1, <2>2, <2>3, Zenon DEF AnyChanges
<1> QED
  BY <1>1, <1>2, <1>4, <1>5, Zenon

LEMMA IndImpliesWindows == ASSUME IndInv PROVE SeqNoWindows
<1> SUFFICES ASSUME NEW g \in 0 .. gen
             PROVE /\ \A i \in Idx : i <= tail[g] => startSeq[g] <= nodeSeq[g][i] /\ nodeSeq[g][i] <= maxSeq[g]
                   /\ \A s \in Slices, j \in Idx :
                        sGen[s] = g /\ Indexed(s, j) => startSeq[g] <= docSeq[s][j] /\ docSeq[s][j] <= maxSeq[g]
                   /\ ~closed[g] => nextSeq[g] <= maxSeq[g]
                   /\ g < gen => maxSeq[g] < startSeq[g + 1]
  BY Zenon DEF SeqNoWindows
<1>0. gen \in Gen
  BY Zenon DEF IndInv, TypeOK
<1>1. g \in Gen
  <2>1. gen \in Nat /\ gen <= MaxGen
    BY <1>0, GenFact, Zenon
  <2>2. g \in Nat /\ g <= MaxGen
    BY <2>1, ConstantsAssumption
  <2> QED
    BY <2>2, GenFact, Zenon
<1>2. WindowInv(g) /\ NodesInv(g) /\ g # NoGen
  BY <1>1, GenFact, Zenon DEF IndInv, QueueInv
<1>3. \A s \in Slices : sGen[s] = g => SliceInvFor(s, g)
  BY <1>2, Zenon DEF IndInv, SliceInv, OneSlice
<1> QED
  BY <1>2, <1>3, Zenon DEF WindowInv, NodesInv, SliceInvFor

LEMMA IndStep == IndInv /\ [Next]_vars => IndInv'
<1> SUFFICES ASSUME IndInv, [Next]_vars PROVE IndInv'
  BY Zenon
<1>1. TypeOK'
  BY TypeStep, Zenon DEF IndInv
<1> QED
  BY <1>1, QueueStep, SliceStep, GlobalStep, Zenon DEF IndInv

(* get_max_completed_seq_no never decreases across one step. *)
LEMMA MaxCompletedStep ==
  IndInv /\ IndInv' /\ [Next]_vars => MaxCompletedSeqNo(gen) <= MaxCompletedSeqNo(gen)'
<1> SUFFICES ASSUME IndInv, IndInv', [Next]_vars
             PROVE  MaxCompletedSeqNo(gen) <= MaxCompletedSeqNo(gen)'
  BY Zenon
<1>1. gen \in Gen /\ gen \in Nat /\ TypeOK /\ QueueInv
  BY GenFact, Zenon DEF IndInv, TypeOK
<1>2. PointTypes(gen) /\ WindowInv(gen) /\ QueueGrows(gen) /\ startSeq[gen] >= 1
  <2>1. PointTypes(gen) /\ WindowInv(gen) /\ startSeq[gen] \in 1 .. MaxLong
    BY <1>1, PointTypesFact, Zenon DEF QueueInv, TypeOK
  <2>2. gen <= gen
    BY <1>1
  <2> QED
    BY <1>1, <2>1, <2>2, GrowsStep, ConstantsAssumption
<1>3. gen # 0 => /\ gen - 1 \in Gen /\ PointTypes(gen - 1) /\ WindowInv(gen - 1) /\ QueueGrows(gen - 1)
                 /\ maxSeq[gen - 1] < startSeq[gen] /\ nextSeq[gen - 1] <= maxSeq[gen - 1] + 1
  <2> SUFFICES ASSUME gen # 0 PROVE /\ gen - 1 \in Gen /\ PointTypes(gen - 1) /\ WindowInv(gen - 1) /\ QueueGrows(gen - 1)
                                    /\ maxSeq[gen - 1] < startSeq[gen] /\ nextSeq[gen - 1] <= maxSeq[gen - 1] + 1
    BY Zenon
  <2>1. gen - 1 \in Gen /\ gen - 1 < gen /\ gen - 1 <= gen /\ (gen - 1) + 1 = gen
    BY <1>1, GenFact, ConstantsAssumption
  <2>2. PointTypes(gen - 1) /\ WindowInv(gen - 1) /\ QueueGrows(gen - 1)
    BY <1>1, <2>1, PointTypesFact, GrowsStep, Zenon DEF QueueInv
  <2> QED
    BY <2>1, <2>2, Zenon DEF WindowInv
<1>4. MaxCompletedSeqNo(gen) <= nextSeq[gen] - 1
  BY <1>1, <1>2, <1>3 DEF MaxCompletedSeqNo, PointTypes, WindowInv
<1>5. CASE gen' = gen
  BY <1>1, <1>2, <1>3, <1>5 DEF MaxCompletedSeqNo, PointTypes, WindowInv, QueueGrows
<1>6. ASSUME NEW n \in 0 .. MaxPending, AdvanceQueue(n) PROVE MaxCompletedSeqNo(gen) <= MaxCompletedSeqNo(gen)'
  <2>1. gen + 1 \in Gen /\ gen' = gen + 1 /\ startSeq'[gen + 1] = nextSeq'[gen + 1] /\ nextSeq'[gen] = nextSeq[gen]
        /\ nextSeq'[gen + 1] = nextSeq[gen] + n + 1
    <3>1. gen # gen + 1
      BY <1>1
    <3> QED
      BY Zenon, <1>1, <1>6, <3>1, AdvanceEffect
  <2>2. MaxCompletedSeqNo(gen)' = nextSeq[gen] - 1
    <3>1. gen' # 0 /\ gen' - 1 = gen /\ startSeq'[gen'] = nextSeq'[gen'] /\ nextSeq'[gen'] \in Nat
      BY <1>1, <1>2, <2>1 DEF PointTypes
    <3>2. ~(startSeq'[gen'] < nextSeq'[gen'])
      BY <3>1
    <3> QED
      BY <2>1, <3>1, <3>2, Zenon DEF MaxCompletedSeqNo
  <2> QED
    BY <1>4, <2>2, Zenon
<1>7. gen' = gen \/ \E n \in 0 .. MaxPending : AdvanceQueue(n)
  BY Zenon DEF Next, vars, queueVars, AddDelete, UpdateDocuments, AddDocuments, FailDocuments,
     NewSlice, PrepareFlush, TryApplyGlobalSlice, MaybeFreezeGlobalBuffer, Clear,
     SkipSequenceNumbers, Close
<1> QED
  BY <1>5, <1>6, <1>7, Zenon

-----------------------------------------------------------------------------
(* The inductive invariant holds in every reachable state. *)
THEOREM IndInvariant == Spec => []IndInv
<1> QED
  BY InitIndInv, IndStep, PTL DEF Spec

(* All fields of the queues, packets and slices keep their types: sequence *)
(* numbers stay between 1 and i64::MAX, slices inside their queue.         *)
THEOREM TypeCorrect == Spec => []TypeOK
<1>1. IndInv => TypeOK
  BY Zenon DEF IndInv
<1> QED
  BY <1>1, IndInvariant, PTL

(* Update consistency, what the header of documents_writer_delete_queue.rs *)
(* promises of add_with_slice, update_slice and DeleteSlice::apply.        *)
THEOREM UpdatesConsistent == Spec => []UpdateConsistency
<1>1. IndInv => UpdateConsistency
  BY IndImplies, Zenon
<1> QED
  BY <1>1, IndInvariant, PTL

(* A packet frozen after prepare_flush of a DWPT holds only deletes that   *)
(* are newer than the documents of that DWPT.                              *)
THEOREM PacketsOrdered == Spec => []LaterPacketsAreNewer
<1>1. IndInv => LaterPacketsAreNewer
  BY IndImplies, Zenon
<1> QED
  BY <1>1, IndInvariant, PTL

(* freeze_global_buffer hands out every delete exactly once, and a queue   *)
(* that close accepted has none left.                                      *)
THEOREM DeletesNeverLost == Spec => [](DeletesFrozenOnce /\ ClosedQueueDrained)
<1>1. IndInv => DeletesFrozenOnce /\ ClosedQueueDrained
  BY IndImplies, Zenon
<1> QED
  BY <1>1, IndInvariant, PTL

(* Sequence numbers stay in the window that advance_queue gave the queue,  *)
(* and the windows of successive queues are disjoint and ordered.          *)
THEOREM WindowsDisjoint == Spec => []SeqNoWindows
<1>1. IndInv => SeqNoWindows
  BY IndImpliesWindows, Zenon
<1> QED
  BY <1>1, IndInvariant, PTL

(* get_max_completed_seq_no is monotonic over the life of the writer.      *)
THEOREM MaxCompletedNeverDecreases == Spec => MaxCompletedMonotonic
<1>1. IndInv /\ IndInv' /\ [Next]_vars => [MaxCompletedSeqNo(gen) <= MaxCompletedSeqNo(gen)']_vars
  BY MaxCompletedStep, Zenon
<1> QED
  BY <1>1, IndInvariant, PTL DEF Spec, MaxCompletedMonotonic

=============================================================================
