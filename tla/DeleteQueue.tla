---------------------------- MODULE DeleteQueue ----------------------------
(***************************************************************************)
(* The delete queue of the indexing path (documents_writer_delete_queue.rs)*)
(* together with the two users that read it: the private delete slice of a *)
(* DocumentsWriterPerThread (a DWPT, documents_writer_per_thread.rs) and   *)
(* the global slice whose content is frozen into packets.                  *)
(*                                                                         *)
(* A queue is a singly linked list of delete nodes.  Nodes are named by    *)
(* their position, so the tail pointer of queue g is the number tail[g]    *)
(* and a slice is the range head+1 .. tail of positions.  What a node      *)
(* deletes (terms, queries, doc values updates) is not represented: the    *)
(* properties only compare the order of nodes and documents.  A full flush *)
(* replaces the queue by its successor, so queues are indexed by           *)
(* generation.                                                             *)
(*                                                                         *)
(* Every action below is one critical section of the code: queue_lock for  *)
(* add, update_slice, advance_queue and close, global_buffer_lock for the  *)
(* global slice.  A DWPT's slice is private to the thread that holds the   *)
(* DWPT's lock.                                                            *)
(***************************************************************************)
EXTENDS Integers

CONSTANTS
  Threads,     \* threads that call delete_terms / delete_queries / update_doc_values
  Slices,      \* DWPTs, each of which owns one private delete slice
  MaxGen,      \* bound: queue generations 0 .. MaxGen
  MaxIdx,      \* bound: nodes per queue, and documents per DWPT
  MaxPending,  \* bound: largest argument of advance_queue
  MaxBlock,    \* bound: documents per update_documents call
  MaxLong      \* i64::MAX, the max_seq_no of a queue that was not advanced

ASSUME ConstantsAssumption ==
  /\ MaxGen \in Nat /\ MaxIdx \in Nat /\ MaxPending \in Nat
  /\ MaxBlock \in Nat /\ MaxLong \in Nat \ {0}
  /\ Threads \cap Slices = {}

Gen == 0 .. MaxGen
NoGen == -1
Idx == 1 .. MaxIdx
Callers == Threads \cup Slices

VARIABLES
  gen,       \* generation of the queue new operations use
  tail,      \* tail[g]: position of the last node of queue g
  nodeSeq,   \* nodeSeq[g][i]: sequence number of node i, 0 if not linked
  nextSeq, maxSeq, startSeq,  \* the fields next_seq_no, max_seq_no, start_seq_no
  advanced, closed,           \* the flags of the queue
  budget,    \* operations the caller of advance_queue still announced
  gHead,     \* head of the global slice; equal to its tail between calls
  gBuf,      \* nodes in global_buffered_updates
  frozen,    \* nodes handed out in frozen packets
  dropped,   \* nodes discarded by clear
  pend,      \* pend[c]: queue on which c must still try_apply_global_slice
  sGen,      \* sGen[s]: queue of DWPT s, NoGen before it is created
  sBirth, sHead,  \* tail when the slice was made; head of the slice
  nDocs,     \* num_docs_in_ram
  docSeq,    \* docSeq[s][j]: sequence number of the j-th document, 0 if failed
  limit,     \* limit[s][i]: doc_id_upto with which s applied node i
  done       \* DWPTs whose prepare_flush ran

queueVars == <<gen, tail, nodeSeq, nextSeq, maxSeq, startSeq, advanced, closed, budget>>
globalVars == <<gHead, gBuf, frozen, dropped>>
sliceVars == <<sGen, sBirth, sHead, nDocs, docSeq, limit, done>>
vars == <<queueVars, globalVars, pend, sliceVars>>

-----------------------------------------------------------------------------
Init ==
  /\ gen = 0
  /\ tail = [g \in Gen |-> 0]
  /\ nodeSeq = [g \in Gen |-> [i \in Idx |-> 0]]
  /\ nextSeq = [g \in Gen |-> 1]
  /\ maxSeq = [g \in Gen |-> MaxLong]
  /\ startSeq = [g \in Gen |-> 1]
  /\ advanced = [g \in Gen |-> FALSE]
  /\ closed = [g \in Gen |-> FALSE]
  /\ budget = [g \in Gen |-> 0]
  /\ gHead = [g \in Gen |-> 0]
  /\ gBuf = [g \in Gen |-> {}]
  /\ frozen = [g \in Gen |-> {}]
  /\ dropped = [g \in Gen |-> {}]
  /\ pend = [c \in Callers |-> NoGen]
  /\ sGen = [s \in Slices |-> NoGen]
  /\ sBirth = [s \in Slices |-> 0]
  /\ sHead = [s \in Slices |-> 0]
  /\ nDocs = [s \in Slices |-> 0]
  /\ docSeq = [s \in Slices |-> [j \in Idx |-> 0]]
  /\ limit = [s \in Slices |-> [i \in Idx |-> 0]]
  /\ done = {}

(* get_next_sequence_number, always called with queue_lock held.  An       *)
(* advanced queue serves only the operations its caller announced in       *)
(* max_num_pending_ops.                                                    *)
TakeSeqNo(g) ==
  /\ nextSeq[g] < MaxLong
  /\ advanced[g] => budget[g] > 0
  /\ nextSeq' = [nextSeq EXCEPT ![g] = @ + 1]
  /\ budget' = [budget EXCEPT ![g] = IF advanced[g] THEN @ - 1 ELSE @]

(* add: link a node behind the tail and take a sequence number.            *)
Add(g) ==
  /\ ~closed[g]
  /\ tail[g] < MaxIdx
  /\ tail' = [tail EXCEPT ![g] = @ + 1]
  /\ nodeSeq' = [nodeSeq EXCEPT ![g][tail[g] + 1] = nextSeq[g]]
  /\ TakeSeqNo(g)

(* add_delete_query, add_delete_term, add_doc_values_updates up to the     *)
(* release of queue_lock; TryApplyGlobalSlice completes the call.          *)
AddDelete(t) ==
  /\ pend[t] = NoGen
  /\ Add(gen)
  /\ pend' = [pend EXCEPT ![t] = gen]
  /\ UNCHANGED <<gen, maxSeq, startSeq, advanced, closed, globalVars, sliceVars>>

(* DeleteSlice::apply of slice s up to the new tail: every node of the     *)
(* range gets the limit, a smaller limit never replaces a larger one       *)
(* (BufferedUpdates::add_term), and reset empties the slice.               *)
ApplySlice(s, newTail, docIdUpto) ==
  /\ limit' = [limit EXCEPT ![s] = [i \in Idx |->
                 IF sHead[s] < i /\ i <= newTail /\ @[i] < docIdUpto
                   THEN docIdUpto ELSE @[i]]]
  /\ sHead' = [sHead EXCEPT ![s] = newTail]

(* The documents of one update_documents call get doc ids after the ones   *)
(* in RAM and share the sequence number of the call.                       *)
AddDocs(s, n, seq) ==
  /\ nDocs[s] + n <= MaxIdx
  /\ nDocs' = [nDocs EXCEPT ![s] = @ + n]
  /\ docSeq' = [docSeq EXCEPT ![s] = [j \in Idx |->
                  IF nDocs[s] < j /\ j <= nDocs[s] + n THEN seq ELSE @[j]]]

Usable(s) == sGen[s] # NoGen /\ s \notin done /\ pend[s] = NoGen

(* finish_documents with a delete node: add_with_slice makes the new node  *)
(* the slice's tail and the slice is applied to the documents that were    *)
(* in RAM before this call.                                                *)
UpdateDocuments(s, n) ==
  LET g == sGen[s] IN
  /\ Usable(s)
  /\ Add(g)
  /\ AddDocs(s, n, nextSeq[g])
  /\ ApplySlice(s, tail[g] + 1, nDocs[s])
  /\ pend' = [pend EXCEPT ![s] = g]
  /\ UNCHANGED <<gen, maxSeq, startSeq, advanced, closed, globalVars, sGen, sBirth, done>>

(* Mutant of AddDocuments: the slice is not moved to the tail, so a later  *)
(* apply runs older deletes against these documents.                       *)
AddDocumentsNoSlice(s, n) ==
  LET g == sGen[s] IN
  /\ Usable(s)
  /\ ~closed[g]
  /\ TakeSeqNo(g)
  /\ AddDocs(s, n, nextSeq[g])
  /\ UNCHANGED <<gen, tail, nodeSeq, maxSeq, startSeq, advanced, closed, globalVars, pend,
                 sGen, sBirth, sHead, limit, done>>

(* finish_documents without a delete node: update_slice takes a sequence   *)
(* number and moves the slice to the current tail.                         *)
AddDocuments(s, n) ==
  LET g == sGen[s] IN
  /\ Usable(s)
  /\ ~closed[g]
  /\ TakeSeqNo(g)
  /\ AddDocs(s, n, nextSeq[g])
  /\ ApplySlice(s, tail[g], nDocs[s])
  /\ UNCHANGED <<gen, tail, nodeSeq, maxSeq, startSeq, advanced, closed, globalVars, pend,
                 sGen, sBirth, done>>

(* A non-aborting failure: the documents keep their doc ids, are marked    *)
(* deleted (delete_last_docs) and no sequence number is taken.             *)
FailDocuments(s, n) ==
  /\ Usable(s)
  /\ AddDocs(s, n, 0)
  /\ UNCHANGED <<queueVars, globalVars, pend, sGen, sBirth, sHead, limit, done>>

(* DocumentsWriterPerThread::new: the slice starts empty at the tail.      *)
NewSlice(s) ==
  /\ sGen[s] = NoGen
  /\ sGen' = [sGen EXCEPT ![s] = gen]
  /\ sBirth' = [sBirth EXCEPT ![s] = tail[gen]]
  /\ sHead' = [sHead EXCEPT ![s] = tail[gen]]
  /\ UNCHANGED <<queueVars, globalVars, pend, nDocs, docSeq, limit, done>>

-----------------------------------------------------------------------------
(* Nodes the global slice has not applied yet. *)
GlobalSlice(g) == (gHead[g] + 1) .. tail[g]

(* try_apply_global_slice, the second half of an operation.  If another    *)
(* thread holds global_buffer_lock the call returns without effect, if the *)
(* queue is closed it returns an error; both leave the queue as it is.     *)
TryApplyGlobalSlice(c) ==
  LET g == pend[c] IN
  /\ g # NoGen
  /\ pend' = [pend EXCEPT ![c] = NoGen]
  /\ \/ UNCHANGED globalVars
     \/ /\ ~closed[g]
        /\ gBuf' = [gBuf EXCEPT ![g] = @ \cup GlobalSlice(g)]
        /\ gHead' = [gHead EXCEPT ![g] = tail[g]]
        /\ UNCHANGED <<frozen, dropped>>
  /\ UNCHANGED <<queueVars, sliceVars>>

(* Mutant of FreezeInternal: the packet is made from what happens to be    *)
(* buffered, the global slice is not brought up to date.                   *)
FreezeStale(g) ==
  /\ frozen' = [frozen EXCEPT ![g] = @ \cup gBuf[g]]
  /\ gBuf' = [gBuf EXCEPT ![g] = {}]
  /\ UNCHANGED <<gHead, dropped>>

(* Mutant of FreezeInternal: the global buffer is not cleared. *)
FreezeNoClear(g) ==
  /\ frozen' = [frozen EXCEPT ![g] = @ \cup gBuf[g] \cup GlobalSlice(g)]
  /\ gHead' = [gHead EXCEPT ![g] = tail[g]]
  /\ UNCHANGED <<gBuf, dropped>>

(* freeze_global_buffer_internal: bring the global slice up to the tail    *)
(* and hand everything buffered out as one packet.                         *)
FreezeInternal(g) ==
  /\ frozen' = [frozen EXCEPT ![g] = @ \cup gBuf[g] \cup GlobalSlice(g)]
  /\ gBuf' = [gBuf EXCEPT ![g] = {}]
  /\ gHead' = [gHead EXCEPT ![g] = tail[g]]
  /\ UNCHANGED dropped

(* DocumentsWriterPerThread::prepare_flush: freeze_global_buffer puts the  *)
(* DWPT's slice and the global slice on the same tail, then the DWPT       *)
(* applies its slice to all of its documents.                              *)
PrepareFlush(s) ==
  LET g == sGen[s] IN
  /\ Usable(s)
  /\ nDocs[s] > 0
  /\ ~closed[g]
  /\ FreezeInternal(g)
  /\ ApplySlice(s, tail[g], nDocs[s])
  /\ done' = done \cup {s}
  /\ UNCHANGED <<queueVars, pend, sGen, sBirth, nDocs, docSeq>>

(* maybe_freeze_global_buffer, which returns None on a closed queue. *)
MaybeFreezeGlobalBuffer(g) ==
  /\ g <= gen
  /\ ~closed[g]
  /\ FreezeInternal(g)
  /\ UNCHANGED <<queueVars, pend, sliceVars>>

(* clear, called when the writer discards everything that is buffered. *)
Clear ==
  /\ dropped' = [dropped EXCEPT ![gen] = @ \cup gBuf[gen] \cup GlobalSlice(gen)]
  /\ gBuf' = [gBuf EXCEPT ![gen] = {}]
  /\ gHead' = [gHead EXCEPT ![gen] = tail[gen]]
  /\ UNCHANGED <<frozen, queueVars, pend, sliceVars>>

(* skip_sequence_numbers, the gap lock_and_abort_all leaves. *)
SkipSequenceNumbers(jump) ==
  /\ nextSeq[gen] + jump <= MaxLong
  /\ nextSeq' = [nextSeq EXCEPT ![gen] = @ + jump]
  /\ UNCHANGED <<gen, tail, nodeSeq, maxSeq, startSeq, advanced, closed, budget,
                 globalVars, pend, sliceVars>>

-----------------------------------------------------------------------------
(* any_changes.  The tail node never has a successor here because add      *)
(* links it and moves the tail in one critical section.                    *)
AnyChanges(g) == gBuf[g] # {} \/ gHead[g] # tail[g]

(* Mutant of AdvanceQueue: the window is one number too short. *)
AdvanceQueueTight(maxNumPendingOps) ==
  LET max == nextSeq[gen] - 1 + maxNumPendingOps IN
  /\ ~advanced[gen]
  /\ gen < MaxGen
  /\ max < MaxLong
  /\ advanced' = [advanced EXCEPT ![gen] = TRUE]
  /\ maxSeq' = [maxSeq EXCEPT ![gen] = max]
  /\ budget' = [budget EXCEPT ![gen] = maxNumPendingOps]
  /\ gen' = gen + 1
  /\ startSeq' = [startSeq EXCEPT ![gen + 1] = max + 1]
  /\ nextSeq' = [nextSeq EXCEPT ![gen + 1] = max + 1]
  /\ UNCHANGED <<tail, nodeSeq, closed, globalVars, pend, sliceVars>>

(* Mutant of AdvanceQueue: the successor starts where this queue stands. *)
AdvanceQueueNoGap(maxNumPendingOps) ==
  LET max == nextSeq[gen] - 1 + maxNumPendingOps + 1 IN
  /\ ~advanced[gen]
  /\ gen < MaxGen
  /\ max < MaxLong
  /\ advanced' = [advanced EXCEPT ![gen] = TRUE]
  /\ maxSeq' = [maxSeq EXCEPT ![gen] = max]
  /\ budget' = [budget EXCEPT ![gen] = maxNumPendingOps]
  /\ gen' = gen + 1
  /\ startSeq' = [startSeq EXCEPT ![gen + 1] = nextSeq[gen]]
  /\ nextSeq' = [nextSeq EXCEPT ![gen + 1] = nextSeq[gen]]
  /\ UNCHANGED <<tail, nodeSeq, closed, globalVars, pend, sliceVars>>

(* advance_queue: fix the largest sequence number this queue may hand out  *)
(* and start the successor behind it.                                      *)
AdvanceQueue(maxNumPendingOps) ==
  LET max == nextSeq[gen] - 1 + maxNumPendingOps + 1 IN
  /\ ~advanced[gen]
  /\ gen < MaxGen
  /\ max < MaxLong
  /\ advanced' = [advanced EXCEPT ![gen] = TRUE]
  /\ maxSeq' = [maxSeq EXCEPT ![gen] = max]
  /\ budget' = [budget EXCEPT ![gen] = maxNumPendingOps]
  /\ gen' = gen + 1
  /\ startSeq' = [startSeq EXCEPT ![gen + 1] = max + 1]
  /\ nextSeq' = [nextSeq EXCEPT ![gen + 1] = max + 1]
  /\ UNCHANGED <<tail, nodeSeq, closed, globalVars, pend, sliceVars>>

(* close, called on the queue a full flush has advanced and drained. *)
Close(g) ==
  /\ advanced[g]
  /\ ~closed[g]
  /\ ~AnyChanges(g)
  /\ closed' = [closed EXCEPT ![g] = TRUE]
  /\ nextSeq' = [nextSeq EXCEPT ![g] = maxSeq[g] + 1]
  /\ UNCHANGED <<gen, tail, nodeSeq, maxSeq, startSeq, advanced, budget, globalVars, pend,
                 sliceVars>>

Next ==
  \/ \E t \in Threads : AddDelete(t)
  \/ \E s \in Slices, n \in 1 .. MaxBlock :
       UpdateDocuments(s, n) \/ AddDocuments(s, n) \/ FailDocuments(s, n)
  \/ \E s \in Slices : NewSlice(s) \/ PrepareFlush(s)
  \/ \E c \in Callers : TryApplyGlobalSlice(c)
  \/ \E g \in Gen : MaybeFreezeGlobalBuffer(g) \/ Close(g)
  \/ \E n \in 0 .. MaxPending : AdvanceQueue(n) \/ SkipSequenceNumbers(n + 1)
  \/ Clear

Spec == Init /\ [][Next]_vars

-----------------------------------------------------------------------------
(* get_max_completed_seq_no of queue g: a queue that has not handed out a  *)
(* number answers with its predecessor's last one.                         *)
MaxCompletedSeqNo(g) ==
  IF startSeq[g] < nextSeq[g] THEN nextSeq[g] - 1
  ELSE IF g = 0 THEN 0 ELSE nextSeq[g - 1] - 1

(* Types of all variables. *)
TypeOK ==
  /\ gen \in Gen
  /\ tail \in [Gen -> 0 .. MaxIdx]
  /\ nodeSeq \in [Gen -> [Idx -> 0 .. MaxLong]]
  /\ nextSeq \in [Gen -> 1 .. MaxLong]
  /\ maxSeq \in [Gen -> 0 .. MaxLong]
  /\ startSeq \in [Gen -> 1 .. MaxLong]
  /\ advanced \in [Gen -> BOOLEAN]
  /\ closed \in [Gen -> BOOLEAN]
  /\ budget \in [Gen -> 0 .. MaxPending]
  /\ gHead \in [Gen -> 0 .. MaxIdx]
  /\ gBuf \in [Gen -> SUBSET Idx]
  /\ frozen \in [Gen -> SUBSET Idx]
  /\ dropped \in [Gen -> SUBSET Idx]
  /\ pend \in [Callers -> Gen \cup {NoGen}]
  /\ sGen \in [Slices -> Gen \cup {NoGen}]
  /\ sBirth \in [Slices -> 0 .. MaxIdx]
  /\ sHead \in [Slices -> 0 .. MaxIdx]
  /\ nDocs \in [Slices -> 0 .. MaxIdx]
  /\ docSeq \in [Slices -> [Idx -> 0 .. MaxLong]]
  /\ limit \in [Slices -> [Idx -> 0 .. MaxIdx]]
  /\ done \in SUBSET Slices

(* A document that was indexed; failed documents have no sequence number. *)
Indexed(s, j) == j <= nDocs[s] /\ docSeq[s][j] # 0

(* Update consistency, the promise in the header of the queue's source: a  *)
(* delete that a DWPT has applied hits exactly the DWPT's documents with a *)
(* smaller sequence number, so of two racing updates of one key the later  *)
(* one wins.                                                               *)
UpdateConsistency ==
  \A s \in Slices : \A i, j \in Idx :
    sGen[s] # NoGen /\ i <= sHead[s] /\ Indexed(s, j)
      => (j <= limit[s][i] <=> docSeq[s][j] < nodeSeq[sGen[s]][i])

(* What freeze_global_buffer guarantees by moving both slices to one tail: *)
(* a delete that is not yet in a packet when a DWPT has prepared its flush *)
(* is newer than every document of that DWPT, so the later packet may be   *)
(* applied to the flushed segment without a document limit.                *)
LaterPacketsAreNewer ==
  \A s \in done : \A i, j \in Idx :
    i \in gBuf[sGen[s]] \cup GlobalSlice(sGen[s]) /\ Indexed(s, j)
      => docSeq[s][j] < nodeSeq[sGen[s]][i]

(* The global slice, the global buffer and the packets never lose or       *)
(* repeat a delete: the nodes before gHead are split between the buffer,   *)
(* the packets and what clear dropped.                                     *)
DeletesFrozenOnce ==
  \A g \in Gen :
    /\ gBuf[g] \cap frozen[g] = {}
    /\ dropped[g] \cap (gBuf[g] \cup frozen[g]) = {}
    /\ gBuf[g] \cup frozen[g] \cup dropped[g] = 1 .. gHead[g]

(* The assertion of maybe_freeze_global_buffer, "We are closed but have    *)
(* changes", and what it stands for: every delete of a closed queue was    *)
(* frozen or deliberately dropped.                                         *)
ClosedQueueDrained ==
  \A g \in Gen :
    closed[g] => ~AnyChanges(g) /\ frozen[g] \cup dropped[g] = 1 .. tail[g]

(* The assertions of get_next_sequence_number and close and the purpose of *)
(* the gap left by advance_queue: a queue hands out numbers of its own     *)
(* window only, and the window ends before the successor's begins.         *)
SeqNoWindows ==
  \A g \in 0 .. gen :
    /\ \A i \in Idx : i <= tail[g] => startSeq[g] <= nodeSeq[g][i] /\ nodeSeq[g][i] <= maxSeq[g]
    /\ \A s \in Slices, j \in Idx :
         sGen[s] = g /\ Indexed(s, j) => startSeq[g] <= docSeq[s][j] /\ docSeq[s][j] <= maxSeq[g]
    /\ ~closed[g] => nextSeq[g] <= maxSeq[g]
    /\ g < gen => maxSeq[g] < startSeq[g + 1]

(* What get_max_completed_seq_no reports of the current queue never        *)
(* decreases, whichever of the two queues of a full flush the operations   *)
(* run on.                                                                 *)
MaxCompletedMonotonic ==
  [][MaxCompletedSeqNo(gen) <= MaxCompletedSeqNo(gen)']_vars

=============================================================================
