---------------------------- MODULE FlushControl ----------------------------
(***************************************************************************)
(* The life of the in-memory segment writers (DWPTs) of DocumentsWriter:   *)
(* threads obtain, fill and release them through the per-thread pool, the  *)
(* flush control marks them pending, checks them out or blocks them, any   *)
(* thread flushes what is checked out, and a full flush, a delete-all or a *)
(* closing abort sweeps the whole pool while indexing goes on.             *)
(*                                                                         *)
(* One action is one critical section: either of the mutex of              *)
(* DocumentsWriterFlushControl (its `inner`), of the pool, or of a DWPT    *)
(* lock.  What the flush control's mutex guards, with the pool's sets and  *)
(* the pending marks that change under it, is the record `inner`.          *)
(***************************************************************************)
EXTENDS Integers, Sequences, FiniteSets, FiniteSetsExt, SequencesExt

CONSTANTS
    Threads,         \* indexing threads
    Flusher,         \* the holder of IndexWriter's full flush lock
    Closer,          \* the thread that rolls the writer back
    Dwpts,           \* identities of the DWPTs the run may create
    None,            \* no DWPT, no process, no queue
    MaxGen,          \* bound: delete queue generations 0..MaxGen
    MaxCalls,        \* bound: update_documents calls
    MaxFails,        \* bound: failing or aborting documents and flushes
    MaxBufferedDocs, \* LiveIndexWriterConfig; 0 disables flushing by count
    DocRam,          \* bytes a document takes in the RAM buffer
    RamBuffer,       \* ram buffer size in bytes; 0 disables it
    Granularity,     \* ram_buffer_granularity
    HardLimit,       \* hard_max_bytes_per_dwpt
    DeleteRam,       \* values the buffered deletes' size may have
    Programs,        \* which operations the run exercises, of AllPrograms
    CheckPending     \* get_check_pending_flush_on_update

AllPrograms == {"fullFlush", "deleteAll", "rollback", "flushOne", "delete"}

ASSUME FlushControlAssumption ==
    /\ MaxGen \in Nat /\ MaxCalls \in Nat /\ MaxFails \in Nat
    /\ MaxBufferedDocs \in Nat /\ RamBuffer \in Nat /\ HardLimit \in Nat
    /\ Granularity \in Nat /\ DocRam \in Nat \ {0} /\ DeleteRam \subseteq Nat
    /\ CheckPending \in BOOLEAN /\ Programs \subseteq AllPrograms
    /\ MaxBufferedDocs # 0 \/ RamBuffer # 0
    /\ None \notin Threads \cup Dwpts \cup {Flusher, Closer}
    /\ Flusher \notin Threads \cup {Closer} /\ Closer \notin Threads

Procs == Threads \cup {Flusher, Closer}
Gens == 0 .. MaxGen

VARIABLES
    inner,      \* the flush control's guarded state, the pool, pending marks
    gen,        \* generation of the current delete queue
    queue,      \* Dwpts -> the generation a DWPT was created on, None: not yet
    docs,       \* Dwpts -> documents in its RAM buffer
    aborted,    \* DWPTs whose buffer was discarded
    flushed,    \* DWPTs written as a segment (has_flushed)
    owner,      \* Dwpts -> holder of the DWPT lock
    guard,      \* holder of DocumentsWriter's monitor
    permits,    \* new writers are locked out (taken_writer_permits > 0)
    closed,     \* DocumentsWriter, flush control and pool are closed
    deletes,    \* the flush_deletes flag
    sealed,     \* generations whose queue is closed
    budget,     \* operations advance_queue left room for, on the old queue
    calls, fails,
    pc,         \* where each process is
    cur,        \* the DWPT a thread holds for indexing
    fd,         \* the checked out DWPT a process is about to flush
    todo, held, \* pool snapshot still to visit; DWPTs locked by a sweep
    ret,        \* where to go on when the current call returns
    aq,         \* the delete queue apply_all_deletes looked at
    buffer,     \* full_flush_buffer of mark_for_full_flush
    err         \* the full flush failed

vars == <<inner, gen, queue, docs, aborted, flushed, owner, guard, permits,
          closed, deletes, sealed, budget, calls, fails,
          pc, cur, fd, todo, held, ret, aq, buffer, err>>

(* Variables an action of the flush control's mutex alone leaves alone.    *)
writer == <<gen, queue, docs, aborted, flushed, guard, permits, closed,
            sealed, budget, calls, fails>>

Init ==
    /\ inner = [active |-> 0, flushBytes |-> 0, numPending |-> 0,
                fullFlush |-> FALSE, markDone |-> FALSE, stalled |-> FALSE,
                flushQueue |-> <<>>, blocked |-> <<>>, flushing |-> {},
                reg |-> {}, free |-> {}, pending |-> {},
                committed |-> [d \in Dwpts |-> 0]]
    /\ gen = 0
    /\ queue = [d \in Dwpts |-> None]
    /\ docs = [d \in Dwpts |-> 0]
    /\ aborted = {} /\ flushed = {}
    /\ owner = [d \in Dwpts |-> None]
    /\ guard = None /\ permits = FALSE /\ closed = FALSE /\ deletes = FALSE
    /\ sealed = {} /\ budget = 0
    /\ calls = 0 /\ fails = 0
    /\ pc = [p \in Procs |-> "idle"]
    /\ cur = [p \in Procs |-> None]
    /\ todo = [p \in Procs |-> {}]
    /\ held = [p \in Procs |-> {}]
    /\ ret = [p \in Procs |-> "idle"]
    /\ fd = [p \in Procs |-> None]
    /\ aq = [p \in Procs |-> None]
    /\ buffer = <<>> /\ err = FALSE

-----------------------------------------------------------------------------
(* Sections of the flush control, as functions of its state `s`.           *)

(* update_stall_state: too much is flushing while little is active.        *)
UpdateStall(s) ==
    [s EXCEPT !.stalled = /\ RamBuffer # 0
                          /\ s.active + s.flushBytes > 2 * RamBuffer
                          /\ s.active < 2 * RamBuffer
                          /\ ~closed]

(* Mutant: the bytes stay on the active side.                              *)
SetFlushPendingKeepsActive(s, d) ==
    IF docs[d] = 0 THEN s
    ELSE [s EXCEPT !.pending = @ \cup {d},
                   !.flushBytes = @ + s.committed[d],
                   !.numPending = @ + 1]

(* set_flush_pending: mark a writer and move its bytes to the flush side.  *)
SetFlushPending(s, d) ==
    IF docs[d] = 0 THEN s
    ELSE [s EXCEPT !.pending = @ \cup {d},
                   !.flushBytes = @ + s.committed[d],
                   !.active = @ - s.committed[d],
                   !.numPending = @ + 1]

(* DocumentsWriterPerThreadPool::checkout.                                 *)
Unregister(s, d) ==
    [s EXCEPT !.reg = @ \ {d}, !.free = @ \ {d}]

CheckOutForFlush(s, d) ==
    LET out == Unregister([s EXCEPT !.numPending = @ - 1], d)
    IN  UpdateStall([out EXCEPT !.flushing = @ \cup {d}])

CheckoutAndBlock(s, d) ==
    LET out == Unregister([s EXCEPT !.numPending = @ - 1], d)
    IN  [out EXCEPT !.blocked = Append(@, d)]

(* The locked part of next_pending_flush: take the head of the flush queue.*)
PollFlushQueue(s) == UpdateStall([s EXCEPT !.flushQueue = Tail(@)])

(* Mutant: a pending DWPT is checked out during a full flush, too.         *)
CheckoutNeverBlocks(s, d, markPending) ==
    LET m == IF markPending THEN SetFlushPending(s, d) ELSE s
    IN  IF d \in m.pending THEN <<CheckOutForFlush(m, d), d>> ELSE <<m, None>>

(* checkout: the new state and the DWPT the caller is to flush.            *)
Checkout(s, d, markPending) ==
    IF s.fullFlush
    THEN IF d \notin s.pending THEN <<s, None>>
         ELSE LET b == CheckoutAndBlock(s, d)
              IN  IF b.flushQueue = <<>> THEN <<b, None>>
                  ELSE <<PollFlushQueue(b), Head(b.flushQueue)>>
    ELSE LET m == IF markPending THEN SetFlushPending(s, d) ELSE s
         IN  IF d \in m.pending THEN <<CheckOutForFlush(m, d), d>>
             ELSE <<m, None>>

(* find_largest_non_pending_writer: a maximum, the first in pool order.    *)
LargestNonPending(s) ==
    LET cand == {d \in s.reg : d \notin s.pending /\ docs[d] > 0}
    IN  {d \in cand : \A e \in cand : s.committed[e] <= s.committed[d]}

(* FlushByRamOrCountsPolicy::on_change for the DWPT d, with the deletes    *)
(* using `ram`: the possible new states and the new flush_deletes flag.    *)
MarkLargest(s) ==
    LET big == LargestNonPending(s)
    IN  IF big = {} THEN {s} ELSE {SetFlushPending(s, d) : d \in big}

OnChange(s, d, ram) ==
    IF MaxBufferedDocs # 0 /\ docs[d] >= MaxBufferedDocs
    THEN {<<SetFlushPending(s, d), deletes>>}
    ELSE IF RamBuffer = 0 THEN {<<s, deletes>>}
    ELSE IF ram >= RamBuffer
    THEN {<<n, TRUE>> : n \in IF s.active >= RamBuffer THEN MarkLargest(s)
                                                      ELSE {s}}
    ELSE {<<n, deletes>> : n \in IF s.active + ram >= RamBuffer
                                 THEN MarkLargest(s) ELSE {s}}

(* Mutant: the flushes of other queues are dropped.                        *)
PruneBlockedDropsOthers(s, g) ==
    LET mine == SelectSeq(s.blocked, LAMBDA d : queue[d] = g)
    IN  [s EXCEPT !.flushing = @ \cup ToSet(mine),
                  !.flushQueue = @ \o mine, !.blocked = <<>>]

(* prune_blocked_queue: the blocked flushes of one queue become flushable. *)
PruneBlocked(s, g) ==
    LET mine == SelectSeq(s.blocked, LAMBDA d : queue[d] = g)
    IN  [s EXCEPT !.flushing = @ \cup ToSet(mine),
                  !.flushQueue = @ \o mine,
                  !.blocked = SelectSeq(@, LAMBDA d : queue[d] # g)]

(* Mutant: the DWPT stays among the flushing writers.                      *)
AfterFlushKeeps(s, d) ==
    UpdateStall([s EXCEPT !.flushBytes = @ - s.committed[d]])

(* Mutant: the flushed bytes are not given back.                           *)
AfterFlushNoBytes(s, d) ==
    UpdateStall([s EXCEPT !.flushing = @ \ {d}])

(* do_after_flush.                                                         *)
AfterFlush(s, d) ==
    UpdateStall([s EXCEPT !.flushing = @ \ {d},
                          !.flushBytes = @ - s.committed[d]])

-----------------------------------------------------------------------------
Goto(p, l) == pc' = [pc EXCEPT ![p] = l]
sweep == <<todo, held, buffer, err>>

(* pre_update: while stalled, or while flushes are queued, help flushing.  *)
(* wait_if_stalled returns by itself after a second, so it is no step.     *)
PreUpdate(t) ==
    /\ IF inner.stalled \/ (CheckPending /\ inner.flushQueue # <<>>)
       THEN Goto(t, "next") /\ ret' = [ret EXCEPT ![t] = "pre"]
       ELSE Goto(t, "poll") /\ UNCHANGED ret
    /\ UNCHANGED <<inner, gen, queue, docs, aborted, flushed, owner, guard,
                   permits, closed, deletes, sealed, budget,
                   fails, cur, fd, aq, sweep>>

(* update_documents begins, or its pre_update goes round again.            *)
StartUpdate(t) ==
    /\ pc[t] = "idle" /\ calls < MaxCalls /\ ~closed
    /\ calls' = calls + 1
    /\ PreUpdate(t)

RetryUpdate(t) ==
    /\ pc[t] = "pre"
    /\ PreUpdate(t)
    /\ UNCHANGED calls

(* get_and_lock: lock and poll a free DWPT, or go and create one.          *)
Poll(t) ==
    /\ pc[t] = "poll"
    /\ LET avail == {d \in inner.free : owner[d] = None}
       IN  IF closed
           THEN Goto(t, "idle") /\ UNCHANGED <<inner, owner, cur>>
           ELSE IF avail = {}
           THEN Goto(t, "new") /\ UNCHANGED <<inner, owner, cur>>
           ELSE \E d \in avail :
                  /\ owner' = [owner EXCEPT ![d] = t]
                  /\ inner' = [inner EXCEPT !.free = @ \ {d}]
                  /\ cur' = [cur EXCEPT ![t] = d]
                  /\ Goto(t, "check")
    /\ UNCHANGED <<writer, deletes, fd, ret, aq, sweep>>

(* new_writer: wait for the permits, then create, lock and register.       *)
NewWriter(t) ==
    /\ pc[t] = "new" /\ ~permits
    /\ IF closed
       THEN Goto(t, "idle") /\ UNCHANGED <<inner, owner, cur, queue>>
       ELSE \E d \in Dwpts :
              /\ queue[d] = None
              /\ queue' = [queue EXCEPT ![d] = gen]
              /\ owner' = [owner EXCEPT ![d] = t]
              /\ inner' = [inner EXCEPT !.reg = @ \cup {d}]
              /\ cur' = [cur EXCEPT ![t] = d]
              /\ Goto(t, "check")
    /\ UNCHANGED <<gen, docs, aborted, flushed, guard, permits, closed, deletes,
                   sealed, budget, calls, fails,
                   fd, ret, aq, sweep>>

(* obtain_and_lock: a DWPT of an older queue is dropped for another one.   *)
CheckQueue(t) ==
    /\ pc[t] = "check"
    /\ IF queue[cur[t]] = gen
       THEN Goto(t, "index") /\ UNCHANGED <<owner, cur>>
       ELSE /\ owner' = [owner EXCEPT ![cur[t]] = None]
            /\ cur' = [cur EXCEPT ![t] = None]
            /\ Goto(t, "poll")
    /\ UNCHANGED <<inner, writer, deletes, fd, ret, aq, sweep>>

(* DocumentsWriterPerThread::update_documents, with ensure_open before it: *)
(* the document is added, is rejected but stays in the buffer as deleted,  *)
(* or fails in a way that discards the buffer.                             *)
IndexDocument(t) ==
    /\ pc[t] = "index"
    /\ LET d == cur[t]
       IN  \/ /\ closed
              /\ Goto(t, "release") /\ ret' = [ret EXCEPT ![t] = "idle"]
              /\ UNCHANGED <<docs, aborted, budget, fails>>
           \/ /\ ~closed
              /\ docs' = [docs EXCEPT ![d] = @ + 1]
              /\ budget' = IF queue[d] = gen THEN budget ELSE budget - 1
              /\ Goto(t, "after") /\ ret' = [ret EXCEPT ![t] = "post"]
              /\ UNCHANGED <<aborted, fails>>
           \/ /\ ~closed /\ fails < MaxFails
              /\ docs' = [docs EXCEPT ![d] = @ + 1]
              /\ fails' = fails + 1
              /\ ret' = [ret EXCEPT ![t] = "idle"]
              /\ \/ Goto(t, "release") /\ UNCHANGED aborted
                 \/ Goto(t, "onabort") /\ aborted' = aborted \cup {d}
              /\ UNCHANGED budget
    /\ UNCHANGED <<inner, gen, queue, flushed, owner, guard, permits, closed,
                   deletes, sealed, calls, cur, fd, aq, sweep>>

(* do_on_abort: the bytes go; num_pending is left as it is.                *)
DoOnAbort(s, d) ==
    LET b == IF d \in s.pending
             THEN [s EXCEPT !.flushBytes = @ - s.committed[d]]
             ELSE [s EXCEPT !.active = @ - s.committed[d]]
    IN  Unregister(UpdateStall(b), d)

AbortedDocument(t) ==
    /\ pc[t] = "onabort"
    /\ inner' = DoOnAbort(inner, cur[t])
    /\ Goto(t, "release")
    /\ UNCHANGED <<writer, owner, deletes, cur, fd, ret, aq, sweep>>

(* do_after_document: account for the new bytes, let the policy mark a     *)
(* writer pending, enforce the hard limit, and check this DWPT out.        *)
DoAfterDocument(t) ==
    /\ pc[t] = "after"
    /\ LET d == cur[t]
           bytes == docs[d] * DocRam
           delta == bytes - inner.committed[d]
           s == [inner EXCEPT !.committed[d] = bytes]
           Hard(n) == IF d \notin n.pending /\ bytes > HardLimit
                      THEN SetFlushPending(n, d) ELSE n
       IN  IF MaxBufferedDocs = 0 /\ delta < Granularity
           THEN UNCHANGED <<inner, deletes, fd>>
           ELSE \E ram \in DeleteRam :
                \E o \in IF d \in s.pending
                         THEN {<<[s EXCEPT !.flushBytes = @ + delta], deletes>>}
                         ELSE {<<Hard(n[1]), n[2]>> :
                               n \in OnChange([s EXCEPT !.active = @ + delta],
                                              d, ram)} :
                  LET c == Checkout(o[1], d, FALSE)
                  IN  /\ inner' = UpdateStall(c[1])
                      /\ fd' = [fd EXCEPT ![t] = c[2]]
                      /\ deletes' = o[2]
    /\ Goto(t, "release")
    /\ UNCHANGED <<writer, owner, cur, ret, aq, sweep>>

(* The end of update_documents: the DWPT is freed, unless it is pending,   *)
(* aborted, or belongs to an advanced queue.                               *)
Release(t) ==
    /\ pc[t] = "release"
    /\ LET d == cur[t]
       IN  /\ owner' = [owner EXCEPT ![d] = None]
           /\ inner' = IF d \in inner.pending \cup aborted \/ queue[d] # gen
                       THEN inner ELSE [inner EXCEPT !.free = @ \cup {d}]
    /\ cur' = [cur EXCEPT ![t] = None]
    /\ Goto(t, ret[t])
    /\ UNCHANGED <<writer, deletes, fd, ret, aq, sweep>>

(* apply_delete_or_update: under the monitor, a delete enters the current  *)
(* queue and do_on_delete may ask for the deletes to be applied.           *)
DeleteDocuments(t) ==
    /\ pc[t] = "idle" /\ "delete" \in Programs
    /\ calls < MaxCalls /\ guard = None
    /\ guard' = t /\ calls' = calls + 1
    /\ \E ram \in DeleteRam :
         deletes' = (deletes \/ (RamBuffer # 0 /\ ram >= RamBuffer))
    /\ ret' = [ret EXCEPT ![t] = "unguard"]
    /\ Goto(t, "post")
    /\ UNCHANGED <<inner, gen, queue, docs, aborted, flushed, owner, permits,
                   closed, sealed, budget, fails, cur, fd, aq,
                   sweep>>

(* What the caller of apply_all_deletes does next: a delete returns, an    *)
(* update flushes what do_after_document gave it or looks for other work.  *)
AfterApply(p) ==
    /\ guard' = IF ret[p] = "unguard" THEN None ELSE guard
    /\ ret' = [ret EXCEPT ![p] = "idle"]
    /\ Goto(p, IF fd[p] # None THEN "ticket"
               ELSE IF ret[p] = "post" /\ CheckPending THEN "next" ELSE "idle")
    /\ aq' = [aq EXCEPT ![p] = None]

(* post_update and apply_all_deletes: read the current queue and the flag, *)
PostUpdate(p) ==
    /\ pc[p] = "post"
    /\ IF deletes
       THEN /\ aq' = [aq EXCEPT ![p] = gen]
            /\ Goto(p, "apply") /\ UNCHANGED <<guard, ret>>
       ELSE AfterApply(p)
    /\ UNCHANGED <<inner, gen, queue, docs, aborted, flushed, owner, permits,
                   closed, deletes, sealed, budget, calls,
                   fails, cur, fd, sweep>>

(* go on when no full flush runs, the queue is open and this thread is the *)
(* one that resets the flag,                                               *)
ApplyAllDeletes(p) ==
    /\ pc[p] = "apply"
    /\ IF deletes /\ ~inner.fullFlush /\ aq[p] \notin sealed
       THEN /\ deletes' = FALSE
            /\ Goto(p, "freeze") /\ UNCHANGED <<guard, ret, aq>>
       ELSE UNCHANGED deletes /\ AfterApply(p)
    /\ UNCHANGED <<inner, gen, queue, docs, aborted, flushed, owner, permits,
                   closed, sealed, budget, calls, fails, cur,
                   fd, sweep>>

(* and freeze what the queue has buffered into a ticket (FlushQueue).      *)
FreezeDeletes(p) ==
    /\ pc[p] = "freeze"
    /\ AfterApply(p)
    /\ UNCHANGED <<inner, gen, queue, docs, aborted, flushed, owner, permits,
                   closed, deletes, sealed, budget, calls, fails, cur,
                   fd, sweep>>

-----------------------------------------------------------------------------
(* do_flush.  First the ticket: prepare_flush freezes the deletes of the   *)
(* DWPT's queue and the ticket fixes the place of both in the order.       *)
AddTicket(p) ==
    /\ pc[p] = "ticket"
    /\ Goto(p, "flush")
    /\ UNCHANGED <<inner, gen, queue, docs, aborted, flushed, owner, guard,
                   permits, closed, deletes, sealed, budget, calls,
                   fails, cur, fd, ret, aq, sweep>>

(* Then the segment is written and do_after_flush settles the account; on  *)
(* success the loop looks for more work, an error is passed up.            *)
FlushDwpt(p) ==
    /\ pc[p] = "flush"
    /\ inner' = AfterFlush(inner, fd[p])
    /\ fd' = [fd EXCEPT ![p] = None]
    /\ \/ /\ flushed' = flushed \cup {fd[p]}
          /\ Goto(p, "next")
          /\ ret' = [ret EXCEPT ![p] = IF @ = "largest" THEN "idle" ELSE @]
          /\ UNCHANGED <<fails, err, aborted>>
       \/ /\ fails < MaxFails
          /\ fails' = fails + 1
          /\ aborted' = aborted \cup {fd[p]}
          /\ Goto(p, IF p = Flusher THEN "close" ELSE "idle")
          /\ err' = IF p = Flusher THEN TRUE ELSE err
          /\ UNCHANGED <<flushed, ret>>
    /\ UNCHANGED <<gen, queue, docs, owner, guard, permits, closed, deletes,
                   sealed, budget, calls, cur, todo, held, aq,
                   buffer>>

(* next_pending_flush, the part under the mutex: take a queued flush, or   *)
(* read full_flush and num_pending to decide whether to search the pool.   *)
NextPendingFlush(p) ==
    /\ pc[p] = "next"
    /\ IF inner.flushQueue # <<>>
       THEN /\ fd' = [fd EXCEPT ![p] = Head(inner.flushQueue)]
            /\ inner' = PollFlushQueue(inner)
            /\ Goto(p, "ticket")
       ELSE /\ Goto(p, IF inner.numPending > 0 /\ ~inner.fullFlush
                       THEN "iterate" ELSE ret[p])
            /\ UNCHANGED <<inner, fd>>
    /\ UNCHANGED <<writer, owner, deletes, cur, ret, aq, sweep>>

(* The search, without the mutex: a snapshot of the pool ...               *)
IteratePool(p) ==
    /\ pc[p] = "iterate"
    /\ todo' = [todo EXCEPT ![p] = inner.reg]
    /\ Goto(p, "scan")
    /\ UNCHANGED <<inner, writer, owner, deletes, cur, fd, ret, aq, held,
                   buffer, err>>

(* ... and the first pending DWPT in it whose lock is free is the result:  *)
(* it is checked out if it is still registered, else nothing is returned.  *)
(* Nobody else can check it out while its lock is held, so the lock, the   *)
(* check and the unlock are one step.                                      *)
ScanPool(p) ==
    /\ pc[p] = "scan"
    /\ \/ /\ todo[p] = {}
          /\ Goto(p, ret[p])
          /\ UNCHANGED <<inner, fd, todo>>
       \/ \E d \in todo[p] :
            IF d \in inner.pending /\ owner[d] = None
            THEN /\ todo' = [todo EXCEPT ![p] = {}]
                 /\ IF d \in inner.reg
                    THEN /\ inner' = CheckOutForFlush(inner, d)
                         /\ fd' = [fd EXCEPT ![p] = d]
                         /\ Goto(p, "ticket")
                    ELSE /\ Goto(p, ret[p])
                         /\ UNCHANGED <<inner, fd>>
            ELSE /\ todo' = [todo EXCEPT ![p] = @ \ {d}]
                 /\ UNCHANGED <<inner, fd, pc>>
    /\ UNCHANGED <<writer, owner, deletes, cur, ret, aq, held, buffer, err>>

(* flush_one_dwpt: maybe_flush, and when that finds nothing ...            *)
FlushOneDwpt(t) ==
    /\ pc[t] = "idle" /\ "flushOne" \in Programs /\ calls < MaxCalls
    /\ calls' = calls + 1
    /\ ret' = [ret EXCEPT ![t] = "largest"]
    /\ Goto(t, "next")
    /\ UNCHANGED <<inner, gen, queue, docs, aborted, flushed, owner, guard,
                   permits, closed, deletes, sealed, budget,
                   fails, cur, fd, aq, sweep>>

(* ... checkout_largest_non_pending_writer: choose the DWPT ...            *)
FindLargest(t) ==
    /\ pc[t] = "largest"
    /\ LET big == LargestNonPending(inner)
       IN  IF big = {} THEN Goto(t, "idle") /\ UNCHANGED cur
           ELSE \E d \in big : /\ cur' = [cur EXCEPT ![t] = d]
                               /\ Goto(t, "lockLargest")
    /\ UNCHANGED <<inner, writer, owner, deletes, fd, ret, aq, sweep>>

(* ... wait for its lock, and check it out if it is still registered.      *)
CheckoutLargest(t) ==
    /\ pc[t] = "lockLargest" /\ owner[cur[t]] = None
    /\ LET d == cur[t]
           c == IF d \in inner.reg
                THEN Checkout(inner, d, d \notin inner.pending)
                ELSE <<inner, None>>
       IN  /\ inner' = IF d \in inner.reg THEN UpdateStall(c[1]) ELSE inner
           /\ fd' = [fd EXCEPT ![t] = c[2]]
           /\ Goto(t, IF c[2] = None THEN "idle" ELSE "ticket")
    /\ cur' = [cur EXCEPT ![t] = None]
    /\ ret' = [ret EXCEPT ![t] = "idle"]
    /\ UNCHANGED <<writer, owner, deletes, aq, sweep>>

-----------------------------------------------------------------------------
(* Mutant: only the idle DWPTs are counted.                                *)
PendingOpsFree(s) == Cardinality(s.free)

(* The operations that may be in flight when the queue is advanced: one    *)
(* for each DWPT of the pool.                                              *)
PendingOps(s) == Cardinality(s.reg)

(* flush_all_threads and the first section of mark_for_full_flush: under   *)
(* the monitor and the mutex, with new writers locked out, the queue is    *)
(* advanced with room for one operation per registered DWPT.  The DWPTs of *)
(* the old queue are what filter_and_lock will visit.                      *)
MarkForFullFlush ==
    /\ pc[Flusher] = "idle" /\ "fullFlush" \in Programs
    /\ gen < MaxGen /\ guard = None /\ ~closed
    /\ guard' = Flusher
    /\ inner' = [inner EXCEPT !.fullFlush = TRUE]
    /\ gen' = gen + 1
    /\ budget' = PendingOps(inner)
    /\ todo' = [todo EXCEPT ![Flusher] = {d \in inner.reg : queue[d] = gen}]
    /\ ret' = [ret EXCEPT ![Flusher] = "mark"]
    /\ buffer' = <<>> /\ err' = FALSE
    /\ Goto(Flusher, "lock")
    /\ UNCHANGED <<queue, docs, aborted, flushed, owner, permits, closed,
                   deletes, sealed, calls, fails, cur, fd, aq,
                   held>>

(* filter_and_lock: wait for one DWPT after the other, keep the registered *)
(* ones locked.                                                            *)
FilterAndLock(p) ==
    /\ pc[p] = "lock"
    /\ IF todo[p] = {}
       THEN Goto(p, ret[p]) /\ UNCHANGED <<todo, held, owner>>
       ELSE \E d \in todo[p] :
              /\ owner[d] = None
              /\ todo' = [todo EXCEPT ![p] = @ \ {d}]
              /\ IF d \in inner.reg
                 THEN /\ owner' = [owner EXCEPT ![d] = p]
                      /\ held' = [held EXCEPT ![p] = @ \cup {d}]
                 ELSE UNCHANGED <<owner, held>>
              /\ UNCHANGED pc
    /\ UNCHANGED <<inner, writer, deletes, cur, fd, ret, aq, buffer, err>>

(* The loop of mark_for_full_flush: check a locked DWPT out for the flush, *)
(* or drop it when it is empty, and unlock it.                             *)
MarkDwpt ==
    /\ pc[Flusher] = "mark"
    /\ \E d \in held[Flusher] :
         /\ IF docs[d] > 0
            THEN LET s == IF d \in inner.pending THEN inner
                          ELSE SetFlushPending(inner, d)
                 IN  /\ inner' = CheckOutForFlush(s, d)
                     /\ buffer' = Append(buffer, d)
            ELSE inner' = Unregister(inner, d) /\ UNCHANGED buffer
         /\ owner' = [owner EXCEPT ![d] = None]
         /\ held' = [held EXCEPT ![Flusher] = @ \ {d}]
    /\ UNCHANGED <<writer, deletes, pc, cur, fd, todo, ret, aq, err>>

(* Mutant: what was blocked on the old queue stays blocked.                *)
MarkDoneNoPrune ==
    /\ pc[Flusher] = "mark" /\ held[Flusher] = {}
    /\ inner' = [UpdateStall([inner EXCEPT !.flushQueue = @ \o buffer])
                 EXCEPT !.markDone = TRUE]
    /\ buffer' = <<>>
    /\ Goto(Flusher, "session")
    /\ UNCHANGED <<writer, owner, deletes, cur, fd, todo, held, ret, aq, err>>

(* Its last section: what was blocked on the old queue, and the buffer,    *)
(* become flushable; the mark phase is over.                               *)
MarkDone ==
    /\ pc[Flusher] = "mark" /\ held[Flusher] = {}
    /\ LET s == PruneBlocked(inner, gen - 1)
       IN  inner' = [UpdateStall([s EXCEPT !.flushQueue = @ \o buffer])
                     EXCEPT !.markDone = TRUE]
    /\ buffer' = <<>>
    /\ Goto(Flusher, "session")
    /\ UNCHANGED <<writer, owner, deletes, cur, fd, todo, held, ret, aq, err>>

(* The monitor is released; maybe_flush.  The queue that is flushed, kept  *)
(* for an assertion, is always the previous one.                           *)
SetFlushingQueue ==
    /\ pc[Flusher] = "session"
    /\ guard' = None
    /\ ret' = [ret EXCEPT ![Flusher] = "wait"]
    /\ Goto(Flusher, "next")
    /\ UNCHANGED <<inner, gen, queue, docs, aborted, flushed, owner, permits,
                   closed, deletes, sealed, budget, calls, fails, cur,
                   fd, aq, sweep>>

(* Mutant: a full flush does not wait for the flushes of other threads.    *)
WaitForFlushNot(p) ==
    /\ pc[p] \in {"wait", "abortWait"}
    /\ IF pc[p] = "wait"
       THEN Goto(p, "close") /\ UNCHANGED guard
       ELSE Goto(p, "unlockAll") /\ guard' = None
    /\ UNCHANGED <<inner, gen, queue, docs, aborted, flushed, owner, permits,
                   closed, deletes, sealed, budget, calls,
                   fails, cur, fd, ret, aq, sweep>>

(* wait_for_flush, by a full flush, or by one of the two aborts, which     *)
(* then release the monitor.                                               *)
WaitForFlush(p) ==
    /\ pc[p] \in {"wait", "abortWait"}
    /\ inner.flushing = {}
    /\ IF pc[p] = "wait"
       THEN Goto(p, "close") /\ UNCHANGED guard
       ELSE Goto(p, "unlockAll") /\ guard' = None
    /\ UNCHANGED <<inner, gen, queue, docs, aborted, flushed, owner, permits,
                   closed, deletes, sealed, budget, calls,
                   fails, cur, fd, ret, aq, sweep>>

(* The end of flush_all_threads: a ticket for deletes nothing has frozen   *)
(* yet, unless an error came first, and the old queue is closed.           *)
CloseQueue ==
    /\ pc[Flusher] = "close"
    /\ sealed' = sealed \cup {gen - 1}
    /\ Goto(Flusher, "finish")
    /\ UNCHANGED <<inner, gen, queue, docs, aborted, flushed, owner, guard,
                   permits, closed, deletes, budget, calls, fails,
                   cur, fd, ret, aq, sweep>>

(* abort_pending_flushes: drop what is queued or blocked.                  *)
Queued(s) == ToSet(s.flushQueue) \cup ToSet(s.blocked)

AbortPending(s) ==
    LET dead == Queued(s)
    IN  UpdateStall([s EXCEPT !.flushing = @ \ dead,
                              !.flushBytes = @ - MapThenSumSet(
                                        LAMBDA d : s.committed[d], dead),
                              !.flushQueue = <<>>, !.blocked = <<>>])

(* finish_full_flush: on success the flushes blocked meanwhile are queued, *)
(* otherwise (abort_full_flushes) everything queued is dropped; then       *)
(* apply_all_deletes, which the full flush has held up.                    *)
FinishFullFlush ==
    /\ pc[Flusher] = "finish"
    /\ LET s == IF err THEN AbortPending(inner) ELSE PruneBlocked(inner, gen)
           t == [s EXCEPT !.fullFlush = FALSE, !.markDone = FALSE]
       IN  inner' = IF err THEN t ELSE UpdateStall(t)
    /\ aborted' = IF err THEN aborted \cup Queued(inner) ELSE aborted
    /\ ret' = [ret EXCEPT ![Flusher] = "idle"]
    /\ Goto(Flusher, "post")
    /\ UNCHANGED <<gen, queue, docs, flushed, owner, guard, permits, closed,
                   deletes, sealed, budget, calls, fails, cur, fd, aq,
                   sweep>>

-----------------------------------------------------------------------------
(* lock_and_abort_all, for delete_all: under the monitor, new writers are  *)
(* locked out and every registered DWPT is to be locked.                   *)
LockAndAbortAll ==
    /\ pc[Flusher] = "idle" /\ "deleteAll" \in Programs /\ calls < MaxCalls
    /\ guard = None /\ ~closed
    /\ calls' = calls + 1
    /\ guard' = Flusher /\ permits' = TRUE
    /\ todo' = [todo EXCEPT ![Flusher] = inner.reg]
    /\ ret' = [ret EXCEPT ![Flusher] = "abortAll"]
    /\ Goto(Flusher, "lock")
    /\ UNCHANGED <<inner, gen, queue, docs, aborted, flushed, owner, closed,
                   deletes, sealed, budget, fails, cur, fd,
                   aq, held, buffer, err>>

(* rollback: close DocumentsWriter, its flush control and the pool ...     *)
CloseWriter ==
    /\ pc[Closer] = "idle" /\ "rollback" \in Programs /\ ~closed
    /\ closed' = TRUE
    /\ Goto(Closer, "rollback")
    /\ UNCHANGED <<inner, gen, queue, docs, aborted, flushed, owner, guard,
                   permits, deletes, sealed, budget, calls,
                   fails, cur, fd, ret, aq, sweep>>

(* ... and abort: under the monitor, every registered DWPT is locked.      *)
AbortWriter ==
    /\ pc[Closer] = "rollback" /\ guard = None
    /\ guard' = Closer
    /\ todo' = [todo EXCEPT ![Closer] = inner.reg]
    /\ ret' = [ret EXCEPT ![Closer] = "abortAll"]
    /\ Goto(Closer, "lock")
    /\ UNCHANGED <<inner, gen, queue, docs, aborted, flushed, owner, permits,
                   closed, deletes, sealed, budget, calls,
                   fails, cur, fd, aq, held, buffer, err>>

(* abort_documents_writer_per_thread: discard one locked DWPT.  abort      *)
(* unlocks it at once, lock_and_abort_all keeps it locked to the end.      *)
AbortDwpt(p) ==
    /\ pc[p] = "abortAll"
    /\ \E d \in held[p] \ aborted :
         /\ aborted' = aborted \cup {d}
         /\ inner' = DoOnAbort(inner, d)
         /\ IF p = Closer
            THEN /\ owner' = [owner EXCEPT ![d] = None]
                 /\ held' = [held EXCEPT ![p] = @ \ {d}]
            ELSE UNCHANGED <<owner, held>>
    /\ UNCHANGED <<gen, queue, docs, flushed, guard, permits, closed, deletes,
                   sealed, budget, calls, fails, pc, cur, fd,
                   todo, ret, aq, buffer, err>>

(* abort_pending_flushes.                                                  *)
AbortPendingFlushes(p) ==
    /\ pc[p] = "abortAll" /\ held[p] \subseteq aborted
    /\ aborted' = aborted \cup Queued(inner)
    /\ inner' = AbortPending(inner)
    /\ Goto(p, "abortWait")
    /\ UNCHANGED <<gen, queue, docs, flushed, owner, guard, permits, closed,
                   deletes, sealed, budget, calls, fails, cur,
                   fd, ret, aq, sweep>>

(* After a delete_all its guard object unlocks the DWPTs and lets new      *)
(* writers in.                                                             *)
UnlockAll(p) ==
    /\ pc[p] = "unlockAll"
    /\ owner' = [d \in Dwpts |-> IF d \in held[p] THEN None ELSE owner[d]]
    /\ held' = [held EXCEPT ![p] = {}]
    /\ permits' = IF p = Flusher THEN FALSE ELSE permits
    /\ Goto(p, "idle")
    /\ UNCHANGED <<inner, gen, queue, docs, aborted, flushed, guard, closed,
                   deletes, sealed, budget, calls, fails, cur,
                   fd, todo, ret, aq, buffer, err>>

(* The bounds are used up and every call has returned.                     *)
Finished ==
    /\ \A p \in Procs : pc[p] = "idle" \/ (pc[p] = "new" /\ None \notin {queue[d] : d \in Dwpts})
    /\ UNCHANGED vars

Update(t) ==
    \/ StartUpdate(t) \/ RetryUpdate(t) \/ Poll(t) \/ NewWriter(t)
    \/ CheckQueue(t) \/ IndexDocument(t) \/ AbortedDocument(t)
    \/ DoAfterDocument(t) \/ Release(t) \/ DeleteDocuments(t)
    \/ FlushOneDwpt(t) \/ FindLargest(t) \/ CheckoutLargest(t)

Flush(p) ==
    \/ PostUpdate(p) \/ ApplyAllDeletes(p) \/ FreezeDeletes(p)
    \/ AddTicket(p) \/ FlushDwpt(p) \/ NextPendingFlush(p) \/ IteratePool(p)
    \/ ScanPool(p)

Sweep(p) ==
    \/ FilterAndLock(p) \/ WaitForFlush(p) \/ AbortDwpt(p)
    \/ AbortPendingFlushes(p) \/ UnlockAll(p)

FullFlush ==
    \/ MarkForFullFlush \/ MarkDwpt \/ MarkDone \/ SetFlushingQueue
    \/ CloseQueue \/ FinishFullFlush \/ LockAndAbortAll

Next ==
    \/ \E t \in Threads : Update(t)
    \/ \E p \in Procs : Flush(p)
    \/ \E p \in {Flusher, Closer} : Sweep(p)
    \/ FullFlush \/ CloseWriter \/ AbortWriter
    \/ Finished

Spec == Init /\ [][Next]_vars

(* A call that has begun takes its next step when that stays possible: the *)
(* scheduler runs every thread, and mutex or lock waits end once the       *)
(* holder lets go.  No thread is assumed to begin another call.            *)
Fairness ==
    /\ \A t \in Threads : WF_vars(Update(t) /\ pc[t] # "idle")
    /\ \A p \in Procs : WF_vars(Flush(p))
    /\ \A p \in {Flusher, Closer} : WF_vars(Sweep(p))
    /\ WF_vars(FullFlush /\ pc[Flusher] # "idle")
    /\ WF_vars(AbortWriter)

FairSpec == Spec /\ Fairness

-----------------------------------------------------------------------------
Bytes(S) == MapThenSumSet(LAMBDA d : inner.committed[d], S)

(* The byte accounts of the flush control agree with the writers: active   *)
(* bytes are those of the registered writers not marked pending, flush     *)
(* bytes those of the marked, blocked and flushing ones, however the marks *)
(* set by other threads, the blocking, the aborts and the flushes          *)
(* interleave; and no pending writer is missing from num_pending, or       *)
(* next_pending_flush would not look for it.                               *)
Accounting ==
    /\ inner.active = Bytes(inner.reg \ inner.pending)
    /\ inner.flushBytes = Bytes((inner.reg \cap inner.pending)
                             \cup ToSet(inner.blocked) \cup inner.flushing)
    /\ inner.numPending >= Cardinality(inner.reg \cap inner.pending)

(* A writer with documents is never dropped: until it is flushed or        *)
(* discarded it is in the pool, queued, blocked, in the mark buffer, or in *)
(* the hands of exactly one process that will flush it.                    *)
NothingLost ==
    /\ \A d \in Dwpts :
         docs[d] > 0 /\ d \notin flushed \cup aborted =>
            \/ d \in inner.reg \cup Queued(inner) \cup ToSet(buffer)
            \/ \E p \in Procs : fd[p] = d
    /\ \A p, r \in Procs : p # r /\ fd[p] # None =>
            fd[p] # fd[r] /\ fd[p] \notin inner.reg \cup Queued(inner) \cup flushed

(* The generation rules that obtain_and_lock, mark_for_full_flush and      *)
(* finish_full_flush assert: a writer of an older queue is met only during *)
(* the mark phase, after it every registered writer is on the new queue,   *)
(* and blocked flushes belong to the new queue, or to the old one while    *)
(* the mark phase lasts.                                                   *)
MarkPhase ==
    /\ \A t \in Threads : pc[t] = "check" /\ queue[cur[t]] # gen =>
            inner.fullFlush /\ ~inner.markDone
    /\ ~(inner.fullFlush /\ ~inner.markDone) => \A d \in inner.reg : queue[d] = gen
    /\ \A d \in ToSet(inner.blocked) :
            queue[d] = gen \/ (queue[d] = gen - 1 /\ ~inner.markDone)

(* advance_queue leaves room for as many operations as there are           *)
(* registered writers; the operations in flight never use more, so the     *)
(* sequence numbers of the two queues stay apart.                          *)
GapSuffices == budget >= 0

(* When a full flush has succeeded every document indexed through the old  *)
(* queue is in a flushed segment (or was discarded by an abort).           *)
FullFlushComplete ==
    pc[Flusher] \in {"close", "finish"} /\ ~err =>
        \A d \in Dwpts : queue[d] # None /\ docs[d] > 0 /\ queue[d] # gen =>
                            d \in flushed \cup aborted

(* What DocumentsWriter::abort asserts when it is done: no writer is left  *)
(* in the pool and no bytes are accounted for.                             *)
AbortLeavesNothing ==
    pc[Closer] = "unlockAll" =>
        inner.reg = {} /\ inner.active = 0 /\ inner.flushBytes = 0

(* While a full flush runs no process gets hold of a writer of the new     *)
(* queue to flush it, whoever marks it pending: its ticket would come      *)
(* before those of the old queue.  This is what blocking a checkout and    *)
(* releasing the blocked ones are for.  The search of next_pending_flush   *)
(* is not covered: it runs on a value of full_flush that may be stale.     *)
NewQueueBlocked ==
    [][\A p \in Procs :
         fd'[p] \notin {None, fd[p]} /\ inner.fullFlush /\ pc[p] # "scan" =>
            queue[fd'[p]] # gen]_vars

(* Every full flush, delete-all and rollback comes to its end.             *)
SweepsEnd ==
    \A p \in {Flusher, Closer} : (pc[p] # "idle") ~> (pc[p] = "idle")

(* A thread held up by the stall control goes on: what makes it stall is   *)
(* flushed in the end, if need be by the stalled thread itself.  The call  *)
(* ends early only when such a flush fails.                                *)
StalledGoOn ==
    \A t \in Threads : (pc[t] = "pre") ~> (pc[t] \in {"poll", "idle"})
=============================================================================
