----------------------------- MODULE WriterLocks -----------------------------
(***************************************************************************)
(* The order in which the public methods of IndexWriter take the mutexes   *)
(* of the indexing chain.  A call is the sequence of lock and unlock steps *)
(* its code performs on its longest path; everything the call does between *)
(* two of them is abstracted away.                                         *)
(*                                                                         *)
(*   iw        IndexWriter.inner                                           *)
(*   fullFlush IndexWriter.full_flush_lock                                 *)
(*   stream    IndexWriter.buffered_updates_stream_lock                    *)
(*   guard     DocumentsWriter.guard                                       *)
(*   control   DocumentsWriterFlushControl.inner                           *)
(*   queue     DocumentsWriterFlushControl.delete_queue (the mutex around  *)
(*             the Arc, not the queue's own lock)                          *)
(*   pool      DocumentsWriterPerThreadPool.inner                          *)
(*   tickets   DocumentsWriterFlushQueue.inner                             *)
(*   purge     DocumentsWriterFlushQueue.purge_lock                        *)
(*   dwpt      the lock of a DWPT (DwptState::lock), and                   *)
(*   core      DwptWrapper.dwpt, the mutex around its content; one DWPT    *)
(*             stands for all, so that every two calls meet in it          *)
(*   commit    IndexWriter.commit_lock                                     *)
(*                                                                         *)
(* A thread that needs a new DWPT also waits until nobody has taken the    *)
(* writer permits; its condition variable releases the pool meanwhile.     *)
(* Waiting while stalled happens with no lock held, so it is in no cycle   *)
(* and is left out; FlushControl models it.                                *)
(*                                                                         *)
(* rollback closes the writer: calls that begin later are refused by       *)
(* ensure_open, and a call that is on its way to a new DWPT by the pool.   *)
(***************************************************************************)
EXTENDS Integers, Sequences

CONSTANTS Threads,      \* the application's threads
          Calls         \* the methods they call, a subset of AllCalls

Locks == {"iw", "fullFlush", "stream", "guard", "control", "queue", "pool",
          "tickets", "purge", "dwpt", "core", "commit"}

AllCalls == {"updateDocument", "newDocument", "deleteDocuments", "flush",
             "commit", "rollback", "addIndexes", "deleteAll", "tryDeleteDocument"}

VARIABLES call,     \* call[t]: the method thread t is in, "none" between calls
          pc,       \* pc[t]: index of the next lock step of that method
          holder,   \* holder[l]: {t} when t has locked l, {} when it is free
          permits,  \* the threads between lock_ and unlock_new_writers
          closed    \* what has been closed: the writer ("iw": its closing flag
                    \* is set under that lock) and the pool of DWPTs

vars == <<call, pc, holder, permits, closed>>

-----------------------------------------------------------------------------
(* Scripts.  In(l, body) is a guard of l whose scope is body; TryIn is the  *)
(* scope of a try_lock, skipped when the lock is taken.                     *)

Step(kind, l, n) == [kind |-> kind, lock |-> l, skip |-> n]

In(l, body) == <<Step("take", l, 0)>> \o body \o <<Step("drop", l, 0)>>

TryIn(l, body) ==
  <<Step("try", l, Len(body) + 2)>> \o body \o <<Step("drop", l, 0)>>

Touch(l) == In(l, <<>>)

(* The two callbacks into the IndexWriter that new_dwpt makes:             *)
(* get_index_major_version_created and new_segment_name.                   *)
NewDwpt == Touch("iw") \o Touch("iw")

(* DocumentsWriterPerThreadPool::new_writer, the pool's lock held from the *)
(* moment no permit is taken.                                              *)
NewWriter == <<Step("enter", "pool", 0)>> \o Touch("queue") \o NewDwpt
             \o <<Step("drop", "pool", 0)>>

(* lock_new_writers and unlock_new_writers                                 *)
LockNewWriters == In("pool", <<Step("deny", "pool", 0)>>)
UnlockNewWriters == In("pool", <<Step("allow", "pool", 0)>>)

(* DocumentsWriter::get_next_sequence_number *)
GetNextSequenceNumber == In("guard", Touch("queue"))

(* inner_purge: the head ticket is taken, published under the IndexWriter  *)
(* lock, and popped.                                                       *)
InnerPurge == Touch("tickets") \o Touch("iw") \o Touch("tickets")

(* do_after_document: the flush policy and the checkout look at the pool.  *)
DoAfterDocument == In("control", Touch("queue") \o Touch("pool"))

(* The release at the end of update_documents, which reads the writer's    *)
(* RAM under its mutex inside the flush control's lock.                    *)
Release == In("control", Touch("core") \o Touch("pool"))

(* do_flush of one checked out DWPT: a ticket, the flush, its bytes, and   *)
(* after_segments_flushed, which publishes what it can.                    *)
DoFlush ==
  In("core", Touch("tickets")) \o In("core", Touch("tickets"))
  \o Touch("pool") \o Touch("control") \o TryIn("purge", InnerPurge)

(* update_documents from the moment it has a DWPT from the free list ...   *)
UpdateDocument ==
  In("dwpt", Touch("queue") \o In("core", DoAfterDocument) \o Release)
  \o Touch("queue") \o Touch("control") \o Touch("tickets") \o DoFlush

(* ... and when it needs a new one.                                        *)
NewDocument == NewWriter \o UpdateDocument

(* apply_delete_or_update, with apply_all_deletes under the guard          *)
DeleteDocuments ==
  In("guard", Touch("queue") \o In("control", Touch("queue"))
              \o Touch("queue") \o Touch("control") \o Touch("tickets"))

(* mark_for_full_flush: the cut-over, the collection of the old queue's    *)
(* DWPTs, the marking of each, the pruning of the blocked flushes.         *)
MarkForFullFlush ==
  In("control", Touch("queue") \o LockNewWriters \o Touch("pool")
                \o Touch("queue") \o UnlockNewWriters)
  \o Touch("pool")
  \o In("dwpt", Touch("pool") \o In("core", In("control", Touch("pool"))))
  \o Touch("queue") \o Touch("control") \o Touch("queue") \o Touch("pool")

(* flush_all_threads and the forced publication of what it flushed         *)
FlushAllThreads ==
  In("guard", Touch("queue") \o Touch("queue") \o MarkForFullFlush)
  \o Touch("control") \o DoFlush \o Touch("tickets") \o In("purge", InnerPurge)

(* DocumentsWriter::finish_full_flush *)
FinishFullFlush == Touch("guard") \o Touch("control")

(* IndexWriter::do_flush; process_events runs under the full flush lock.   *)
Flush == In("fullFlush", FlushAllThreads \o FinishFullFlush \o Touch("iw"))
         \o Touch("iw")

(* commit: prepare_commit_internal clones the segment infos before it ends *)
(* the full flush; start_commit and finish_commit follow.                  *)
Commit ==
  In("commit",
     In("fullFlush", FlushAllThreads \o Touch("iw") \o Touch("iw")
                     \o FinishFullFlush)
     \o Touch("iw") \o Touch("iw"))

(* The sweep of filter_and_lock that aborts every DWPT                     *)
AbortAll ==
  Touch("pool")
  \o In("dwpt", Touch("pool") \o Touch("core") \o In("control", Touch("pool")))
  \o Touch("control")

(* should_close *)
ShouldClose == In("iw", <<Step("close", "iw", 0)>>)

(* DocumentsWriter::close: the flush control and then the pool are closed, *)
(* each under its own lock and before the guard is taken.                  *)
CloseDocumentsWriter == Touch("control") \o In("pool", <<Step("close", "pool", 0)>>)

(* rollback and rollback_internal_no_commit *)
Rollback ==
  ShouldClose
  \o In("commit",
        Touch("iw") \o CloseDocumentsWriter
        \o In("guard", Touch("queue") \o AbortAll) \o Touch("control")
        \o In("purge", InnerPurge) \o Touch("iw"))

(* The critical section that publishes the added segments *)
AddIndexes == In("iw", GetNextSequenceNumber)

(* lock_and_abort_all: with the guard, what is queued is purged (its       *)
(* consumer does not call the IndexWriter) and every DWPT is aborted.  The *)
(* DWPT locks are kept until the end of delete_all, but the abort has      *)
(* removed them from the pool, where alone another thread could find them. *)
(* The sequence numbers are skipped with the delete queue locked before    *)
(* the pool, the opposite of new_writer's order; the permits part the two. *)
LockAndAbortAll ==
  In("guard", In("purge", Touch("tickets")) \o Touch("queue")
              \o LockNewWriters \o AbortAll \o Touch("queue") \o In("queue", Touch("pool")))

DeleteAll ==
  In("fullFlush",
     LockAndAbortAll \o Touch("iw")
     \o In("iw", GetNextSequenceNumber) \o UnlockNewWriters)

(* try_modify_document *)
TryDeleteDocument == In("iw", In("stream", GetNextSequenceNumber))

Script == [updateDocument    |-> UpdateDocument,
           newDocument       |-> NewDocument,
           deleteDocuments   |-> DeleteDocuments,
           flush             |-> Flush,
           commit            |-> Commit,
           rollback          |-> Rollback,
           addIndexes        |-> AddIndexes,
           deleteAll         |-> DeleteAll,
           tryDeleteDocument |-> TryDeleteDocument]

-----------------------------------------------------------------------------
Init == /\ call = [t \in Threads |-> "none"]
        /\ pc = [t \in Threads |-> 0]
        /\ holder = [l \in Locks |-> {}]
        /\ permits = {}
        /\ closed = {}

InCall(t) == call[t] # "none"
At(t) == Script[call[t]][pc[t]]

(* ensure_open and, for rollback, should_close let a call in; a second     *)
(* rollback waits for the first one with no lock held.                     *)
Call(t, m) == /\ ~InCall(t)
              /\ "iw" \notin closed
              /\ m = "rollback" => \A u \in Threads : call[u] # "rollback"
              /\ call' = [call EXCEPT ![t] = m]
              /\ pc' = [pc EXCEPT ![t] = 1]
              /\ UNCHANGED <<holder, permits, closed>>

(* The next step of the script; after the last one the method returns.     *)
Advance(t, n) ==
  IF pc[t] + n > Len(Script[call[t]])
    THEN call' = [call EXCEPT ![t] = "none"] /\ pc' = [pc EXCEPT ![t] = 0]
    ELSE pc' = [pc EXCEPT ![t] = @ + n] /\ UNCHANGED call

Lock(t) == /\ InCall(t)
           /\ At(t).kind \in {"take", "try", "enter"}
           /\ holder[At(t).lock] = {}
           /\ At(t).kind = "enter" => permits = {} /\ At(t).lock \notin closed
           /\ holder' = [holder EXCEPT ![At(t).lock] = {t}]
           /\ UNCHANGED <<permits, closed>>
           /\ Advance(t, 1)

(* new_writer finds the pool closed: an error, and the pool's lock is let  *)
(* go at once.                                                             *)
Refused(t) == /\ InCall(t)
              /\ At(t).kind = "enter"
              /\ holder[At(t).lock] = {} /\ permits = {} /\ At(t).lock \in closed
              /\ call' = [call EXCEPT ![t] = "none"]
              /\ pc' = [pc EXCEPT ![t] = 0]
              /\ UNCHANGED <<holder, permits, closed>>

TryFails(t) == /\ InCall(t)
               /\ At(t).kind = "try" /\ holder[At(t).lock] # {}
               /\ UNCHANGED <<holder, permits, closed>>
               /\ Advance(t, At(t).skip)

Unlock(t) == /\ InCall(t)
             /\ At(t).kind = "drop"
             /\ holder' = [holder EXCEPT ![At(t).lock] = {}]
             /\ UNCHANGED <<permits, closed>>
             /\ Advance(t, 1)

Deny(t) == /\ InCall(t)
           /\ At(t).kind = "deny"
           /\ permits' = permits \cup {t}
           /\ UNCHANGED <<holder, closed>>
           /\ Advance(t, 1)

Allow(t) == /\ InCall(t)
            /\ At(t).kind = "allow"
            /\ permits' = permits \ {t}
            /\ UNCHANGED <<holder, closed>>
            /\ Advance(t, 1)

Close(t) == /\ InCall(t)
            /\ At(t).kind = "close"
            /\ closed' = closed \cup {At(t).lock}
            /\ UNCHANGED <<holder, permits>>
            /\ Advance(t, 1)

Move(t) == \/ Lock(t) \/ Refused(t) \/ TryFails(t) \/ Unlock(t)
           \/ Deny(t) \/ Allow(t) \/ Close(t)

Next == \E t \in Threads : Move(t) \/ \E m \in Calls : Call(t, m)

Spec == Init /\ [][Next]_vars

-----------------------------------------------------------------------------
WaitsFor(t, u) ==
  /\ InCall(t)
  /\ \/ At(t).kind \in {"take", "enter"} /\ u \in holder[At(t).lock]
     \/ At(t).kind = "enter" /\ u \in permits

(* No set of threads waits for itself: threads inside IndexWriter methods  *)
(* are never all blocked on mutexes or permits one of them has to release. *)
(* A thread that locked a mutex again (parking_lot mutexes are not         *)
(* re-entrant) is such a set on its own.                                   *)
NoCircularWait ==
  \A S \in SUBSET Threads \ {{}} : \E t \in S : \A u \in S : ~WaitsFor(t, u)
=============================================================================
