----------------------------- MODULE FlushQueue -----------------------------
(***************************************************************************)
(* DocumentsWriterFlushQueue: the tickets of flushes on their way to       *)
(* publication, and DocumentsWriter::any_changes, which must find every    *)
(* change on that way.                                                     *)
(*                                                                         *)
(* A flush freezes the global deletes and queues a ticket in one critical  *)
(* section of the queue's mutex, writes its segment and completes the      *)
(* ticket.  Whoever holds the purge lock publishes completed tickets from  *)
(* the head of the queue, without the mutex while it publishes.  Tickets   *)
(* are named by the order in which they were frozen.                       *)
(***************************************************************************)
EXTENDS Naturals, Sequences

CONSTANTS
  Threads,     \* threads that index, delete, flush and purge
  NoThread,    \* the holder of a free lock
  MaxTickets   \* bound: tickets

ASSUME ConstantsAssumption == NoThread \notin Threads /\ MaxTickets \in Nat

VARIABLES
  pc,         \* [Threads -> control state]
  mine,       \* [Threads -> the ticket of the thread's flush]
  due,        \* [Threads -> a forced purge must publish the tickets up to here]
  inner,      \* holder of the queue's mutex between two steps
  purge,      \* holder of purge_lock
  queue,      \* the queue of tickets
  value,      \* the state of each ticket; "none", "gone": not in the map
  count,      \* ticket_count
  frozen,     \* tickets frozen so far
  published,  \* tickets given to the consumer, in that order
  lost,       \* tickets the consumer failed on
  ram,        \* threads whose documents are in num_docs_in_ram
  dels,       \* the delete queue has changes
  reader      \* a call of any_changes

threadVars == <<pc, mine, due>>
ticketVars == <<queue, value, count>>
history == <<frozen, published, lost>>
changes == <<ram, dels>>
vars == <<threadVars, inner, purge, ticketVars, history, changes, reader>>

Tickets == 1..MaxTickets
Publishable == {"deletes", "segment", "failed"}

(* Tickets whose flush has ended, published or not.                        *)
Ready == {k \in Tickets : value[k] \in Publishable \cup {"gone"}}

NoReader == [at |-> "idle", had |-> FALSE, any |-> FALSE]

Init ==
  /\ pc = [t \in Threads |-> "idle"]
  /\ mine = [t \in Threads |-> 0]
  /\ due = [t \in Threads |-> 0]
  /\ inner = NoThread
  /\ purge = NoThread
  /\ queue = <<>>
  /\ value = [k \in Tickets |-> "none"]
  /\ count = 0
  /\ frozen = 0
  /\ published = <<>>
  /\ lost = {}
  /\ ram = {}
  /\ dels = FALSE
  /\ reader = NoReader

Go(t, from, to) == pc[t] = from /\ pc' = [pc EXCEPT ![t] = to]

Forget(t) == mine' = [mine EXCEPT ![t] = 0]

(***************************************************************************)
(* Changes before they are flushed.                                        *)
(***************************************************************************)
AddDocument(t) ==
  /\ pc[t] = "idle"
  /\ ram' = ram \cup {t}
  /\ UNCHANGED <<threadVars, inner, purge, ticketVars, history, dels, reader>>

DeleteTerms ==
  /\ dels' = TRUE
  /\ UNCHANGED <<threadVars, inner, purge, ticketVars, history, ram, reader>>

(***************************************************************************)
(* add_ticket: the mutex is held from the first to the last step.  A       *)
(* flush always gets a ticket, deletes alone only when there are some.     *)
(***************************************************************************)
(* Mutant: the mutex is taken only to push the ticket.                     *)
inc_unlocked(t, to) ==
  /\ frozen < MaxTickets
  /\ Go(t, "idle", to)
  /\ count' = count + 1
  /\ UNCHANGED <<mine, due, inner, purge, queue, value, history, changes, reader>>

inc_tickets(t, to) ==
  /\ frozen < MaxTickets
  /\ Go(t, "idle", to)
  /\ inner = NoThread
  /\ inner' = t
  /\ count' = count + 1
  /\ UNCHANGED <<mine, due, purge, queue, value, history, changes, reader>>

add_flush_ticket(t) == t \in ram /\ inc_tickets(t, "freezeFlush")

add_deletes_ticket(t) == inc_tickets(t, "freezeDeletes")

Freeze(t, from, to) ==
  /\ Go(t, from, to)
  /\ frozen' = frozen + 1
  /\ mine' = [mine EXCEPT ![t] = frozen']
  /\ dels' = FALSE
  /\ UNCHANGED <<due, inner, purge, ticketVars, published, lost, ram, reader>>

prepare_flush(t) == Freeze(t, "freezeFlush", "pushFlush")

maybe_freeze_global_buffer(t) == dels /\ Freeze(t, "freezeDeletes", "pushDeletes")

(* No ticket: nothing to freeze, or the supplier failed.                   *)
dec_tickets(t) ==
  /\ \/ Go(t, "freezeDeletes", "idle") /\ ~dels
     \/ Go(t, "freezeFlush", "idle")
  /\ count' = count - 1
  /\ inner' = NoThread
  /\ UNCHANGED <<mine, due, purge, queue, value, history, changes, reader>>

Push(t, from, to, state) ==
  /\ Go(t, from, to)
  /\ queue' = Append(queue, mine[t])
  /\ value' = [value EXCEPT ![mine[t]] = state]
  /\ inner' = NoThread
  /\ UNCHANGED <<due, purge, count, history, changes, reader>>

push_ticket(t) ==
  \/ Push(t, "pushFlush", "flush", "open") /\ mine' = mine
  \/ Push(t, "pushDeletes", "idle", "deletes") /\ Forget(t)

(***************************************************************************)
(* The flush itself.  Its documents leave num_docs_in_ram once the segment *)
(* is in the ticket, or before the ticket is marked as failed.             *)
(***************************************************************************)
Complete(t, state) ==
  /\ inner = NoThread
  /\ value' = [value EXCEPT ![mine[t]] = state]
  /\ Forget(t)
  /\ UNCHANGED <<due, inner, purge, queue, count, history, changes, reader>>

add_segment(t) == Go(t, "flush", "subtract") /\ Complete(t, "segment")

flush_failed(t) ==
  /\ Go(t, "flush", "subtractFailed")
  /\ UNCHANGED <<mine, due, inner, purge, ticketVars, history, changes, reader>>

subtract_flushed_num_docs(t) ==
  /\ Go(t, "subtract", "idle") \/ Go(t, "subtractFailed", "mark")
  /\ ram' = ram \ {t}
  /\ UNCHANGED <<mine, due, inner, purge, ticketVars, history, dels, reader>>

mark_ticket_failed(t) == Go(t, "mark", "idle") /\ Complete(t, "failed")

(***************************************************************************)
(* inner_purge, under purge_lock.                                          *)
(***************************************************************************)
try_purge(t) ==
  /\ Go(t, "idle", "take")
  /\ purge = NoThread
  /\ purge' = t
  /\ UNCHANGED <<mine, due, inner, ticketVars, history, changes, reader>>

(* Tickets up to n are complete when the forced purge is called.           *)
force_purge(t, n) ==
  /\ Go(t, "idle", "wait")
  /\ 1..n \subseteq Ready
  /\ due' = [due EXCEPT ![t] = n]
  /\ UNCHANGED <<mine, inner, purge, ticketVars, history, changes, reader>>

lock_purge(t) ==
  /\ Go(t, "wait", "take")
  /\ purge = NoThread
  /\ purge' = t
  /\ UNCHANGED <<mine, due, inner, ticketVars, history, changes, reader>>

(* Mutant: a ticket is taken before its flush has ended.                   *)
can_always_publish == queue # <<>>

can_publish == queue # <<>> /\ value[Head(queue)] \in Publishable

(* The ticket leaves the map, its name stays at the head of the queue.     *)
take_head(t) ==
  /\ inner = NoThread
  /\ can_publish
  /\ Go(t, "take", "publish")
  /\ value' = [value EXCEPT ![Head(queue)] = "gone"]
  /\ mine' = [mine EXCEPT ![t] = Head(queue)]
  /\ UNCHANGED <<due, inner, purge, queue, count, history, changes, reader>>

(* The consumer takes the IndexWriter lock.  Its error is returned after   *)
(* the ticket has left the queue.                                          *)
Consume(t, to, L) ==
  /\ reader.at = "idle"
  /\ Go(t, "publish", to)
  /\ published' = Append(published, mine[t])
  /\ lost' = lost \cup L
  /\ UNCHANGED <<mine, due, inner, purge, ticketVars, frozen, changes, reader>>

publish(t) == Consume(t, "pop", {}) \/ Consume(t, "popFailed", {mine[t]})

(* Mutant: a purge publishes one ticket only.                              *)
pop_once(t) ==
  /\ inner = NoThread
  /\ Go(t, "pop", "leave") \/ Go(t, "popFailed", "leave")
  /\ queue' = Tail(queue)
  /\ count' = count - 1
  /\ Forget(t)
  /\ UNCHANGED <<due, inner, purge, value, history, changes, reader>>

pop_ticket(t) ==
  /\ inner = NoThread
  /\ \/ Go(t, "pop", "take") /\ due' = due
     \/ Go(t, "popFailed", "leave") /\ due' = [due EXCEPT ![t] = 0]
  /\ queue' = Tail(queue)
  /\ count' = count - 1
  /\ Forget(t)
  /\ UNCHANGED <<inner, purge, value, history, changes, reader>>

(* The head is not ready: the loop ends, the lock is still held.           *)
purge_ends(t) ==
  /\ inner = NoThread
  /\ ~can_publish
  /\ Go(t, "take", "leave")
  /\ UNCHANGED <<mine, due, inner, purge, ticketVars, history, changes, reader>>

unlock_purge(t) ==
  /\ Go(t, "leave", "idle")
  /\ purge' = NoThread
  /\ due' = [due EXCEPT ![t] = 0]
  /\ UNCHANGED <<mine, inner, ticketVars, history, changes, reader>>

(***************************************************************************)
(* any_changes, called with the IndexWriter lock held (nrt_is_current),    *)
(* reads one counter after the other.                                      *)
(***************************************************************************)
Unpublished ==
  \/ \E t \in ram : pc[t] # "subtract"
  \/ dels
  \/ frozen > Len(published)

any_changes ==
  /\ reader.at = "idle"
  /\ reader' = [at |-> "docs", had |-> Unpublished, any |-> FALSE]
  /\ UNCHANGED <<threadVars, inner, purge, ticketVars, history, changes>>

Read(at, next, found) ==
  /\ reader.at = at
  /\ reader' = [reader EXCEPT !.at = next, !.any = @ \/ found]
  /\ UNCHANGED <<threadVars, inner, purge, ticketVars, history, changes>>

(* Mutant: the tickets are looked at before the deletes.                   *)
read_tickets_first ==
  \/ Read("docs", "tickets", ram # {})
  \/ Read("tickets", "deletions", count # 0)
  \/ Read("deletions", "return", dels)

read_changes ==
  \/ Read("docs", "deletions", ram # {})
  \/ Read("deletions", "tickets", dels)
  \/ Read("tickets", "return", count # 0)

return_changes ==
  /\ reader.at = "return"
  /\ reader' = NoReader
  /\ UNCHANGED <<threadVars, inner, purge, ticketVars, history, changes>>

AddTicket(t) ==
  \/ add_flush_ticket(t) \/ add_deletes_ticket(t) \/ prepare_flush(t)
  \/ maybe_freeze_global_buffer(t) \/ dec_tickets(t) \/ push_ticket(t)

Flush(t) ==
  \/ add_segment(t) \/ flush_failed(t) \/ subtract_flushed_num_docs(t)
  \/ mark_ticket_failed(t)

Purge(t) ==
  \/ try_purge(t) \/ lock_purge(t) \/ take_head(t) \/ publish(t) \/ pop_ticket(t)
  \/ purge_ends(t) \/ unlock_purge(t)
  \/ \E n \in 0..MaxTickets : force_purge(t, n)

Next ==
  \/ \E t \in Threads : AddDocument(t) \/ AddTicket(t) \/ Flush(t) \/ Purge(t)
  \/ DeleteTerms
  \/ any_changes
  \/ read_changes
  \/ return_changes

Spec == Init /\ [][Next]_vars

-----------------------------------------------------------------------------
(***************************************************************************)
(* Properties.                                                             *)
(***************************************************************************)
Abstract == INSTANCE OrderedPublication WITH ready <- Ready

(* Tickets are published in the order in which their deletes were frozen,  *)
(* each once and none before its flush ended ("otherwise the deletes       *)
(* frozen by 'B' are not applied to 'A'", DocumentsWriter::do_flush):      *)
(* delete generations follow the order of freezing.                        *)
InOrder == Abstract!Spec

(* A flush finds its ticket in the map when it completes it, and a purge   *)
(* finds the ticket it published at the head of the queue (the errors of   *)
(* add_segment and mark_ticket_failed, the assertion in inner_purge).      *)
TicketsFound ==
  /\ \A t \in Threads :
       pc[t] \in {"flush", "subtractFailed", "mark"} => value[mine[t]] = "open"
  /\ \A t \in Threads :
       pc[t] \in {"publish", "pop", "popFailed"} =>
         queue # <<>> /\ Head(queue) = mine[t]

(* When a forced purge ends without an error, every ticket is published    *)
(* that was complete, with all tickets before it, when it was called.      *)
(* A full flush relies on it.                                              *)
DueIsPublished ==
  \A t \in Threads : pc[t] = "leave" => Len(published) >= due[t]

(* any_changes never misses a change that was buffered, frozen or queued   *)
(* when it was called, although it reads the counters one by one           *)
(* (the comment "freezing opens a window", add_ticket).                    *)
ChangesFound ==
  reader.at = "return" /\ reader.had => reader.any
=============================================================================
