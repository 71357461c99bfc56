-------------------------- MODULE FlushQueueProofs --------------------------
(***************************************************************************)
(* The inductive invariant of FlushQueue, and the proof that the queue     *)
(* implements ordered publication for any threads and number of tickets.   *)
(***************************************************************************)
EXTENDS FlushQueue, TLAPS

Freezing == {"freezeFlush", "freezeDeletes"}
Pushing == {"pushFlush", "pushDeletes"}
Flushing == {"flush", "subtractFailed", "mark"}
Popping == {"pop", "popFailed"}
Purging == {"take", "publish", "leave"} \cup Popping
Control == {"idle", "subtract", "wait"} \cup Freezing \cup Pushing \cup Flushing
             \cup Purging
States == {"none", "open", "gone"} \cup Publishable

(* Types of all variables.                                                 *)
TypeOK ==
  /\ pc \in [Threads -> Control]
  /\ mine \in [Threads -> 0..MaxTickets]
  /\ due \in [Threads -> 0..MaxTickets]
  /\ inner \in Threads \cup {NoThread}
  /\ purge \in Threads \cup {NoThread}
  /\ queue \in Seq(Nat)
  /\ value \in [Tickets -> States]
  /\ count \in Nat
  /\ frozen \in 0..MaxTickets
  /\ published \in Seq(Nat)
  /\ ram \subseteq Threads
  /\ dels \in BOOLEAN
  /\ reader \in [at : {"idle", "docs", "deletions", "tickets", "return"},
                 had : BOOLEAN, any : BOOLEAN]

(* The locks are held exactly where the code holds them.                   *)
Locks ==
  \A t \in Threads :
    /\ pc[t] \in Freezing \cup Pushing <=> inner = t
    /\ pc[t] \in Purging <=> purge = t

(* Tickets in the queue's past: those that were pushed and those that were *)
(* popped.  At most the holder of a lock makes a difference.               *)
Pushed == IF inner # NoThread /\ pc[inner] \in Pushing THEN frozen - 1 ELSE frozen
Popped ==
  IF purge # NoThread /\ pc[purge] \in Popping THEN Len(published) - 1
                                               ELSE Len(published)

(* The sequence s is a+1, a+2, ..., b.                                     *)
Interval(s, a, b) == Len(s) = b - a /\ \A i \in 1..(b - a) : s[i] = a + i

Order ==
  /\ 0 <= Popped /\ Popped <= Pushed /\ Pushed <= frozen
  /\ Len(published) <= Pushed
  /\ Interval(published, 0, Len(published))
  /\ Interval(queue, Popped, Pushed)
  /\ count = Len(queue) + (IF inner = NoThread THEN 0 ELSE 1)

(* A ticket is in the map from when it is pushed until it is taken.        *)
Taken ==
  IF purge # NoThread /\ pc[purge] = "publish" THEN Len(published) + 1
                                               ELSE Len(published)
Map ==
  /\ Taken <= Pushed
  /\ \A k \in Tickets : /\ value[k] = "none" <=> k > Pushed
                        /\ value[k] = "gone" <=> k <= Taken

(* The tickets the threads work on.                                        *)
Mine ==
  /\ \A t \in Threads :
       /\ pc[t] \in Freezing => frozen < MaxTickets
       /\ pc[t] \in Pushing => mine[t] = frozen /\ frozen > 0
       /\ pc[t] \in Flushing => mine[t] \in Tickets /\ value[mine[t]] = "open"
       /\ pc[t] = "publish" => mine[t] = Taken
       /\ pc[t] \in Popping => mine[t] = Len(published)
  /\ \A t, u \in Threads :
       pc[t] \in Flushing /\ pc[u] \in Flushing /\ mine[t] = mine[u] => t = u

Dues ==
  \A t \in Threads :
    /\ 1..due[t] \subseteq Ready
    /\ pc[t] = "leave" => Len(published) >= due[t]

(* What any_changes has not seen yet is still to be seen.                  *)
Seen ==
  reader.had /\ ~reader.any =>
    /\ reader.at = "docs" => Unpublished
    /\ reader.at = "deletions" => dels \/ frozen > Len(published)
    /\ reader.at = "tickets" => frozen > Len(published)
    /\ reader.at # "return"

IInv == TypeOK /\ Locks /\ Order /\ Map /\ Mine /\ Dues /\ Seen
-----------------------------------------------------------------------------
(***************************************************************************)
(* Sequences of consecutive numbers.                                       *)
(***************************************************************************)

(* Pushing the next number.                                                *)
LEMMA IntervalAppend ==
  ASSUME NEW s \in Seq(Nat), NEW a \in Nat, NEW b \in Nat, a <= b,
         Interval(s, a, b)
  PROVE  Append(s, b + 1) \in Seq(Nat) /\ Interval(Append(s, b + 1), a, b + 1)
<1>1. Append(s, b + 1) \in Seq(Nat)
  OBVIOUS
<1>2. Len(Append(s, b + 1)) = (b + 1) - a
  BY DEF Interval
<1>3. \A i \in 1..((b + 1) - a) : Append(s, b + 1)[i] = a + i
  BY DEF Interval
<1> QED
  BY <1>1, <1>2, <1>3, Zenon DEF Interval

(* Popping the first number.                                               *)
LEMMA IntervalTail ==
  ASSUME NEW s \in Seq(Nat), NEW a \in Nat, NEW b \in Nat, a < b,
         Interval(s, a, b)
  PROVE  /\ s # <<>> /\ Head(s) = a + 1
         /\ Tail(s) \in Seq(Nat) /\ Interval(Tail(s), a + 1, b)
<1>1. s # <<>> /\ Len(s) > 0
  BY DEF Interval
<1>2. Head(s) = a + 1
  BY <1>1 DEF Interval
<1>3. Tail(s) \in Seq(Nat) /\ Len(Tail(s)) = b - (a + 1)
  BY <1>1 DEF Interval
<1>4. \A i \in 1..(b - (a + 1)) : Tail(s)[i] = (a + 1) + i
  BY <1>1, <1>3 DEF Interval
<1> QED
  BY <1>1, <1>2, <1>3, <1>4, Zenon DEF Interval

(* All counters are natural numbers.                                       *)
LEMMA Counters ==
  ASSUME IInv
  PROVE  /\ frozen \in Nat /\ Pushed \in Nat /\ Popped \in Nat /\ Taken \in Nat
         /\ Len(published) \in Nat /\ Len(queue) \in Nat /\ MaxTickets \in Nat
         /\ Pushed \in {frozen, frozen - 1}
         /\ Popped \in {Len(published), Len(published) - 1}
         /\ Taken \in {Len(published), Len(published) + 1}
         /\ Popped <= Len(published) /\ Len(published) <= Taken
         /\ Taken <= Pushed /\ Pushed <= frozen
  BY ConstantsAssumption DEF IInv, TypeOK, Order, Map, Pushed, Popped, Taken

(***************************************************************************)
(* Every action keeps the invariant.                                       *)
(***************************************************************************)
(* A document is indexed.                                                  *)
LEMMA Keeps_AddDocument ==
  ASSUME IInv, NEW t \in Threads, AddDocument(t)
  PROVE  IInv'
<1> USE ConstantsAssumption DEF IInv, AddDocument,
      threadVars, ticketVars, history, changes,
      Freezing, Pushing, Flushing, Popping, Purging, Control
<1>1. TypeOK'
  BY Zenon DEF TypeOK, States, Publishable, Tickets
<1>2. Locks'
  BY Zenon DEF TypeOK, Locks
<1>3. Pushed' = Pushed /\ Popped' = Popped /\ Taken' = Taken
  BY Zenon DEF TypeOK, Locks, Pushed, Popped, Taken
<1>4. Order' /\ Map' /\ Mine'
  BY <1>3 DEF Order, Map, Mine, TypeOK
<1>7. Dues' /\ Seen'
  BY Zenon DEF Dues, Ready, Seen, Unpublished, TypeOK
<1> QED
  BY <1>1, <1>2, <1>4, <1>7, Zenon DEF IInv

(* A delete is buffered.                                                   *)
LEMMA Keeps_DeleteTerms ==
  ASSUME IInv, DeleteTerms
  PROVE  IInv'
<1> USE ConstantsAssumption DEF IInv, DeleteTerms,
      threadVars, ticketVars, history, changes,
      Freezing, Pushing, Flushing, Popping, Purging, Control
<1>1. TypeOK'
  BY Zenon DEF TypeOK, States, Publishable, Tickets
<1>2. Locks'
  BY Zenon DEF TypeOK, Locks
<1>3. Pushed' = Pushed /\ Popped' = Popped /\ Taken' = Taken
  BY Zenon DEF TypeOK, Locks, Pushed, Popped, Taken
<1>4. Order' /\ Map' /\ Mine'
  BY <1>3 DEF Order, Map, Mine, TypeOK
<1>7. Dues' /\ Seen'
  BY Zenon DEF Dues, Ready, Seen, Unpublished, TypeOK
<1> QED
  BY <1>1, <1>2, <1>4, <1>7, Zenon DEF IInv

(* add_ticket takes the mutex and counts the ticket.                       *)
LEMMA Keeps_inc_tickets ==
  ASSUME IInv, NEW t \in Threads, NEW to \in Freezing, inc_tickets(t, to)
  PROVE  IInv'
<1> USE ConstantsAssumption DEF IInv, inc_tickets, Go,
      threadVars, ticketVars, history, changes,
      Freezing, Pushing, Flushing, Popping, Purging, Control
<1>1. TypeOK'
  BY DEF TypeOK, States, Publishable, Tickets
<1>2. Locks'
  BY Zenon DEF TypeOK, Locks
<1>3. Pushed' = Pushed /\ Popped' = Popped /\ Taken' = Taken
  BY Zenon DEF TypeOK, Locks, Pushed, Popped, Taken
<1>4. Order' /\ Map' /\ Mine'
  BY <1>3 DEF Order, Map, Mine, TypeOK
<1>7. Dues' /\ Seen'
  BY Zenon DEF Dues, Ready, Seen, Unpublished, TypeOK
<1> QED
  BY <1>1, <1>2, <1>4, <1>7, Zenon DEF IInv

(* The deletes are frozen: the ticket has its name, and is not pushed yet. *)
LEMMA Keeps_Freeze ==
  ASSUME IInv, NEW t \in Threads, NEW from \in Freezing, NEW to \in Pushing,
         Freeze(t, from, to)
  PROVE  IInv'
<1> USE ConstantsAssumption DEF IInv, Freeze, Go,
      threadVars, ticketVars, history, changes,
      Freezing, Pushing, Flushing, Popping, Purging, Control
<1>0. frozen < MaxTickets /\ frozen' = frozen + 1 /\ inner = t
  BY Zenon DEF Mine, TypeOK, Locks
<1>1. TypeOK'
  <2>1. frozen' \in 0..MaxTickets /\ mine' \in [Threads -> 0..MaxTickets]
    BY <1>0 DEF TypeOK
  <2>2. pc' \in [Threads -> Control]
    BY Zenon DEF TypeOK
  <2> QED
    BY <2>1, <2>2, Zenon DEF TypeOK
<1>2. Locks'
  BY Zenon DEF TypeOK, Locks
<1>3. Pushed' = Pushed /\ Popped' = Popped /\ Taken' = Taken
  BY <1>0 DEF TypeOK, Locks, Pushed, Popped, Taken
<1>4. Order'
  BY <1>0, <1>3, Counters DEF Order, TypeOK
<1>5. Map'
  BY <1>3, Zenon DEF Map
<1>6. Mine'
  <2>1. pc[t] \in Freezing /\ pc'[t] = to /\ mine'[t] = frozen'
    BY <1>0, Zenon DEF TypeOK
  <2>2. \A u \in Threads : u # t => pc'[u] = pc[u] /\ mine'[u] = mine[u]
    BY Zenon DEF TypeOK
  <2>3. \A u \in Threads : u # t => pc[u] \notin Freezing \cup Pushing
    BY <1>0, Zenon DEF Locks
  <2> QED
    BY <1>0, <1>3, <2>1, <2>2, <2>3, Counters DEF Mine
<1>7. Dues'
  BY DEF Dues, Ready
<1>8. Seen'
  <2>1. frozen' > Len(published')
    BY <1>0, Counters
  <2> QED
    BY <2>1, Zenon DEF Seen, Unpublished, TypeOK
<1> QED
  BY <1>1, <1>2, <1>4, <1>5, <1>6, <1>7, <1>8, Zenon DEF IInv

(* There is no ticket: nothing to freeze, or the supplier failed.          *)
LEMMA Keeps_dec_tickets ==
  ASSUME IInv, NEW t \in Threads, dec_tickets(t)
  PROVE  IInv'
<1> USE ConstantsAssumption DEF IInv, dec_tickets, Go,
      threadVars, ticketVars, history, changes,
      Freezing, Pushing, Flushing, Popping, Purging, Control
<1>0. inner = t /\ inner # NoThread /\ count = Len(queue) + 1
  BY Zenon DEF Locks, Order, TypeOK
<1>1. TypeOK'
  <2>1. count' \in Nat
    BY <1>0, Counters
  <2>2. pc' \in [Threads -> Control]
    BY Zenon DEF TypeOK
  <2> QED
    BY <2>1, <2>2, Zenon DEF TypeOK
<1>2. Locks'
  BY DEF TypeOK, Locks
<1>3. Pushed' = Pushed /\ Popped' = Popped /\ Taken' = Taken
  BY Zenon DEF TypeOK, Locks, Pushed, Popped, Taken
<1>4. Order'
  BY <1>0, <1>3, Counters DEF Order, TypeOK
<1>5. Map'
  BY <1>3, Zenon DEF Map
<1>6. Mine'
  <2>1. pc[t] \in Freezing /\ pc'[t] = "idle"
    BY Zenon DEF TypeOK
  <2>2. \A u \in Threads : u # t => pc'[u] = pc[u]
    BY Zenon DEF TypeOK
  <2> QED
    BY <1>3, <2>1, <2>2 DEF Mine
<1>7. Dues'
  <2>1. \A u \in Threads : pc'[u] = "leave" => pc[u] = "leave"
    BY Zenon DEF TypeOK
  <2> QED
    BY <2>1, Zenon DEF Dues, Ready
<1>8. Seen'
  BY Zenon DEF Seen, Unpublished, TypeOK
<1> QED
  BY <1>1, <1>2, <1>4, <1>5, <1>6, <1>7, <1>8, Zenon DEF IInv

(* The ticket is queued and is in the map.                                 *)
LEMMA Keeps_Push ==
  ASSUME IInv, NEW t \in Threads, NEW from \in Pushing, NEW to \in {"flush", "idle"},
         NEW state \in {"open", "deletes"}, Push(t, from, to, state),
         to = "flush" => state = "open" /\ mine' = mine,
         to = "idle" => Forget(t)
  PROVE  IInv'
<1> USE ConstantsAssumption DEF IInv, Push, Go,
      threadVars, ticketVars, history, changes,
      Freezing, Pushing, Flushing, Popping, Purging, Control
<1>0. inner = t /\ mine[t] = frozen /\ frozen \in Tickets
  BY DEF Mine, TypeOK, Locks, Tickets
<1>a. pc[t] \in Pushing /\ pc'[t] = to /\ (to = "flush" => mine'[t] = frozen)
  BY <1>0, Zenon DEF TypeOK
<1>b. \A u \in Threads : u # t => pc'[u] = pc[u] /\ mine'[u] = mine[u]
  BY Zenon DEF TypeOK, Forget
<1>c. value'[frozen] = state /\ \A k \in Tickets : k # frozen => value'[k] = value[k]
  BY <1>0, Zenon DEF TypeOK
<1>d. \A u \in Threads : u # t => pc[u] \notin Freezing \cup Pushing
  BY <1>0, Zenon DEF Locks
<1>1. TypeOK'
  <2>1. queue' \in Seq(Nat)
    BY <1>0 DEF TypeOK, Tickets
  <2>2. mine' \in [Threads -> 0..MaxTickets]
    <3>1. CASE to = "flush"
      BY <3>1, Zenon DEF TypeOK
    <3>2. CASE to = "idle"
      BY <3>2 DEF TypeOK, Forget
    <3> QED
      BY <3>1, <3>2, Zenon
  <2>4. pc' \in [Threads -> Control]
    BY Zenon DEF TypeOK
  <2>3. value' \in [Tickets -> States]
    BY Zenon DEF TypeOK, States, Publishable
  <2> QED
    BY <2>1, <2>2, <2>3, <2>4, Zenon DEF TypeOK
<1>2. Locks'
  BY DEF TypeOK, Locks
<1>3. Pushed = frozen - 1 /\ Pushed' = frozen /\ Popped' = Popped /\ Taken' = Taken
  BY <1>0, <1>a, <1>b, Zenon DEF TypeOK, Locks, Pushed, Popped, Taken
<1>4. Order'
  <2>1. Interval(queue', Popped, frozen) /\ Len(queue') = Len(queue) + 1
    BY <1>0, <1>3, Counters, IntervalAppend, SMTT(30) DEF Order, TypeOK
  <2> QED
    BY <1>0, <1>3, <2>1, Counters DEF Order, TypeOK
<1>5. Map'
  <2>1. Taken < frozen
    BY <1>3, Counters
  <2>2. \A k \in Tickets : k > frozen <=> k > Pushed /\ k # frozen
    BY <1>3, Counters DEF Tickets
  <2> QED
    BY <1>0, <1>3, <1>c, <2>1, <2>2, Counters DEF Map, Tickets
<1>6. Mine'
  <2>1. value[frozen] = "none"
    BY <1>0, <1>3, Counters DEF Map
  <2>2. \A u \in Threads : pc[u] \in Flushing => mine[u] # frozen
    BY <2>1, Zenon DEF Mine
  <2> QED
    BY <1>0, <1>3, <1>a, <1>b, <1>c, <1>d, <2>2 DEF Mine
<1>7. Dues'
  <2>1. value[frozen] = "none"
    BY <1>0, <1>3, Counters DEF Map
  <2>2. Ready \subseteq Ready'
    BY <1>c, <2>1, Zenon DEF Ready, Publishable
  <2> QED
    BY <1>a, <1>b, <2>2, Zenon DEF Dues
<1>8. Seen'
  BY <1>a, <1>b, Zenon DEF Seen, Unpublished, TypeOK
<1> QED
  BY <1>1, <1>2, <1>4, <1>5, <1>6, <1>7, <1>8, Zenon DEF IInv

(* The flush has ended, and its ticket says how.                           *)
LEMMA Keeps_Complete ==
  ASSUME IInv, NEW t \in Threads, NEW from \in Flushing, NEW to \in {"subtract", "idle"},
         NEW state \in {"segment", "failed"}, Go(t, from, to),
         Complete(t, state)
  PROVE  IInv'
<1> USE ConstantsAssumption DEF IInv, Complete, Go, Forget,
      threadVars, ticketVars, history, changes,
      Freezing, Pushing, Flushing, Popping, Purging, Control
<1>0. mine[t] \in Tickets /\ value[mine[t]] = "open"
  BY Zenon DEF Mine
<1>a. /\ pc[t] \in Flushing /\ pc'[t] = to
      /\ \A u \in Threads : u # t => pc'[u] = pc[u] /\ mine'[u] = mine[u]
  BY Zenon DEF TypeOK
<1>c. value'[mine[t]] = state /\ \A k \in Tickets : k # mine[t] => value'[k] = value[k]
  BY <1>0, Zenon DEF TypeOK
<1>1. TypeOK'
  <2>1. pc' \in [Threads -> Control] /\ mine' \in [Threads -> 0..MaxTickets]
    BY DEF TypeOK
  <2>2. value' \in [Tickets -> States]
    BY Zenon DEF TypeOK, States, Publishable
  <2> QED
    BY <2>1, <2>2, Zenon DEF TypeOK
<1>2. Locks'
  BY Zenon DEF TypeOK, Locks
<1>3. Pushed' = Pushed /\ Popped' = Popped /\ Taken' = Taken
  BY Zenon DEF TypeOK, Locks, Pushed, Popped, Taken
<1>4. Order'
  BY <1>3, Zenon DEF Order
<1>5. Map'
  BY <1>0, <1>3, <1>c, Zenon DEF Map
<1>6. Mine'
  <2>1. \A u \in Threads : u # t /\ pc[u] \in Flushing => mine[u] # mine[t]
    BY <1>a, Zenon DEF Mine
  <2> QED
    BY <1>0, <1>3, <1>a, <1>c, <2>1 DEF Mine
<1>7. Dues'
  <2>1. Ready \subseteq Ready'
    BY <1>0, <1>c, Zenon DEF Ready, Publishable
  <2> QED
    BY <1>a, <2>1, Zenon DEF Dues
<1>8. Seen'
  <2>1. frozen > Len(published)
    BY <1>0, Counters DEF Map, Tickets
  <2> QED
    BY <2>1, Zenon DEF Seen, Unpublished, TypeOK
<1> QED
  BY <1>1, <1>2, <1>4, <1>5, <1>6, <1>7, <1>8, Zenon DEF IInv

(* The flush has failed.                                                   *)
LEMMA Keeps_flush_failed ==
  ASSUME IInv, NEW t \in Threads, flush_failed(t)
  PROVE  IInv'
<1> USE ConstantsAssumption DEF IInv, flush_failed, Go,
      threadVars, ticketVars, history, changes,
      Freezing, Pushing, Flushing, Popping, Purging, Control
<1>1. TypeOK'
  BY Zenon DEF TypeOK, States, Publishable, Tickets
<1>2. Locks'
  BY Zenon DEF TypeOK, Locks
<1>3. Pushed' = Pushed /\ Popped' = Popped /\ Taken' = Taken
  BY Zenon DEF TypeOK, Locks, Pushed, Popped, Taken
<1>4. Order' /\ Map' /\ Mine'
  BY <1>3 DEF Order, Map, Mine, TypeOK
<1>7. Dues' /\ Seen'
  BY Zenon DEF Dues, Ready, Seen, Unpublished, TypeOK
<1> QED
  BY <1>1, <1>2, <1>4, <1>7, Zenon DEF IInv

(* The documents of a flush are no longer counted.                         *)
LEMMA Keeps_subtract_flushed_num_docs ==
  ASSUME IInv, NEW t \in Threads, subtract_flushed_num_docs(t)
  PROVE  IInv'
<1> USE ConstantsAssumption DEF IInv, subtract_flushed_num_docs, Go,
      threadVars, ticketVars, history, changes,
      Freezing, Pushing, Flushing, Popping, Purging, Control
<1>0. /\ \/ pc[t] = "subtract" /\ pc'[t] = "idle"
         \/ pc[t] = "subtractFailed" /\ pc'[t] = "mark"
      /\ \A u \in Threads : u # t => pc'[u] = pc[u]
  <2>1. CASE Go(t, "subtract", "idle")
    BY <2>1, Zenon DEF TypeOK
  <2>2. CASE Go(t, "subtractFailed", "mark")
    BY <2>2, Zenon DEF TypeOK
  <2> QED
    BY <2>1, <2>2, Zenon
<1>1. TypeOK'
  BY Zenon DEF TypeOK, States, Publishable, Tickets
<1>2. Locks'
  BY DEF TypeOK, Locks
<1>3. Pushed' = Pushed /\ Popped' = Popped /\ Taken' = Taken
  BY DEF TypeOK, Locks, Pushed, Popped, Taken
<1>4. Order' /\ Map'
  BY <1>3, Zenon DEF Order, Map
<1>6. Mine'
  BY <1>0, <1>3 DEF Mine
<1>7. Dues'
  BY <1>0, Zenon DEF Dues, Ready
<1>8. Seen'
  <2>1. CASE pc[t] = "subtract"
    BY <1>0, <2>1, Zenon DEF Seen, Unpublished, TypeOK
  <2>2. CASE pc[t] = "subtractFailed"
    <3>1. mine[t] \in Tickets /\ value[mine[t]] = "open"
      BY <2>2, Zenon DEF Mine
    <3>2. frozen > Len(published)
      BY <3>1, Counters DEF Map, Tickets
    <3> QED
      BY <3>2, Zenon DEF Seen, Unpublished, TypeOK
  <2> QED
    BY <1>0, <2>1, <2>2, Zenon
<1> QED
  BY <1>1, <1>2, <1>4, <1>6, <1>7, <1>8, Zenon DEF IInv

(* A purge takes the lock if it is free.                                   *)
LEMMA Keeps_try_purge ==
  ASSUME IInv, NEW t \in Threads, try_purge(t)
  PROVE  IInv'
<1> USE ConstantsAssumption DEF IInv, try_purge, Go,
      threadVars, ticketVars, history, changes,
      Freezing, Pushing, Flushing, Popping, Purging, Control
<1>1. TypeOK'
  BY Zenon DEF TypeOK, States, Publishable, Tickets
<1>2. Locks'
  BY Zenon DEF TypeOK, Locks
<1>3. Pushed' = Pushed /\ Popped' = Popped /\ Taken' = Taken
  BY Zenon DEF TypeOK, Locks, Pushed, Popped, Taken
<1>4. Order' /\ Map' /\ Mine'
  BY <1>3 DEF Order, Map, Mine, TypeOK
<1>7. Dues' /\ Seen'
  BY Zenon DEF Dues, Ready, Seen, Unpublished, TypeOK
<1> QED
  BY <1>1, <1>2, <1>4, <1>7, Zenon DEF IInv

(* A forced purge is called.                                               *)
LEMMA Keeps_force_purge ==
  ASSUME IInv, NEW t \in Threads, NEW n \in 0..MaxTickets, force_purge(t, n)
  PROVE  IInv'
<1> USE ConstantsAssumption DEF IInv, force_purge, Go,
      threadVars, ticketVars, history, changes,
      Freezing, Pushing, Flushing, Popping, Purging, Control
<1>1. TypeOK'
  BY Zenon DEF TypeOK, States, Publishable, Tickets
<1>2. Locks'
  BY Zenon DEF TypeOK, Locks
<1>3. Pushed' = Pushed /\ Popped' = Popped /\ Taken' = Taken
  BY Zenon DEF TypeOK, Locks, Pushed, Popped, Taken
<1>4. Order' /\ Map' /\ Mine'
  BY <1>3 DEF Order, Map, Mine, TypeOK
<1>7. Dues' /\ Seen'
  BY DEF Dues, Ready, Seen, Unpublished, TypeOK
<1> QED
  BY <1>1, <1>2, <1>4, <1>7, Zenon DEF IInv

(* A forced purge gets the lock.                                           *)
LEMMA Keeps_lock_purge ==
  ASSUME IInv, NEW t \in Threads, lock_purge(t)
  PROVE  IInv'
<1> USE ConstantsAssumption DEF IInv, lock_purge, Go,
      threadVars, ticketVars, history, changes,
      Freezing, Pushing, Flushing, Popping, Purging, Control
<1>1. TypeOK'
  BY Zenon DEF TypeOK, States, Publishable, Tickets
<1>2. Locks'
  BY Zenon DEF TypeOK, Locks
<1>3. Pushed' = Pushed /\ Popped' = Popped /\ Taken' = Taken
  BY Zenon DEF TypeOK, Locks, Pushed, Popped, Taken
<1>4. Order' /\ Map' /\ Mine'
  BY <1>3 DEF Order, Map, Mine, TypeOK
<1>7. Dues' /\ Seen'
  BY Zenon DEF Dues, Ready, Seen, Unpublished, TypeOK
<1> QED
  BY <1>1, <1>2, <1>4, <1>7, Zenon DEF IInv

(* A purge takes the head out of the map.                                  *)
LEMMA Keeps_take_head ==
  ASSUME IInv, NEW t \in Threads, take_head(t)
  PROVE  IInv'
<1> USE ConstantsAssumption DEF IInv, take_head, can_publish, Go,
      threadVars, ticketVars, history, changes,
      Freezing, Pushing, Flushing, Popping, Purging, Control
<1>0. purge = t /\ purge # NoThread /\ pc[t] = "take" /\ pc'[t] = "publish"
  BY Zenon DEF Locks, TypeOK
<1>a. \A u \in Threads : u # t =>
        pc'[u] = pc[u] /\ mine'[u] = mine[u] /\ pc[u] \notin Purging
  BY <1>0, Zenon DEF TypeOK, Locks
<1>b. Popped = Len(published) /\ Taken = Len(published)
  BY <1>0, Zenon DEF Popped, Taken
<1>c. Popped < Pushed
  BY Counters DEF Order, Interval, TypeOK
<1>d. Head(queue) = Len(published) + 1 /\ Len(published) + 1 \in Tickets
  BY <1>b, <1>c, Counters, IntervalTail, SMTT(30) DEF Order, TypeOK, Tickets
<1>e. /\ value[Len(published) + 1] \in Publishable /\ value'[Len(published) + 1] = "gone"
      /\ \A k \in Tickets : k # Len(published) + 1 => value'[k] = value[k]
  BY <1>d, Zenon DEF TypeOK
<1>1. TypeOK'
  <2>1. pc' \in [Threads -> Control] /\ mine' \in [Threads -> 0..MaxTickets]
    BY <1>d DEF TypeOK, Tickets
  <2>2. value' \in [Tickets -> States]
    BY Zenon DEF TypeOK, States
  <2> QED
    BY <2>1, <2>2, Zenon DEF TypeOK
<1>2. Locks'
  BY Zenon DEF TypeOK, Locks
<1>3. Pushed' = Pushed /\ Popped' = Popped /\ Taken' = Len(published) + 1
  BY <1>0, <1>a, <1>b, Zenon DEF TypeOK, Locks, Pushed, Popped, Taken
<1>4. Order'
  BY <1>3, Zenon DEF Order
<1>5. Map'
  BY <1>3, <1>b, <1>c, <1>d, <1>e, Counters DEF Map, Tickets, Publishable
<1>6. Mine'
  <2>1. \A u \in Threads : pc[u] \in Flushing => mine[u] # Len(published) + 1
    BY <1>e, Zenon DEF Mine, Publishable
  <2>2. mine'[t] = Taken'
    BY <1>3, <1>d, Zenon DEF TypeOK
  <2> QED
    BY <1>0, <1>a, <1>e, <2>1, <2>2 DEF Mine
<1>7. Dues'
  <2>1. Ready \subseteq Ready'
    BY <1>e, Zenon DEF Ready, Publishable
  <2> QED
    BY <1>0, <1>a, <2>1, Zenon DEF Dues
<1>8. Seen'
  BY Zenon DEF Seen, Unpublished, TypeOK
<1> QED
  BY <1>1, <1>2, <1>4, <1>5, <1>6, <1>7, <1>8, Zenon DEF IInv

(* The consumer gets the ticket.                                           *)
LEMMA Keeps_Consume ==
  ASSUME IInv, NEW t \in Threads, NEW to \in Popping, NEW L, Consume(t, to, L)
  PROVE  IInv'
<1> USE ConstantsAssumption DEF IInv, Consume, Go,
      threadVars, ticketVars, history, changes,
      Freezing, Pushing, Flushing, Popping, Purging, Control
<1>0. purge = t /\ purge # NoThread /\ pc[t] = "publish" /\ pc'[t] = to
  BY Zenon DEF Locks, TypeOK
<1>a. \A u \in Threads : u # t => pc'[u] = pc[u] /\ pc[u] \notin Purging
  BY <1>0, Zenon DEF TypeOK, Locks
<1>b. Popped = Len(published) /\ Taken = Len(published) + 1
  BY <1>0, Zenon DEF Popped, Taken
<1>c. published' = Append(published, Len(published) + 1) /\ mine[t] = Len(published) + 1
  BY <1>0, <1>b, Zenon DEF Mine
<1>d. /\ published' \in Seq(Nat) /\ Len(published') = Len(published) + 1
      /\ Interval(published', 0, Len(published'))
  BY <1>c, Counters, IntervalAppend DEF Order, TypeOK
<1>1. TypeOK'
  <2>1. pc' \in [Threads -> Control]
    BY Zenon DEF TypeOK
  <2> QED
    BY <1>d, <2>1, Zenon DEF TypeOK
<1>2. Locks'
  BY Zenon DEF TypeOK, Locks
<1>3. Pushed' = Pushed /\ Popped' = Popped /\ Taken' = Taken
  BY <1>0, <1>a, <1>b, <1>d, Counters DEF TypeOK, Locks, Pushed, Popped, Taken
<1>4. Order'
  BY <1>3, <1>b, <1>d, Counters, Zenon DEF Order
<1>5. Map'
  BY <1>3, Zenon DEF Map
<1>6. Mine'
  BY <1>0, <1>3, <1>a, <1>c, <1>d DEF Mine
<1>7. Dues'
  BY <1>0, <1>a, <1>d, Counters, Zenon DEF Dues, Ready, TypeOK
<1>8. Seen'
  BY Zenon DEF Seen, Unpublished, TypeOK
<1> QED
  BY <1>1, <1>2, <1>4, <1>5, <1>6, <1>7, <1>8, Zenon DEF IInv

(* A published ticket leaves the queue.                                    *)
LEMMA Keeps_pop_ticket ==
  ASSUME IInv, NEW t \in Threads, pop_ticket(t)
  PROVE  IInv'
<1> USE ConstantsAssumption DEF IInv, pop_ticket, Forget, Go,
      threadVars, ticketVars, history, changes,
      Freezing, Pushing, Flushing, Popping, Purging, Control
<1>0. purge = t /\ purge # NoThread /\ pc[t] \in Popping
  BY Zenon DEF Locks, TypeOK
<1>e. pc'[t] = "take" \/ (pc'[t] = "leave" /\ due'[t] = 0)
  BY Zenon DEF TypeOK
<1>a. \A u \in Threads : u # t => pc'[u] = pc[u] /\ mine'[u] = mine[u] /\ due'[u] = due[u]
  BY Zenon DEF TypeOK
<1>b. Popped = Len(published) - 1 /\ Popped < Pushed
  BY <1>0, Counters DEF Popped, Order
<1>f. queue' \in Seq(Nat) /\ Interval(queue', Popped + 1, Pushed)
  BY <1>b, Counters, IntervalTail, Zenon DEF Order, TypeOK
<1>c. Len(queue') = Len(queue) - 1
  BY <1>b, <1>f, Counters DEF Order, Interval
<1>d. due'[t] = due[t] \/ due'[t] = 0
  BY Zenon DEF TypeOK
<1>1. TypeOK'
  <2>1. pc' \in [Threads -> Control] /\ due' \in [Threads -> 0..MaxTickets]
    <3>1. CASE Go(t, "pop", "take") /\ due' = due
      BY <3>1, Zenon DEF TypeOK
    <3>2. CASE Go(t, "popFailed", "leave") /\ due' = [due EXCEPT ![t] = 0]
      BY <3>2 DEF TypeOK
    <3> QED
      BY <3>1, <3>2, Zenon
  <2>2. mine' \in [Threads -> 0..MaxTickets]
    BY DEF TypeOK
  <2>3. count' \in Nat
    BY <1>c, Counters DEF Order, TypeOK
  <2> QED
    BY <1>f, <2>1, <2>2, <2>3, Zenon DEF TypeOK
<1>2. Locks'
  BY DEF TypeOK, Locks
<1>3. Pushed' = Pushed /\ Popped' = Popped + 1 /\ Taken' = Taken
  <2>1. /\ inner' = inner
        /\ inner # NoThread => (pc'[inner] \in Pushing <=> pc[inner] \in Pushing)
    BY <1>0, <1>a, <1>e, Zenon DEF TypeOK, Locks
  <2>2. purge' = t /\ pc[t] # "publish" /\ pc'[t] \notin Popping \cup {"publish"}
    BY <1>0, <1>e, Zenon
  <2>3. Pushed' = Pushed
    BY <2>1, Zenon DEF Pushed
  <2>4. Popped' = Len(published) /\ Taken' = Taken
    BY <1>0, <2>2, Zenon DEF Popped, Taken
  <2> QED
    BY <1>b, <2>3, <2>4, Counters
<1>4. Order'
  BY <1>3, <1>b, <1>c, <1>f, Counters DEF Order, TypeOK
<1>5. Map'
  BY <1>3, Zenon DEF Map
<1>6. Mine'
  BY <1>0, <1>3, <1>a, <1>e DEF Mine
<1>7. Dues'
  BY <1>0, <1>a, <1>d, <1>e, Counters DEF Dues, Ready, TypeOK
<1>8. Seen'
  BY Zenon DEF Seen, Unpublished, TypeOK
<1> QED
  BY <1>1, <1>2, <1>4, <1>5, <1>6, <1>7, <1>8, Zenon DEF IInv

(* A purge finds nothing to publish: what was due is published.            *)
LEMMA Keeps_purge_ends ==
  ASSUME IInv, NEW t \in Threads, purge_ends(t)
  PROVE  IInv'
<1> USE ConstantsAssumption DEF IInv, purge_ends, can_publish, Go,
      threadVars, ticketVars, history, changes,
      Freezing, Pushing, Flushing, Popping, Purging, Control
<1>0. purge = t /\ purge # NoThread /\ pc[t] = "take" /\ pc'[t] = "leave"
  BY Zenon DEF Locks, TypeOK
<1>a. \A u \in Threads : u # t => pc'[u] = pc[u]
  BY Zenon DEF TypeOK
<1>b. Popped = Len(published) /\ Taken = Len(published)
  BY <1>0, Zenon DEF Popped, Taken
<1>1. TypeOK'
  BY Zenon DEF TypeOK, States, Publishable, Tickets
<1>2. Locks'
  BY Zenon DEF TypeOK, Locks
<1>3. Pushed' = Pushed /\ Popped' = Popped /\ Taken' = Taken
  BY Zenon DEF TypeOK, Locks, Pushed, Popped, Taken
<1>4. Order' /\ Map' /\ Mine'
  BY <1>3 DEF Order, Map, Mine, TypeOK
<1>7. Dues'
  <2>1. Len(published) + 1 \notin Ready
    <3>1. CASE queue = <<>>
      <4>1. Len(published) = Pushed
        BY <1>b, <3>1, Counters DEF Order, Interval
      <4> QED
        BY <4>1, Counters DEF Map, Ready, Publishable
    <3>2. CASE queue # <<>>
      <4>1. Popped < Pushed
        BY <3>2, Counters DEF Order, Interval, TypeOK
      <4>2. Head(queue) = Len(published) + 1
        BY <1>b, <4>1, Counters, IntervalTail, Zenon DEF Order, TypeOK
      <4> QED
        BY <1>b, <3>2, <4>1, <4>2, Counters DEF Map, Ready
    <3> QED
      BY <3>1, <3>2, Zenon
  <2>2. Len(published) >= due[t]
    <3>1. Len(published) + 1 \notin 1..due[t]
      BY <2>1, Zenon DEF Dues
    <3> QED
      BY <3>1, Counters DEF TypeOK
  <2> QED
    BY <1>0, <1>a, <2>2, Zenon DEF Dues, Ready
<1>8. Seen'
  BY Zenon DEF Seen, Unpublished, TypeOK
<1> QED
  BY <1>1, <1>2, <1>4, <1>7, <1>8, Zenon DEF IInv

(* The purge lock is released.                                             *)
LEMMA Keeps_unlock_purge ==
  ASSUME IInv, NEW t \in Threads, unlock_purge(t)
  PROVE  IInv'
<1> USE ConstantsAssumption DEF IInv, unlock_purge, Go,
      threadVars, ticketVars, history, changes,
      Freezing, Pushing, Flushing, Popping, Purging, Control
<1>1. TypeOK'
  BY DEF TypeOK, States, Publishable, Tickets
<1>2. Locks'
  BY Zenon DEF TypeOK, Locks
<1>3. Pushed' = Pushed /\ Popped' = Popped /\ Taken' = Taken
  BY Zenon DEF TypeOK, Locks, Pushed, Popped, Taken
<1>4. Order' /\ Map' /\ Mine'
  BY <1>3 DEF Order, Map, Mine, TypeOK
<1>7. Dues' /\ Seen'
  BY DEF Dues, Ready, Seen, Unpublished, TypeOK
<1> QED
  BY <1>1, <1>2, <1>4, <1>7, Zenon DEF IInv

(* any_changes is called.                                                  *)
LEMMA Keeps_any_changes ==
  ASSUME IInv, any_changes
  PROVE  IInv'
<1> USE ConstantsAssumption DEF IInv, any_changes,
      threadVars, ticketVars, history, changes,
      Freezing, Pushing, Flushing, Popping, Purging, Control
<1>1. TypeOK'
  <2>1. Unpublished \in BOOLEAN
    BY Zenon DEF Unpublished, TypeOK
  <2> QED
    BY <2>1, Zenon DEF TypeOK
<1>2. Locks'
  BY Zenon DEF TypeOK, Locks
<1>3. Pushed' = Pushed /\ Popped' = Popped /\ Taken' = Taken
  BY Zenon DEF TypeOK, Locks, Pushed, Popped, Taken
<1>4. Order' /\ Map' /\ Mine'
  BY <1>3 DEF Order, Map, Mine, TypeOK
<1>7. Dues' /\ Seen'
  BY Zenon DEF Dues, Ready, Seen, Unpublished, TypeOK
<1> QED
  BY <1>1, <1>2, <1>4, <1>7, Zenon DEF IInv

(* any_changes reads a counter.                                            *)
LEMMA Keeps_read_changes ==
  ASSUME IInv, read_changes
  PROVE  IInv'
<1> USE ConstantsAssumption DEF IInv, read_changes, Read,
      threadVars, ticketVars, history, changes,
      Freezing, Pushing, Flushing, Popping, Purging, Control
<1>0. count = 0 => frozen = Len(published)
  BY Counters DEF Order, Interval, Pushed
<1>1. TypeOK'
  BY Zenon DEF TypeOK, States, Publishable, Tickets
<1>2. Locks'
  BY Zenon DEF TypeOK, Locks
<1>3. Pushed' = Pushed /\ Popped' = Popped /\ Taken' = Taken
  BY Zenon DEF TypeOK, Locks, Pushed, Popped, Taken
<1>4. Order' /\ Map' /\ Mine'
  BY <1>3 DEF Order, Map, Mine, TypeOK
<1>7. Dues'
  BY Zenon DEF Dues, Ready
<1>8. Seen'
  <2>1. reader.at \in {"docs", "deletions", "tickets"}
    BY Zenon
  <2>2. CASE Read("docs", "deletions", ram # {})
    BY <2>2, Zenon DEF Seen, Unpublished, TypeOK
  <2>3. CASE Read("deletions", "tickets", dels)
    BY <2>3, Zenon DEF Seen, TypeOK
  <2>4. CASE Read("tickets", "return", count # 0)
    BY <1>0, <2>4, Counters DEF Seen, TypeOK
  <2> QED
    BY <2>2, <2>3, <2>4, Zenon
<1> QED
  BY <1>1, <1>2, <1>4, <1>7, <1>8, Zenon DEF IInv

(* any_changes returns.                                                    *)
LEMMA Keeps_return_changes ==
  ASSUME IInv, return_changes
  PROVE  IInv'
<1> USE ConstantsAssumption DEF IInv, return_changes, NoReader,
      threadVars, ticketVars, history, changes,
      Freezing, Pushing, Flushing, Popping, Purging, Control
<1>1. TypeOK'
  BY Zenon DEF TypeOK, States, Publishable, Tickets
<1>2. Locks'
  BY Zenon DEF TypeOK, Locks
<1>3. Pushed' = Pushed /\ Popped' = Popped /\ Taken' = Taken
  BY Zenon DEF TypeOK, Locks, Pushed, Popped, Taken
<1>4. Order' /\ Map' /\ Mine'
  BY <1>3 DEF Order, Map, Mine, TypeOK
<1>7. Dues' /\ Seen'
  BY Zenon DEF Dues, Ready, Seen, Unpublished, TypeOK
<1> QED
  BY <1>1, <1>2, <1>4, <1>7, Zenon DEF IInv

(* Every step keeps the invariant.                                         *)
LEMMA Keeps ==
  ASSUME IInv, [Next]_vars
  PROVE  IInv'
<1>1. CASE UNCHANGED vars
  BY <1>1, ZenonT(60) DEF IInv, TypeOK, Locks, Order, Map, Mine, Dues, Seen, Pushed, Popped,
     Taken, Interval, Ready, Unpublished, vars, threadVars, ticketVars, history, changes
<1>2. ASSUME NEW t \in Threads, AddDocument(t) \/ AddTicket(t)
      PROVE  IInv'
  <2>1. CASE AddDocument(t)
    BY <2>1, Keeps_AddDocument, Zenon
  <2>2. CASE add_flush_ticket(t) \/ add_deletes_ticket(t)
    BY <2>2, Keeps_inc_tickets, Zenon DEF add_flush_ticket, add_deletes_ticket, Freezing
  <2>3. CASE prepare_flush(t) \/ maybe_freeze_global_buffer(t)
    BY <2>3, Keeps_Freeze, Zenon DEF prepare_flush, maybe_freeze_global_buffer, Freezing,
       Pushing
  <2>4. CASE dec_tickets(t)
    BY <2>4, Keeps_dec_tickets, Zenon
  <2>5. CASE push_ticket(t)
    BY <2>5, Keeps_Push, Zenon DEF push_ticket, Pushing
  <2> QED
    BY <1>2, <2>1, <2>2, <2>3, <2>4, <2>5, Zenon DEF AddTicket
<1>3. ASSUME NEW t \in Threads, Flush(t)
      PROVE  IInv'
  <2>1. CASE add_segment(t) \/ mark_ticket_failed(t)
    BY <2>1, Keeps_Complete, Zenon DEF add_segment, mark_ticket_failed, Flushing
  <2>2. CASE flush_failed(t)
    BY <2>2, Keeps_flush_failed, Zenon
  <2>3. CASE subtract_flushed_num_docs(t)
    BY <2>3, Keeps_subtract_flushed_num_docs, Zenon
  <2> QED
    BY <1>3, <2>1, <2>2, <2>3, Zenon DEF Flush
<1>4. ASSUME NEW t \in Threads, Purge(t)
      PROVE  IInv'
  <2>1. CASE publish(t)
    BY <2>1, Keeps_Consume, Zenon DEF publish, Popping
  <2>2. ASSUME NEW n \in 0..MaxTickets, force_purge(t, n)
        PROVE  IInv'
    BY <2>2, Keeps_force_purge, Zenon
  <2> QED
    BY <1>4, <2>1, <2>2, Keeps_try_purge, Keeps_lock_purge, Keeps_take_head, Keeps_pop_ticket,
       Keeps_purge_ends, Keeps_unlock_purge, Zenon DEF Purge
<1> QED
  BY <1>1, <1>2, <1>3, <1>4, Keeps_DeleteTerms, Keeps_any_changes, Keeps_read_changes,
     Keeps_return_changes, Zenon DEF Next

(* IInv holds in every state, for any threads and any number of tickets.   *)
THEOREM Invariance == Spec => []IInv
<1>1. Init => IInv
  <2> SUFFICES ASSUME Init PROVE IInv
    BY Zenon
  <2> USE ConstantsAssumption DEF Init
  <2>1. TypeOK
    <3>1. queue \in Seq(Nat) /\ published \in Seq(Nat) /\ frozen \in 0..MaxTickets
      OBVIOUS
    <3>2. reader \in [at : {"idle", "docs", "deletions", "tickets", "return"},
                      had : BOOLEAN, any : BOOLEAN]
      BY Zenon DEF NoReader
    <3>3. /\ pc \in [Threads -> Control] /\ value \in [Tickets -> States]
          /\ mine \in [Threads -> 0..MaxTickets] /\ due \in [Threads -> 0..MaxTickets]
      BY DEF Control, States
    <3> QED
      BY <3>1, <3>2, <3>3, Zenon DEF TypeOK
  <2>6. Locks
    BY Zenon DEF Locks, Freezing, Pushing, Purging, Popping
  <2>2. Pushed = 0 /\ Popped = 0 /\ Taken = 0 /\ Len(published) = 0 /\ Len(queue) = 0
    BY Zenon DEF Pushed, Popped, Taken
  <2>3. Order
    BY <2>2 DEF Order, Interval
  <2>4. Map
    BY <2>2 DEF Map, Tickets
  <2>5. Mine /\ Dues /\ Seen
    BY DEF Mine, Dues, Seen, NoReader, Freezing, Pushing, Flushing, Popping
  <2> QED
    BY <2>1, <2>3, <2>4, <2>5, <2>6, Zenon DEF IInv
<1>2. IInv /\ [Next]_vars => IInv'
  BY Keeps, Zenon
<1> QED
  BY <1>1, <1>2, PTL DEF Spec

-----------------------------------------------------------------------------
(***************************************************************************)
(* What the invariant says about the queue.                                *)
(***************************************************************************)

(* add_segment, mark_ticket_failed and inner_purge always find the ticket  *)
(* they look for.                                                          *)
THEOREM AlwaysFound == Spec => []TicketsFound
<1>1. IInv => TicketsFound
  <2> SUFFICES ASSUME IInv PROVE TicketsFound
    BY Zenon
  <2>1. ASSUME NEW t \in Threads, pc[t] \in {"flush", "subtractFailed", "mark"}
        PROVE  value[mine[t]] = "open"
    BY <2>1, Zenon DEF IInv, Mine, Flushing
  <2>2. ASSUME NEW t \in Threads, pc[t] \in {"publish", "pop", "popFailed"}
        PROVE  queue # <<>> /\ Head(queue) = mine[t]
    <3>1. purge = t /\ purge # NoThread
      BY <2>2, ConstantsAssumption, Zenon DEF IInv, Locks, Purging, Popping
    <3>2. Popped < Pushed /\ mine[t] = Popped + 1
      BY <2>2, <3>1, Counters DEF IInv, Order, Map, Mine, Popped, Taken, Popping
    <3> QED
      BY <3>2, Counters, IntervalTail, Zenon DEF IInv, Order, TypeOK
  <2> QED
    BY <2>1, <2>2, Zenon DEF TicketsFound
<1> QED
  BY <1>1, Invariance, PTL

(* A forced purge that returns without an error has published all that was *)
(* complete when it was called.                                            *)
THEOREM AlwaysDuePublished == Spec => []DueIsPublished
<1>1. IInv => DueIsPublished
  BY Zenon DEF IInv, Dues, DueIsPublished
<1> QED
  BY <1>1, Invariance, PTL

(* any_changes misses no change.                                           *)
THEOREM AlwaysChangesFound == Spec => []ChangesFound
<1>1. IInv => ChangesFound
  BY Zenon DEF IInv, Seen, ChangesFound
<1> QED
  BY <1>1, Invariance, PTL

(* Ready grows when a flush ends, and does not change otherwise.           *)
LEMMA ReadyOnlyGrows ==
  ASSUME IInv, NEW t \in Threads
  PROVE  /\ Push(t, "pushFlush", "flush", "open") => Ready' = Ready
         /\ take_head(t) => Ready' = Ready
<1> USE DEF IInv
<1>1. ASSUME Push(t, "pushFlush", "flush", "open")
      PROVE  Ready' = Ready
  <2>1. inner = t /\ inner # NoThread /\ mine[t] = frozen /\ frozen \in Tickets
    BY <1>1, ConstantsAssumption DEF Push, Go, Locks, Mine, Pushing, TypeOK, Tickets
  <2>2. value[frozen] = "none"
    BY <1>1, <2>1, Counters DEF Push, Go, Map, Pushed, Pushing
  <2> QED
    BY <1>1, <2>1, <2>2, Zenon DEF Push, Ready, Publishable, TypeOK
<1>2. ASSUME take_head(t)
      PROVE  Ready' = Ready
  <2>1. Head(queue) \in Tickets
    <3>1. Popped < Pushed
      BY <1>2, Counters DEF take_head, can_publish, Order, Interval, TypeOK
    <3> QED
      BY <3>1, Counters, IntervalTail, SMTT(30) DEF Order, TypeOK, Tickets
  <2> QED
    BY <1>2, <2>1, Zenon DEF take_head, can_publish, Ready, Publishable, TypeOK
<1> QED
  BY <1>1, <1>2, Zenon

(* A flush that ends completes its ticket.                                 *)
LEMMA CompleteStep ==
  ASSUME IInv, NEW t \in Threads, NEW k \in Tickets, k = mine[t], k <= frozen,
         NEW s \in Publishable, value' = [value EXCEPT ![mine[t]] = s],
         UNCHANGED history
  PROVE  Abstract!Next
<1>1. Ready' = Ready \cup {k}
  BY Zenon DEF IInv, TypeOK, Ready
<1>2. Abstract!Complete(k)
  BY <1>1 DEF Abstract!Complete, Tickets, history, IInv, TypeOK
<1> QED
  BY <1>2, Zenon DEF Abstract!Next, Tickets

(* The queue implements ordered publication: a ticket is published only    *)
(* when all tickets frozen before it are published and its flush has       *)
(* ended, whatever the threads do.                                         *)
THEOREM Implements == Spec => InOrder
<1>1. Init => Abstract!Init
  BY Zenon DEF Init, Abstract!Init, Ready, Publishable
<1>2. ASSUME IInv, [Next]_vars
      PROVE  [Abstract!Next]_(Abstract!vars)
  <2> USE <1>2
  <2>1. CASE UNCHANGED vars
    BY <2>1, Zenon DEF vars, Abstract!vars, Ready, ticketVars, history
  <2>2. ASSUME NEW t \in Threads, Freeze(t, "freezeFlush", "pushFlush")
                                    \/ Freeze(t, "freezeDeletes", "pushDeletes")
        PROVE  Abstract!Next
    <3>1. frozen < MaxTickets
      BY <2>2, Zenon DEF Freeze, Go, IInv, Mine, Freezing
    <3> QED
      BY <2>2, <3>1, Zenon DEF Freeze, ticketVars, Ready, Abstract!Next, Abstract!Freeze
  <2>3. ASSUME NEW t \in Threads, Push(t, "pushDeletes", "idle", "deletes")
        PROVE  Abstract!Next
    <3>1. mine[t] = frozen /\ frozen \in Tickets /\ frozen <= frozen
      BY <2>3 DEF Push, Go, IInv, Mine, Pushing, TypeOK, Tickets
    <3> QED
      BY <2>3, <3>1, CompleteStep, Zenon DEF Push, Publishable
  <2>4. ASSUME NEW t \in Threads, add_segment(t) \/ mark_ticket_failed(t)
        PROVE  Abstract!Next
    <3>1. mine[t] \in Tickets /\ value[mine[t]] = "open"
      BY <2>4, Zenon DEF add_segment, mark_ticket_failed, Go, IInv, Mine, Flushing
    <3>2. mine[t] <= frozen
      BY <3>1, Counters DEF IInv, Map, Tickets
    <3> QED
      BY <2>4, <3>1, <3>2, CompleteStep, Zenon
         DEF add_segment, mark_ticket_failed, Complete, Publishable
  <2>5. ASSUME NEW t \in Threads, publish(t)
        PROVE  Abstract!Next
    <3>1. purge = t /\ purge # NoThread /\ pc[t] = "publish"
      BY <2>5, ConstantsAssumption, Zenon DEF publish, Consume, Go, IInv, Locks, Purging
    <3>2. mine[t] = Len(published) + 1 /\ mine[t] \in Tickets /\ value[mine[t]] = "gone"
      BY <3>1, Counters DEF IInv, Mine, Map, Taken, Tickets, TypeOK
    <3>3. Abstract!Publish(mine[t])
      BY <2>5, <3>2, Zenon DEF publish, Consume, ticketVars, Ready, Abstract!Publish
    <3> QED
      BY <3>2, <3>3, Zenon DEF Abstract!Next, Tickets
  <2>6. ASSUME NEW t \in Threads, Push(t, "pushFlush", "flush", "open") \/ take_head(t)
        PROVE  UNCHANGED Abstract!vars
    BY <2>6, ReadyOnlyGrows, Zenon DEF Push, take_head, history, Abstract!vars
  <2>7. ASSUME UNCHANGED <<value, history>>
        PROVE  UNCHANGED Abstract!vars
    BY <2>7, Zenon DEF Ready, history, Abstract!vars
  <2>8. ASSUME NEW t \in Threads, AddDocument(t) \/ AddTicket(t) \/ Flush(t) \/ Purge(t)
        PROVE  [Abstract!Next]_(Abstract!vars)
    <3>1. CASE AddDocument(t)
      BY <2>7, <3>1, Zenon DEF AddDocument, ticketVars
    <3>2. CASE AddTicket(t)
      BY <2>2, <2>3, <2>6, <2>7, <3>2, Zenon DEF AddTicket, add_flush_ticket,
         add_deletes_ticket, inc_tickets, prepare_flush, maybe_freeze_global_buffer,
         dec_tickets, push_ticket
    <3>3. CASE Flush(t)
      BY <2>4, <2>7, <3>3, Zenon DEF Flush, flush_failed, subtract_flushed_num_docs, ticketVars
    <3>4. CASE Purge(t)
      BY <2>5, <2>6, <2>7, <3>4, Zenon DEF Purge, try_purge, lock_purge, pop_ticket, purge_ends,
         unlock_purge, force_purge, ticketVars
    <3> QED
      BY <2>8, <3>1, <3>2, <3>3, <3>4, Zenon
  <2>9. CASE DeleteTerms \/ any_changes \/ read_changes \/ return_changes
    BY <2>7, <2>9, Zenon DEF DeleteTerms, any_changes, read_changes, Read, return_changes,
       ticketVars
  <2> QED
    BY <2>1, <2>8, <2>9, Zenon DEF Next
<1> QED
  BY <1>1, <1>2, Invariance, PTL DEF Spec, InOrder, Abstract!Spec
=============================================================================
