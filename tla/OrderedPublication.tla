------------------------- MODULE OrderedPublication -------------------------
(***************************************************************************)
(* What the ticket queue promises to IndexWriter: flush tickets are        *)
(* published one by one in the order in which their deletes were frozen,   *)
(* each once and none before its flush has ended.                          *)
(***************************************************************************)
EXTENDS Naturals, Sequences

CONSTANT MaxTickets  \* bound: tickets

VARIABLES
  frozen,     \* tickets made so far, named by the order of freezing
  ready,      \* tickets whose flush has ended
  published,  \* tickets in the order of publication
  lost        \* tickets whose publication failed

vars == <<frozen, ready, published, lost>>

Init == frozen = 0 /\ ready = {} /\ published = <<>> /\ lost = {}

Freeze ==
  /\ frozen < MaxTickets
  /\ frozen' = frozen + 1
  /\ UNCHANGED <<ready, published, lost>>

Complete(k) ==
  /\ k \in 1..frozen
  /\ ready' = ready \cup {k}
  /\ UNCHANGED <<frozen, published, lost>>

(* The next ticket, and no other.                                          *)
Publish(k) ==
  /\ k = Len(published) + 1
  /\ k \in ready
  /\ published' = Append(published, k)
  /\ lost' \in {lost, lost \cup {k}}
  /\ UNCHANGED <<frozen, ready>>

Next ==
  \/ Freeze
  \/ \E k \in 1..MaxTickets : Complete(k) \/ Publish(k)

Spec == Init /\ [][Next]_vars
=============================================================================
