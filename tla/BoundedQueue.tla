---------------------------- MODULE BoundedQueue ----------------------------
(***************************************************************************)
(* What the mailbox and the message queue promise: a queue of bounded size *)
(* from which messages come in the order of their priority and, at one     *)
(* priority, in the order in which they were sent, urgent ones first; every*)
(* message taken out is delivered to one receiver.  A receiver may take a  *)
(* message out and copy it later; until then it occupies its place.        *)
(***************************************************************************)
EXTENDS Naturals, SequencesExt, FiniteSetsExt

CONSTANTS
    Clients,
    Mails,      \* contents of messages
    Prios,      \* their priorities, a larger number being more urgent
    Size,
    Null

Messages == [mail : Mails, prio : Prios]

VARIABLES
    queue,      \* the messages in the queue
    hand,       \* the message each client has taken out and not delivered
    last        \* the content received last in one step

vars == <<queue, hand, last>>

Init == queue = << >> /\ hand = [t \in Clients |-> Null] /\ last = Null

HasRoom == Len(queue) + Cardinality({t \in Clients : hand[t] # Null}) < Size

\* m goes in front of the first message that is less urgent.
Send(m) ==
    /\ HasRoom
    /\ \E n \in 0 .. Len(queue) :
          /\ queue' = InsertAt(queue, n + 1, m)
          /\ \A i \in 1 .. n : queue[i].prio >= m.prio
          /\ n < Len(queue) => queue[n + 1].prio < m.prio
    /\ UNCHANGED <<hand, last>>

Urgent(m) ==
    /\ HasRoom
    /\ queue' = <<m>> \o queue
    /\ UNCHANGED <<hand, last>>

Receive ==
    /\ queue # << >>
    /\ last' = Head(queue).mail
    /\ queue' = Tail(queue)
    /\ UNCHANGED hand

TakeOut(t) ==
    /\ queue # << >> /\ hand[t] = Null
    /\ hand' = [hand EXCEPT ![t] = Head(queue)]
    /\ queue' = Tail(queue)
    /\ UNCHANGED last

Deliver(t) ==
    /\ hand[t] # Null
    /\ hand' = [hand EXCEPT ![t] = Null]
    /\ UNCHANGED <<queue, last>>

Reset == queue' = << >> /\ UNCHANGED <<hand, last>>

Next ==
    \/ \E m \in Messages : Send(m) \/ Urgent(m)
    \/ \E t \in Clients : TakeOut(t) \/ Deliver(t)
    \/ Receive
    \/ Reset

Spec == Init /\ [][Next]_vars

=============================================================================
