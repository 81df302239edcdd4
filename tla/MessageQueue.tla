---------------------------- MODULE MessageQueue ----------------------------
(***************************************************************************)
(* The message queue of ipc.c with message priorities                      *)
(* (RT_USING_MESSAGEQUEUE_PRIORITY).  Messages are nodes of a pool.  A     *)
(* sender takes a free node, copies its message with interrupts enabled    *)
(* and links the node in a second disabled section; a receiver unlinks a   *)
(* node, copies, and frees it in a second section.                         *)
(***************************************************************************)
EXTENDS Blocking

CONSTANTS
    MqReceivers, MqSenders, \* the wait lists of the message queue
    Nodes,                  \* the nodes of mq->msg_pool
    Letters,                \* contents of messages
    MqPrios,                \* priorities of messages
    NoNode, NoLetter

ASSUME MqAssumption ==
    /\ MqReceivers \in Waits /\ MqSenders \in Waits /\ MqReceivers # MqSenders
    /\ MqReceivers \in PrioWaits <=> MqSenders \in PrioWaits
    /\ {"sched", "link", "urgent", "free"} \cap Waits = {}
    /\ IsFiniteSet(Nodes) /\ Nodes # {} /\ NoNode \notin Nodes
    /\ MqPrios \subseteq Int /\ 0 \in MqPrios
    /\ NoLetter \notin Letters \cup [mail : Letters \cup {NoLetter}, prio : MqPrios]

VARIABLES
    free,       \* mq->msg_queue_free
    linked,     \* the list from mq->msg_queue_head on
    tail,       \* mq->msg_queue_tail
    mqEntry,    \* mq->entry
    node,       \* priority and content of each node; the content only while the
                \* node is in use, as nobody reads what is left in a free one
    mine,       \* the node a call of each thread is about to link or to free
    letter      \* the message of the sending call of each thread

mqState == <<free, linked, tail, mqEntry, node, mine, letter>>
mqVars  == <<blockingVars, mqState>>

Messages == [mail : Letters \cup {NoLetter}, prio : MqPrios]
Blank    == [mail |-> NoLetter, prio |-> 0]

\* rt_mq_init; the pool was cleared before.
MqInit ==
    /\ BlockingInit
    /\ free = SetToSeq(Nodes)
    /\ linked = << >>
    /\ tail = NoNode
    /\ mqEntry = 0
    /\ node = [n \in Nodes |-> Blank]
    /\ mine = [t \in Threads |-> NoNode]
    /\ letter = [t \in Threads |-> Blank]

-----------------------------------------------------------------------------
(* Parts of the calls, within one disabled section *)

\* A free node leaves the free list.
TakeNode(t) ==
    /\ mine' = [mine EXCEPT ![t] = Head(free)]
    /\ free' = Tail(free)

\* Mutant: the message goes in front of those of its own priority.
LinkBeforeEqual(n, m) ==
    LET after == {i \in DOMAIN linked : node[linked[i]].prio <= m.prio}
    IN  /\ node' = [node EXCEPT ![n] = m]
        /\ linked' = InsertBeforeFirst(linked, after, n)
        /\ tail' = IF after = {} THEN n ELSE tail
        /\ mqEntry' = mqEntry + 1

\* The node n with message m is linked in front of the first node of a lower
\* priority.
Link(n, m) ==
    LET after == {i \in DOMAIN linked : node[linked[i]].prio < m.prio}
    IN  /\ node' = [node EXCEPT ![n] = m]
        /\ linked' = InsertBeforeFirst(linked, after, n)
        /\ tail' = IF after = {} THEN n ELSE tail
        /\ mqEntry' = mqEntry + 1

\* The node n of an urgent message is linked in front; its field prio keeps
\* the value an earlier message has left there.
LinkUrgent(n, mail) ==
    /\ node' = [node EXCEPT ![n].mail = mail]
    /\ linked' = <<n>> \o linked
    /\ tail' = IF tail = NoNode THEN n ELSE tail
    /\ mqEntry' = mqEntry + 1

\* Mutant: the tail of an emptied queue stays.
UnlinkKeepsTail(t) ==
    /\ mine' = [mine EXCEPT ![t] = Head(linked)]
    /\ linked' = Tail(linked)
    /\ tail' = tail
    /\ mqEntry' = mqEntry - 1

Unlink(t) ==
    /\ mine' = [mine EXCEPT ![t] = Head(linked)]
    /\ linked' = Tail(linked)
    /\ tail' = IF tail = Head(linked) THEN NoNode ELSE tail
    /\ mqEntry' = mqEntry - 1

\* Mutant: the other side is woken only when the queue was empty or full.
MqNotifiedEdge(w) ==
    IF (IF w = MqReceivers THEN mqEntry = 0 ELSE free = << >>) THEN First(w) ELSE {}

\* The thread on the other side that is told of the change: the first one.
MqNotified(w) == First(w)

\* It is woken, and the call reschedules.
MqNotify(t, w) ==
    /\ k' = IF MqNotified(w) # {} THEN ResumeFirst(k, w) ELSE k
    /\ Wake(MqNotified(w), "EOK")
    /\ Call(t, IF MqNotified(w) # {} THEN <<"sched">> ELSE << >>)

-----------------------------------------------------------------------------
(* Sending.  Without a time to wait a call that finds the queue full or empty *)
(* returns an error and changes nothing.                                      *)

\* The first section of _rt_mq_send_wait finds a free node.
MqSend(t, m) ==
    /\ Runs(t)
    /\ free # << >>
    /\ TakeNode(t)
    /\ letter' = [letter EXCEPT ![t] = m]
    /\ Call(t, <<"link">>)
    /\ UNCHANGED <<k, timed, err, linked, tail, mqEntry, node>>

MqSendWait(t, m) ==
    /\ Runs(t)
    /\ free = << >>
    /\ WaitOn(t, MqSenders)
    /\ letter' = [letter EXCEPT ![t] = m]
    /\ UNCHANGED <<free, linked, tail, mqEntry, node, mine>>

\* A waiting sender was woken and there is a free node.
MqSendWoken(t) ==
    /\ At(t, MqSenders)
    /\ err[t] = "EOK"
    /\ free # << >>
    /\ TakeNode(t)
    /\ Call(t, <<"link">>)
    /\ UNCHANGED <<k, timed, err, linked, tail, mqEntry, node, letter>>

\* The copy, and the second section.
MqLink(t) ==
    /\ At(t, "link")
    /\ Link(mine[t], letter[t])
    /\ MqNotify(t, MqReceivers)
    /\ mine' = [mine EXCEPT ![t] = NoNode]
    /\ letter' = [letter EXCEPT ![t] = Blank]
    /\ UNCHANGED <<free>>

\* rt_mq_urgent, first section.
MqUrgent(t, mail) ==
    /\ Runs(t)
    /\ free # << >>
    /\ TakeNode(t)
    /\ letter' = [letter EXCEPT ![t] = [mail |-> mail, prio |-> 0]]
    /\ Call(t, <<"urgent">>)
    /\ UNCHANGED <<k, timed, err, linked, tail, mqEntry, node>>

MqLinkUrgent(t) ==
    /\ At(t, "urgent")
    /\ LinkUrgent(mine[t], letter[t].mail)
    /\ MqNotify(t, MqReceivers)
    /\ mine' = [mine EXCEPT ![t] = NoNode]
    /\ letter' = [letter EXCEPT ![t] = Blank]
    /\ UNCHANGED <<free>>

\* rt_mq_send in a handler: both sections without an interruption.
MqSendIsr(m) ==
    /\ free # << >>
    /\ Link(Head(free), m)
    /\ free' = Tail(free)
    /\ k' = IF MqNotified(MqReceivers) # {} THEN Schedule(ResumeFirst(k, MqReceivers)) ELSE k
    /\ Wake(MqNotified(MqReceivers), "EOK")
    /\ UNCHANGED <<pc, mine, letter>>

-----------------------------------------------------------------------------
(* Receiving *)

\* The first section of _rt_mq_recv, at the call or after a wake-up.
MqRecv(t) ==
    /\ Runs(t) \/ (At(t, MqReceivers) /\ err[t] = "EOK")
    /\ mqEntry > 0
    /\ Unlink(t)
    /\ Call(t, <<"free">>)
    /\ UNCHANGED <<k, timed, err, free, node, letter>>

MqRecvWait(t) ==
    /\ Runs(t)
    /\ mqEntry = 0
    /\ WaitOn(t, MqReceivers)
    /\ UNCHANGED mqState

\* The copy, and the second section.
MqFree(t) ==
    /\ At(t, "free")
    /\ node' = [node EXCEPT ![mine[t]].mail = NoLetter]
    /\ free' = <<mine[t]>> \o free
    /\ mine' = [mine EXCEPT ![t] = NoNode]
    /\ MqNotify(t, MqSenders)
    /\ UNCHANGED <<linked, tail, mqEntry, letter>>

-----------------------------------------------------------------------------

MqBlocked(w) == IF w = MqSenders THEN free = << >> ELSE mqEntry = 0

\* A waiting call on w is woken with an error, or finds its time used up.
MqGiveUp(t, w) ==
    /\ At(t, w)
    /\ err[t] # "EOK" \/ MqBlocked(w)
    /\ Done(t)
    /\ err' = [err EXCEPT ![t] = "EOK"]
    /\ letter' = [letter EXCEPT ![t] = Blank]
    /\ UNCHANGED <<k, timed, free, linked, tail, mqEntry, node, mine>>

\* It was woken, but another thread was faster, and it has time left.
MqWaitAgain(t, w) ==
    /\ At(t, w)
    /\ err[t] = "EOK"
    /\ MqBlocked(w)
    /\ WaitOn(t, w)
    /\ UNCHANGED mqState

\* rt_mq_control(RT_IPC_CMD_RESET)
MqReset(t) ==
    /\ Runs(t)
    /\ k' = ResumeAll(ResumeAll(k, MqReceivers), MqSenders)
    /\ Wake(ToSet(k.wait[MqReceivers]) \cup ToSet(k.wait[MqSenders]), "ERROR")
    /\ free' = Reverse(linked) \o free
    /\ linked' = << >> /\ tail' = NoNode /\ mqEntry' = 0
    /\ node' = [n \in Nodes |-> IF n \in ToSet(linked) THEN [node[n] EXCEPT !.mail = NoLetter]
                                                        ELSE node[n]]
    /\ Call(t, <<"sched">>)
    /\ UNCHANGED <<mine, letter>>

\* The threads users send letters with the priorities prios, and urgents by
\* rt_mq_urgent.
MqNext(users, letters, prios, urgents) ==
    \/ \E t \in users :
          \/ \E m \in [mail : letters, prio : prios] : MqSend(t, m) \/ MqSendWait(t, m)
          \/ MqSendWoken(t) \/ MqLink(t)
          \/ \E mail \in urgents : MqUrgent(t, mail)
          \/ MqLinkUrgent(t)
          \/ MqRecv(t) \/ MqRecvWait(t) \/ MqFree(t) \/ MqReset(t)
          \/ \E w \in {MqReceivers, MqSenders} : MqGiveUp(t, w) \/ MqWaitAgain(t, w)
          \/ (DoSchedule(t) \/ Timeout(t)) /\ UNCHANGED mqState
    \/ \E m \in [mail : letters, prio : prios] : MqSendIsr(m)
    \/ Slice /\ UNCHANGED mqState

MqSpec == MqInit /\ [][MqNext(Threads, Letters, MqPrios, Letters)]_mqVars

-----------------------------------------------------------------------------
(* Properties *)

\* Receivers that have unlinked a message and not freed its node yet.
Copying == {t \in Threads : pc[t] # << >> /\ Head(pc[t]) = "free"}

MqQueue == INSTANCE BoundedQueue WITH
    Clients <- Threads, Mails <- Letters, Prios <- MqPrios, Size <- Cardinality(Nodes),
    Null <- NoLetter, last <- NoLetter,
    queue <- [i \in DOMAIN linked |-> node[linked[i]]],
    hand <- [t \in Threads |-> IF t \in Copying THEN node[mine[t]] ELSE NoLetter]

\* Sending and receiving in two sections each, with the copies between them
\* open to interruption by other senders, receivers, handlers and a reset,
\* implements a bounded priority queue: no message is lost, overwritten while
\* it is copied, or received twice.
MqImplements == MqQueue!Spec

\* Every node of the pool is in one place: free, linked, or with the one
\* thread that copies it; head, tail and counter fit the list.
NodesConserved ==
    /\ \A n \in Nodes :
          Cardinality({i \in DOMAIN free : free[i] = n})
            + Cardinality({i \in DOMAIN linked : linked[i] = n})
            + Cardinality({t \in Threads : mine[t] = n}) = 1
    /\ tail = (IF linked = << >> THEN NoNode ELSE Last(linked))
    /\ mqEntry = Len(linked)

\* No wake-up is lost: while a receiver (sender) waits, there are no more
\* messages (free nodes) than threads woken up to take them.
MqNoLostWakeup ==
    /\ k.wait[MqReceivers] # << >> => mqEntry <= Cardinality(Woken(MqReceivers))
    /\ k.wait[MqSenders] # << >> => Len(free) <= Cardinality(Woken(MqSenders))

=============================================================================
