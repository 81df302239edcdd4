------------------------------- MODULE Mailbox ------------------------------
(***************************************************************************)
(* The mailbox of ipc.c: a ring of words with a wait list for receivers    *)
(* and one for senders.  A waiting call that is woken up looks at the ring *)
(* again, and waits again for the time it has left if another thread was   *)
(* faster.                                                                 *)
(***************************************************************************)
EXTENDS Blocking

CONSTANTS
    MbReceivers, MbSenders, \* the wait lists of the mailbox
    MbSize,                 \* mb->size
    Mails,                  \* the words sent
    NoMail

ASSUME MbAssumption ==
    /\ MbReceivers \in Waits /\ MbSenders \in Waits /\ MbReceivers # MbSenders
    /\ MbReceivers \in PrioWaits <=> MbSenders \in PrioWaits
    /\ MbSize \in Nat \ {0}
    /\ NoMail \notin Mails

VARIABLES
    pool,       \* mb->msg_pool
    inOffset,   \* mb->in_offset
    outOffset,  \* mb->out_offset
    entry,      \* mb->entry
    toSend,     \* the word each waiting sender is to send
    mbLast      \* history: the word received last

mbState == <<pool, inOffset, outOffset, entry, toSend, mbLast>>
mbVars  == <<blockingVars, mbState>>

Slots == 0 .. MbSize - 1

\* rt_mb_init
MbInit ==
    /\ BlockingInit
    /\ pool = [i \in Slots |-> NoMail]
    /\ inOffset = 0 /\ outOffset = 0 /\ entry = 0
    /\ toSend = [t \in Threads |-> NoMail]
    /\ mbLast = NoMail

-----------------------------------------------------------------------------
(* The ends of the calls, within one disabled section. *)

\* An offset is advanced, and reset behind the last slot.
NextSlot(i) == IF i + 1 >= MbSize THEN 0 ELSE i + 1

\* The word goes into the ring behind the others.
PutLast(mail) ==
    /\ pool' = [pool EXCEPT ![inOffset] = mail]
    /\ inOffset' = NextSlot(inOffset)
    /\ entry' = entry + 1
    /\ UNCHANGED <<outOffset, mbLast>>

\* Mutant: the word is stored before the offset is moved back.
PutFirstUnmoved(mail) ==
    /\ outOffset' = IF outOffset > 0 THEN outOffset - 1 ELSE MbSize - 1
    /\ pool' = [pool EXCEPT ![outOffset] = mail]
    /\ entry' = entry + 1
    /\ UNCHANGED <<inOffset, mbLast>>

\* It goes in front of the others.
PutFirst(mail) ==
    /\ outOffset' = IF outOffset > 0 THEN outOffset - 1 ELSE MbSize - 1
    /\ pool' = [pool EXCEPT ![outOffset'] = mail]
    /\ entry' = entry + 1
    /\ UNCHANGED <<inOffset, mbLast>>

GetFirst ==
    /\ mbLast' = pool[outOffset]
    /\ outOffset' = NextSlot(outOffset)
    /\ entry' = entry - 1
    /\ UNCHANGED <<pool, inOffset>>

\* Mutant: the other side is woken only when the ring was empty or full.
MbNotifiedEdge(w) == IF entry = (IF w = MbReceivers THEN 0 ELSE MbSize) THEN First(w) ELSE {}

\* The thread on the other side that is told of the change: the first one.
MbNotified(w) == First(w)

\* It is woken, and the call reschedules.
MbNotify(t, w) ==
    /\ k' = IF MbNotified(w) # {} THEN ResumeFirst(k, w) ELSE k
    /\ Wake(MbNotified(w), "EOK")
    /\ Call(t, IF MbNotified(w) # {} THEN <<"sched">> ELSE << >>)

MbSent(t, mail) == PutLast(mail) /\ MbNotify(t, MbReceivers)
MbReceived(t)   == GetFirst /\ MbNotify(t, MbSenders)

MbDone(t) == toSend' = [toSend EXCEPT ![t] = NoMail]

-----------------------------------------------------------------------------
(* Calls of threads.  Without a time to wait a call that finds the mailbox    *)
(* full or empty returns an error and changes nothing.                        *)

MbSend(t, mail) ==
    /\ Runs(t)
    /\ entry < MbSize
    /\ MbSent(t, mail)
    /\ UNCHANGED toSend

MbSendWait(t, mail) ==
    /\ Runs(t)
    /\ entry = MbSize
    /\ WaitOn(t, MbSenders)
    /\ toSend' = [toSend EXCEPT ![t] = mail]
    /\ UNCHANGED <<pool, inOffset, outOffset, entry, mbLast>>

MbUrgent(t, mail) ==
    /\ Runs(t)
    /\ entry < MbSize
    /\ PutFirst(mail)
    /\ MbNotify(t, MbReceivers)
    /\ UNCHANGED toSend

MbRecv(t) ==
    /\ Runs(t)
    /\ entry > 0
    /\ MbReceived(t)
    /\ UNCHANGED toSend

MbRecvWait(t) ==
    /\ Runs(t)
    /\ entry = 0
    /\ WaitOn(t, MbReceivers)
    /\ UNCHANGED mbState

\* A waiting call on w is woken with an error, or finds its time used up.
MbGiveUp(t, w) ==
    /\ At(t, w)
    /\ \/ err[t] # "EOK"
       \/ entry = (IF w = MbSenders THEN MbSize ELSE 0)
    /\ Done(t)
    /\ err' = [err EXCEPT ![t] = "EOK"]
    /\ MbDone(t)
    /\ UNCHANGED <<k, timed, pool, inOffset, outOffset, entry, mbLast>>

\* It was woken, but another thread was faster, and it has time left.
MbWaitAgain(t, w) ==
    /\ At(t, w)
    /\ err[t] = "EOK"
    /\ entry = (IF w = MbSenders THEN MbSize ELSE 0)
    /\ WaitOn(t, w)
    /\ UNCHANGED mbState

MbSendWoken(t) ==
    /\ At(t, MbSenders)
    /\ err[t] = "EOK"
    /\ entry < MbSize
    /\ MbSent(t, toSend[t])
    /\ MbDone(t)

MbRecvWoken(t) ==
    /\ At(t, MbReceivers)
    /\ err[t] = "EOK"
    /\ entry > 0
    /\ MbReceived(t)
    /\ MbDone(t)

\* rt_mb_send in a handler: it does not wait.
MbSendIsr(mail) ==
    /\ entry < MbSize
    /\ PutLast(mail)
    /\ k' = IF MbNotified(MbReceivers) # {} THEN Schedule(ResumeFirst(k, MbReceivers)) ELSE k
    /\ Wake(MbNotified(MbReceivers), "EOK")
    /\ UNCHANGED <<pc, toSend>>

\* rt_mb_control(RT_IPC_CMD_RESET)
MbReset(t) ==
    /\ Runs(t)
    /\ k' = ResumeAll(ResumeAll(k, MbReceivers), MbSenders)
    /\ Wake(ToSet(k.wait[MbReceivers]) \cup ToSet(k.wait[MbSenders]), "ERROR")
    /\ entry' = 0 /\ inOffset' = 0 /\ outOffset' = 0
    /\ Call(t, <<"sched">>)
    /\ UNCHANGED <<pool, toSend, mbLast>>

\* The threads users send mails.
MbNext(users, mails) ==
    \/ \E t \in users :
          \/ \E mail \in mails :
                MbSend(t, mail) \/ MbSendWait(t, mail) \/ MbUrgent(t, mail)
          \/ MbRecv(t) \/ MbRecvWait(t)
          \/ \E w \in {MbReceivers, MbSenders} : MbGiveUp(t, w) \/ MbWaitAgain(t, w)
          \/ MbSendWoken(t) \/ MbRecvWoken(t) \/ MbReset(t)
          \/ (DoSchedule(t) \/ Timeout(t)) /\ UNCHANGED mbState
    \/ \E mail \in mails : MbSendIsr(mail)
    \/ Slice /\ UNCHANGED mbState

MbSpec == MbInit /\ [][MbNext(Threads, Mails)]_mbVars

-----------------------------------------------------------------------------
(* Properties *)

\* The words in the ring, oldest first.
MbContents == [i \in 1 .. entry |-> [mail |-> pool[(outOffset + i - 1) % MbSize], prio |-> 0]]

MbQueue == INSTANCE BoundedQueue WITH
    Clients <- Threads, Prios <- {0}, Size <- MbSize, Null <- NoMail,
    queue <- MbContents, hand <- [t \in Threads |-> NoMail], last <- mbLast

\* The ring with its offsets that wrap around, rewound by urgent words, is a
\* bounded queue: words come out in order, urgent ones first, each once.
MbImplements == MbQueue!Spec

\* No wake-up is lost: while a receiver (sender) waits, there are no more
\* words (free slots) than threads woken up to take them, whatever timeouts,
\* resets and faster threads have come between.
MbNoLostWakeup ==
    /\ k.wait[MbReceivers] # << >> => entry <= Cardinality(Woken(MbReceivers))
    /\ k.wait[MbSenders] # << >> => MbSize - entry <= Cardinality(Woken(MbSenders))

=============================================================================
