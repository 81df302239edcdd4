-------------------------------- MODULE Event -------------------------------
(***************************************************************************)
(* The event set of ipc.c.  A waiter asks for all (RT_EVENT_FLAG_AND) or   *)
(* any (RT_EVENT_FLAG_OR) of some events, and may have the events it gets  *)
(* removed from the set (RT_EVENT_FLAG_CLEAR).  One rt_event_send may wake *)
(* several waiters; all of them see the set as it was before any removal.  *)
(***************************************************************************)
EXTENDS Blocking

CONSTANTS
    Event,      \* the event object: its wait list
    Bits        \* the events

ASSUME EventAssumption == Event \in Waits /\ Bits # {}

Options == [all : BOOLEAN, clear : BOOLEAN]

VARIABLES
    set,        \* event->set
    eventSet,   \* thread->event_set, during a waiting call (no code reads what
    eventInfo,  \* thread->event_info  an earlier call has left in either)
    asked       \* history: the events each waiting call has asked for

evState == <<set, eventSet, eventInfo, asked>>
evVars  == <<blockingVars, evState>>

NoOption == [all |-> FALSE, clear |-> FALSE]

\* rt_event_init
EvInit ==
    /\ BlockingInit
    /\ set = {}
    /\ eventSet = [t \in Threads |-> {}]
    /\ eventInfo = [t \in Threads |-> NoOption]
    /\ asked = [t \in Threads |-> {}]

\* A request s with option o is met by the events that are set.
Met(s, o, events) == IF o.all THEN s \subseteq events ELSE s \cap events # {}

-----------------------------------------------------------------------------

\* _rt_event_recv finds its request met.
EvRecv(t, s, o) ==
    /\ Runs(t)
    /\ Met(s, o, set)
    /\ set' = IF o.clear THEN set \ s ELSE set
    /\ UNCHANGED <<blockingVars, eventSet, eventInfo, asked>>

\* It does not; without a timeout to wait it returns -RT_ETIMEOUT instead.
EvRecvWait(t, s, o) ==
    /\ Runs(t)
    /\ ~ Met(s, o, set)
    /\ WaitOn(t, Event)
    /\ eventSet' = [eventSet EXCEPT ![t] = s]
    /\ eventInfo' = [eventInfo EXCEPT ![t] = o]
    /\ asked' = [asked EXCEPT ![t] = s]
    /\ UNCHANGED set

\* Back from rt_schedule: thread->error is the result, thread->event_set the
\* events received.
EvRecvReturn(t) ==
    /\ At(t, Event)
    /\ Done(t)
    /\ err' = [err EXCEPT ![t] = "EOK"]
    /\ eventSet' = [eventSet EXCEPT ![t] = {}]
    /\ eventInfo' = [eventInfo EXCEPT ![t] = NoOption]
    /\ asked' = [asked EXCEPT ![t] = {}]
    /\ UNCHANGED <<k, timed, set>>

\* Mutant: the search ends with the first waiter it resumes.
SatisfiedFirst(events) ==
    LET s   == k.wait[Event]
        met == {i \in DOMAIN s : Met(eventSet[s[i]], eventInfo[s[i]], events)}
    IN  IF met = {} THEN {} ELSE {s[Min(met)]}

\* The waiters rt_event_send resumes.
Satisfied(events) ==
    {t \in ToSet(k.wait[Event]) : Met(eventSet[t], eventInfo[t], events)}

\* Mutant: the events received are not saved for a waiter for any of them.
ReceivedUnsaved(t, events) == eventSet[t]

\* What thread->event_set of a resumed waiter becomes.
Received(t, events) == IF eventInfo[t].all THEN eventSet[t] ELSE eventSet[t] \cap events

\* Mutant: the events of waiters that do not clear them are removed, too.
RemovedAlways(woken, events) == UNION {Received(t, events) : t \in woken}

\* need_clear_set
Removed(woken, events) == UNION {Received(t, events) : t \in {u \in woken : eventInfo[u].clear}}

\* The disabled section of rt_event_send.
EvSent(s) ==
    LET events == set \cup s
        woken  == Satisfied(events)
    IN  /\ set' = events \ Removed(woken, events)
        /\ eventSet' = [t \in Threads |-> IF t \in woken THEN Received(t, events) ELSE eventSet[t]]
        /\ Wake(woken, "EOK")
        /\ UNCHANGED <<eventInfo, asked>>

EvSend(t, s) ==
    /\ Runs(t)
    /\ EvSent(s)
    /\ k' = ResumeThose(k, Event, Satisfied(set \cup s))
    /\ Call(t, IF Satisfied(set \cup s) # {} THEN <<"sched">> ELSE << >>)

\* rt_event_send called by a handler.
EvSendIsr(s) ==
    /\ EvSent(s)
    /\ k' = IF Satisfied(set \cup s) # {}
            THEN Schedule(ResumeThose(k, Event, Satisfied(set \cup s))) ELSE k
    /\ UNCHANGED pc

\* rt_event_control(RT_IPC_CMD_RESET)
EvReset(t) ==
    /\ Runs(t)
    /\ k' = ResumeAll(k, Event)
    /\ Wake(ToSet(k.wait[Event]), "ERROR")
    /\ set' = {}
    /\ Call(t, <<"sched">>)
    /\ UNCHANGED <<eventSet, eventInfo, asked>>

\* The threads that use the object are users.
EvNext(users) ==
    \/ \E s \in (SUBSET Bits) \ {{}} :
          \/ \E t \in users :
                \/ \E o \in Options : EvRecv(t, s, o) \/ EvRecvWait(t, s, o)
                \/ EvSend(t, s)
          \/ EvSendIsr(s)
    \/ \E t \in users :
          \/ EvRecvReturn(t) \/ EvReset(t)
          \/ (DoSchedule(t) \/ Timeout(t)) /\ UNCHANGED evState
    \/ Slice /\ UNCHANGED evState

EvSpec == EvInit /\ [][EvNext(Threads)]_evVars

-----------------------------------------------------------------------------
(* Properties *)

\* No waiter is left behind: the events that are set do not meet the request
\* of any thread that waits, although a send removes events after its search.
EvNoneLeft ==
    \A t \in ToSet(k.wait[Event]) : ~ Met(asked[t], eventInfo[t], set)

\* A thread that rt_event_send wakes is told events that were set and answer its
\* request, and finds the same answer when it returns, whatever is sent, received
\* or reset in between.
EvTold ==
    [][\A t \in Threads :
         Event \in ToSet(pc[t]) /\ Event \in ToSet(pc'[t]) /\ t \notin ToSet(k'.wait[Event])
           /\ err'[t] = "EOK" =>
              IF t \in ToSet(k.wait[Event])
              THEN \A s \in SUBSET Bits :
                     EvSent(s) =>
                       /\ eventSet'[t] # {} /\ eventSet'[t] \subseteq asked[t] \cap (set \cup s)
                       /\ eventInfo[t].all => eventSet'[t] = asked[t]
              ELSE eventSet'[t] = eventSet[t]]_evVars

\* No event is lost: a send removes only events that one of the waiters it wakes
\* has received and asked to clear, also of those it sends itself.
EvConsumed ==
    [][\A s \in (SUBSET Bits) \ {{}} :
         EvSent(s) => \A e \in (set \cup s) \ set' :
                         \E t \in ToSet(k.wait[Event]) \ ToSet(k'.wait[Event]) :
                             eventInfo[t].clear /\ e \in eventSet'[t]]_evVars

=============================================================================
