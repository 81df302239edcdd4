------------------------------ MODULE MCObjects -----------------------------
(***************************************************************************)
(* The semaphore, the event set, the mailbox and the message queue on one  *)
(* instance of threads and handlers.  The objects share no state: each     *)
(* behaviour uses the one kind says.                                       *)
(***************************************************************************)
EXTENDS Semaphore, Event, Mailbox, MessageQueue

CONSTANTS a, b, c, Kinds

VARIABLE kind   \* the object the behaviour uses

\* a is the most urgent thread, b and c share a priority.
MCBasePrio == [t \in Threads |-> CASE t = a -> 0 [] t = Idle -> NPrio - 1 [] OTHER -> 1]

Init ==
    /\ kind \in Kinds
    /\ SemInit /\ EvInit /\ MbInit /\ MqInit
    /\ kind # "sem" => value = 0

Next ==
    /\ UNCHANGED kind
    /\ \/ kind = "sem"    /\ SemNext({a, b, c}) /\ UNCHANGED <<evState, mbState, mqState>>
       \/ kind = "event"  /\ EvNext({a, b})     /\ UNCHANGED <<value, mbState, mqState>>
       \/ /\ \/ kind = "mb"  /\ MbNext({a, b}, Bits)
             \/ kind = "mb3" /\ MbNext({a, b, c}, Mails \ Bits)
          /\ UNCHANGED <<value, evState, mqState>>
       \/ /\ \/ kind = "mq"     /\ MqNext({a, b}, Bits, MqPrios, {})
             \/ kind = "urgent" /\ MqNext({a, b}, Bits, {0}, Bits)
             \/ kind = "mq3"    /\ MqNext({a, b, c}, Letters \ Bits, {0}, {})
          /\ UNCHANGED <<value, evState, mbState>>

Spec == Init /\ [][Next]_<<semVars, evVars, mbVars, mqVars, kind>>

\* The values of Bits are used for events and for the messages of two threads;
\* three threads send one more value that is all alike.
Symmetry == Permutations(Bits) \cup Permutations(Nodes)

=============================================================================
