------------------------- MODULE CountingSemaphore --------------------------
(***************************************************************************)
(* What rt_sem_take, rt_sem_release and rt_sem_control promise: a counter  *)
(* that is never taken below zero or released above its limit, a released  *)
(* token that goes to the first waiter or into the counter but never to    *)
(* both or neither, and a queue in which more urgent clients stand first   *)
(* and equally urgent ones in the order of their arrival.                  *)
(***************************************************************************)
EXTENDS Naturals, SequencesExt

CONSTANTS
    Clients,
    Rank,       \* urgency of each client, the same for all in a FIFO semaphore
    MaxValue

VARIABLES
    value,      \* tokens nobody has
    queue,      \* the clients that wait
    got         \* outcome of the call of each client

vars == <<value, queue, got>>

Init ==
    /\ value \in 0 .. MaxValue
    /\ queue = << >>
    /\ got = [t \in Clients |-> "none"]

Acquire(t) ==
    /\ got[t] = "none"
    /\ value > 0
    /\ value' = value - 1
    /\ UNCHANGED <<queue, got>>

\* t stands in front of the first client that is less urgent.
Enter(t) ==
    /\ got[t] = "none"
    /\ value = 0
    /\ \E n \in 0 .. Len(queue) :
          /\ queue' = InsertAt(queue, n + 1, t)
          /\ \A i \in 1 .. n : Rank[queue[i]] <= Rank[t]
          /\ n < Len(queue) => Rank[queue[n + 1]] > Rank[t]
    /\ got' = [got EXCEPT ![t] = "waits"]
    /\ UNCHANGED value

\* A release with a client waiting: the token is handed over.
Grant ==
    /\ queue # << >>
    /\ queue' = Tail(queue)
    /\ got' = [got EXCEPT ![Head(queue)] = "token"]
    /\ UNCHANGED value

\* A release without.
Deposit ==
    /\ queue = << >>
    /\ value < MaxValue
    /\ value' = value + 1
    /\ UNCHANGED <<queue, got>>

GiveUp(t) ==
    /\ got[t] = "waits"
    /\ \E i \in DOMAIN queue : queue[i] = t /\ queue' = RemoveAt(queue, i)
    /\ got' = [got EXCEPT ![t] = "failed"]
    /\ UNCHANGED value

Reset(v) ==
    /\ value' = v
    /\ queue' = << >>
    /\ got' = [t \in Clients |-> IF got[t] = "waits" THEN "failed" ELSE got[t]]

Return(t) ==
    /\ got[t] \in {"token", "failed"}
    /\ got' = [got EXCEPT ![t] = "none"]
    /\ UNCHANGED <<value, queue>>

Next ==
    \/ \E t \in Clients : Acquire(t) \/ Enter(t) \/ GiveUp(t) \/ Return(t)
    \/ Grant \/ Deposit
    \/ \E v \in 0 .. MaxValue : Reset(v)

Spec == Init /\ [][Next]_vars

=============================================================================
