------------------------------ MODULE MCMutex -------------------------------
(* Mutex for TLC: idle and three threads of distinct priorities, two mutexes. *)
EXTENDS Mutex, TLC

CONSTANTS a, b, c, m1, m2

MCBase == [t \in Threads |-> CASE t = a -> 0 [] t = b -> 1 [] t = c -> 2 [] OTHER -> NPrio - 1]

\* The mutexes are interchangeable.
SymMutex == Permutations({m1, m2})

\* Bound: one mutex at a time is held twice, and none in a behaviour with a
\* ceiling, which only one mutex has.  (Neither the nested take nor the nested
\* release looks at a priority.)
NestedOrCeiling ==
    /\ \A m, n \in Mutexes : hold[m] > 1 => ceil[n] = Lowest /\ (hold[n] > 1 => m = n)
    /\ \A m, n \in Mutexes : ceil[m] # Lowest /\ ceil[n] # Lowest => m = n

BoundedSpec == Init /\ [][Next /\ NestedOrCeiling']_vars
=============================================================================
