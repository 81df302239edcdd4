------------------------------ MODULE MCSched -------------------------------
(* Sched for TLC: idle and up to three threads, three priorities. *)
EXTENDS SchedInv, TLC

CONSTANTS a, b, c

MCSlice == [t \in Threads |-> IF t = Idle THEN 2 ELSE 1]
MCLongSlice == [t \in Threads |-> 2]

\* Every priority for every thread; idle has the lowest.
MCPrios == [t \in Threads |-> IF t = Idle THEN {NPrio - 1} ELSE 0 .. NPrio - 1]
\* Fixed: one urgent thread, the others share a priority.
MCFixed == [t \in Threads |-> IF t = Idle THEN {NPrio - 1} ELSE IF t = a THEN {0} ELSE {1}]
\* All threads of one priority.
MCEqual == [t \in Threads |-> IF t = Idle THEN {NPrio - 1} ELSE {0}]

\* b and c are interchangeable under MCFixed, a and b under MCPrios.
SymBC == Permutations({b, c})
SymAB == Permutations({a, b})
=============================================================================
