------------------------------ MODULE MCRaces -------------------------------
(* SchedRaces for TLC: idle and two threads of fixed, distinct priorities. *)
EXTENDS SchedRaces, TLC

CONSTANTS a, b

MCSlice == [t \in Threads |-> 2]
MCPrios == [t \in Threads |-> IF t = Idle THEN {NPrio - 1} ELSE IF t = a THEN {0} ELSE {1}]
=============================================================================
