----------------------------- MODULE KernelInv ------------------------------
(***************************************************************************)
(* When a kernel state is consistent.  Every module that works on kernel   *)
(* states keeps this invariant between its disabled sections.              *)
(***************************************************************************)
EXTENDS Kernel

\* Sequence s holds the threads of set S, each once.
Holds(s, S) == s \in Seq(Threads) /\ IsInjective(s) /\ ToSet(s) = S

\* Bit p of the group is set iff ready list p is not empty.
GroupOK(x) == x.group = {p \in Prio : x.ready[p] # << >>}

\* number_mask is the bit of current_priority.
MaskOK(x, t) == x.mask[t] = {x.prio[t]}

\* The threads of X aside, which are in no list, the lists of kernel state x
\* are what the state words of the threads say.
LinksOK(x, X) ==
    /\ \A p \in Prio :
          Holds(x.ready[p], {t \in Threads : x.stat[t] = "READY" /\ x.prio[t] = p /\ t \notin X})
    /\ Holds(x.defunct, {t \in Threads : x.stat[t] = "CLOSE" /\ t \notin X})
    /\ \A w \in Waits :
          /\ Holds(x.wait[w], ToSet(x.wait[w]))
          /\ \A t \in ToSet(x.wait[w]) : x.stat[t] = "SUSPEND" /\ t \notin X
    /\ \A v, w \in Waits : v # w => ToSet(x.wait[v]) \cap ToSet(x.wait[w]) = {}
    /\ \A t \in Threads :
          x.stat[t] \in {"READY", "RUNNING", "SUSPEND"} => MaskOK(x, t)

KernelOK(x, X) == x \in KernelState /\ GroupOK(x) /\ LinksOK(x, X)

=============================================================================
