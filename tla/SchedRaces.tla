----------------------------- MODULE SchedRaces -----------------------------
(***************************************************************************)
(* Module Sched with a usage rule lifted.  The rules keep an application   *)
(* away from the places where a kernel call re-enables interrupts between  *)
(* reading and using a piece of state; here rt_thread_delete is called     *)
(* with nothing but the checks the code itself performs.                   *)
(***************************************************************************)
EXTENDS Sched

\* rt_thread_delete on a thread whose timer is running.
DeleteSleeper(t, u) ==
    /\ Calls(t, "delete")
    /\ u # t
    /\ Undisturbed(u)
    /\ BeginClose(t, u, <<"close">>)

SpecDelete ==
    Init /\ [][Next \/ \E t \in Threads \ {Idle}, u \in Threads : DeleteSleeper(t, u)]_vars

-----------------------------------------------------------------------------

\* thread.md on rt_thread_delete: "the thread object will be moved out of the
\* thread list" and put "into rt_thread_defunct queue": a closed thread is in
\* no ready list.  It fails when the victim's timer expires between
\* rt_schedule_remove_thread and the disabled section of rt_thread_delete.
ClosedOffReadyTable ==
    \A t \in Threads, p \in Prio : k.stat[t] = "CLOSE" => t \notin ToSet(k.ready[p])

=============================================================================
