------------------------ MODULE PreemptiveScheduler -------------------------
(***************************************************************************)
(* What the scheduler promises its users: "Priority-based preemptive       *)
(* scheduler" (README.md:5).  There are no lists, no tick and no pending   *)
(* interrupt here, only the tasks that can run, their priorities (0 is the *)
(* most urgent) and the task the CPU executes.                             *)
(***************************************************************************)
EXTENDS Naturals

CONSTANTS Task, Idle, NoTask

VARIABLES runnable, prio, running

vars == <<runnable, prio, running>>

MostUrgent == { t \in runnable : \A u \in runnable : prio[t] <= prio[u] }

Init ==
    /\ runnable = {Idle}
    /\ prio \in [Task -> Nat]
    /\ running = NoTask

(* A task is created or woken.                                             *)
Admit(t) ==
    /\ t \notin runnable
    /\ runnable' = runnable \union {t}
    /\ \A u \in Task \ {t} : prio'[u] = prio[u]
    /\ UNCHANGED running

(* A task sleeps, blocks or is suspended.  Only the running task can do    *)
(* that to itself or another, and it runs by right.                        *)
Leave(t) ==
    /\ running \in MostUrgent
    /\ t \in runnable \ {Idle}
    /\ runnable' = runnable \ {t}
    /\ UNCHANGED <<prio, running>>

Reprioritise(t) ==
    /\ \A u \in Task \ {t} : prio'[u] = prio[u]
    /\ UNCHANGED <<runnable, running>>

(* The context switch: only to a task nobody is more urgent than.          *)
Switch ==
    /\ running' \in MostUrgent
    /\ UNCHANGED <<runnable, prio>>

Next ==
    \/ \E t \in Task \ {Idle} : Admit(t) \/ Leave(t) \/ Reprioritise(t)
    \/ Switch

(* What no step may do.                                                    *)
Safety == Init /\ [][Next]_vars

(* Urgency wins again and again, however often tasks come and go.          *)
Spec == Safety /\ []<>(running \in MostUrgent)

=============================================================================
