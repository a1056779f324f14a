----------------------------- MODULE StarterApp -----------------------------
(***************************************************************************)
(* The starter application (App/Source/app.c): main creates the tasks in   *)
(* the order of their priorities and starts the scheduler; each task then  *)
(* sleeps for its own period, over and over.  It has no interrupt handler  *)
(* of its own, so ticks and context switches are all that interleaves.     *)
(***************************************************************************)
EXTENDS Scheduler

CONSTANT Period     \* APP_TASKn_PERIOD of each task

Uncreated == Tasks \ created

(* The next of the calls of createTask in main.                            *)
CreateNext ==
    \E t \in Uncreated :
        /\ \A u \in Uncreated : BasePrio[t] <= BasePrio[u]
        /\ CreateTask(t)

(* The call of vd_OSsch_start at the end of main.                          *)
StartLast == Uncreated = {} /\ Start

(* A round of the loop of app_task1, app_task2 or app_task3.               *)
TaskLoop ==
    /\ current \in Tasks
    /\ TaskSleep(Period[current])

AppNext ==
    \/ CreateNext
    \/ StartLast
    \/ TaskLoop
    \/ Dispatch
    \/ TickStart
    \/ TickVisit
    \/ TickEnd

AppSpec == Init /\ [][AppNext]_vars

=============================================================================
