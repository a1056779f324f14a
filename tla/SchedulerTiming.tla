-------------------------- MODULE SchedulerTiming ---------------------------
(***************************************************************************)
(* Scheduler with a history variable: due[t] is the number of ticks after  *)
(* which a sleeping task has slept its period, counted per tick interrupt  *)
(* and not per visit of a node.  It stays at 0 if the task is overdue and   *)
(* never influences a step.                                                *)
(***************************************************************************)
EXTENDS Scheduler

VARIABLE due

timingVars == <<vars, due>>

(* sleepCntr is decremented before it is compared with zero: a period of 0 *)
(* is one of 2^32 ticks.                                                   *)
Ticks(cntr) == IF cntr = 0 THEN CntMod ELSE cntr

Sleeping(t) == flags[t] \intersect CheckBits = {SLEEP}

TimingInit ==
    /\ Init
    /\ due = [t \in AllTasks |-> 0]

TimingNext ==
    \/ /\ TickStart
       /\ due' = [t \in AllTasks |-> IF Sleeping(t) /\ due[t] > 0
                                      THEN due[t] - 1 ELSE due[t]]
    \/ /\ NonTick
       /\ due' = [t \in AllTasks |->
                    IF ~Sleeping(t)' THEN 0
                    ELSE IF ~Sleeping(t) THEN Ticks(sleepCntr'[t])
                    ELSE due[t]]

TimingSpec == TimingInit /\ [][TimingNext]_timingVars

FairTimingSpec == TimingSpec /\ Fairness

(* Between two ticks, every sleeping task has exactly as many counts left  *)
(* as ticks: no tick passes it by and none counts it down twice, whatever  *)
(* is inserted in or removed from the wait list, so a task wakes on its    *)
(* tick ("Check each node that is not suspended", sch.c:833).              *)
WakesOnTime ==
    ~inTick =>
        \A t \in Tasks : Sleeping(t) => Ticks(sleepCntr[t]) = due[t]

-----------------------------------------------------------------------------
(* The scheduler keeps the promise of PreemptiveScheduler.                 *)

Promise == INSTANCE PreemptiveScheduler WITH
               Task     <- AllTasks,
               Idle     <- BG,
               runnable <- { t \in created : flags[t] \intersect CheckBits = {} },
               prio     <- priority,
               running  <- current

(* Scheduler implements PreemptiveScheduler: a switch only ever goes to a  *)
(* most urgent runnable task, a task stops only while the most urgent one  *)
(* runs, and the most urgent one runs again and again (README.md:5).       *)
KeepsPromise == Promise!Spec

=============================================================================
