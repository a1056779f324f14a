----------------------------- MODULE Scheduler ------------------------------
(***************************************************************************)
(* The HuskEOS scheduler (Schedule/Source/sch.c): the ready list, the wait *)
(* list, the task control blocks, the tick interrupt and the PendSV        *)
(* context switch.                                                         *)
(*                                                                         *)
(* Grain of atomicity.  An API body runs between OS_CPU_ENTER_CRITICAL and *)
(* OS_CPU_EXIT_CRITICAL with every interrupt disabled, so it is one step.  *)
(* Triggering the dispatcher only sets the PendSV bit: the switch is a     *)
(* later step (Dispatch), and interrupts may be served in between.  The    *)
(* tick interrupt walks the wait list with only BASEPRI raised, so each    *)
(* node it visits is a step; an interrupt within such a visit is not       *)
(* interleaved but, where a rule lets it come, ends in a fault.            *)
(*                                                                         *)
(* The environment keeps some usage rules, none of which the code checks.  *)
(* Relaxed is the set of the rules it may break:                           *)
(*   "short_sleep"     sleep for no more ticks than can precede PendSV;    *)
(*   "late_wake"       an interrupt wakes, or re-prioritises above the     *)
(*                     pending switch, the task that is being switched out;*)
(*   "isr_in_tick"     an interrupt above the tick's priority calls the OS *)
(*                     between two nodes of the tick's walk;               *)
(*   "isr_in_visit"    it does so while the tick wakes the node it visits, *)
(*                     from the decrement to the end of the relinking;     *)
(*   "wake_blocked"    taskWake on a task that is blocked on a resource;   *)
(*   "suspend_waiting" taskSuspend on the task at the head of the wait list*)
(*   "runtime_create"  createTask after the scheduler has started.         *)
(***************************************************************************)
EXTENDS TaskList

CONSTANTS
    Tasks,      \* application tasks
    BG,         \* the background task, created by vd_OS_init
    NoTask,     \* NULL where a task is expected
    BasePrio,   \* priority each task is created with
    Priorities, \* priorities a mutex may lend
    Resources,  \* objects a task can block on
    KindOf,     \* their type
    NoRes,      \* NULL where a resource is expected
    Periods,    \* arguments of taskSleep and of the blocking calls
    WakeTimes,  \* arguments of taskSleepSetFreq
    MaxTick,    \* SCH_MAX_NUM_TICK
    CntMod,     \* 2^32, the width of sleepCntr
    LateTicks,  \* bound: ticks served before a pending PendSV is taken
    Relaxed     \* usage rules the environment may break

Rules == { "short_sleep", "late_wake", "isr_in_tick", "isr_in_visit",
           "wake_blocked", "suspend_waiting", "runtime_create" }

Kinds == { "mbox", "queue", "sema", "flags", "mutex" }

AllTasks == Tasks \union {BG}

ASSUME TaskAssumption ==
    /\ BG \notin Tasks
    /\ NoTask \notin AllTasks
    /\ BasePrio \in [AllTasks -> Nat]
    /\ Priorities \subseteq Nat
    /\ \A t \in Tasks : BasePrio[t] < BasePrio[BG]
    /\ \A p \in Priorities : p < BasePrio[BG]

(* Node_s_ap_mapTaskIDToTCB has RTOS_CONFIG_MAX_NUM_TASKS entries.          *)
ASSUME FiniteAssumption == IsFiniteSet(Tasks)

ASSUME ResourceAssumption ==
    /\ NoRes \notin Resources
    /\ KindOf \in [Resources -> Kinds]

ASSUME TickAssumption ==
    /\ MaxTick \in Nat \ {0}
    /\ CntMod \in Nat
    /\ LateTicks \in Nat
    /\ MaxTick < CntMod
    /\ LateTicks + 1 < CntMod
    /\ Periods \subseteq 0 .. CntMod - 1
    /\ WakeTimes \subseteq 0 .. CntMod - 1

ASSUME RelaxedAssumption == Relaxed \subseteq Rules

VARIABLES
    ready,      \* node_s_p_headOfReadyList
    wait,       \* node_s_p_headOfWaitList
    created,    \* tasks in Node_s_ap_mapTaskIDToTCB
    flags,      \* TCB flags, as the set of bits that are set
    sleepCntr,  \* TCB sleepCntr
    resource,   \* TCB resource
    wakeReason, \* TCB wakeReason
    priority,   \* TCB priority
    current,    \* tcb_g_p_currentTaskBlock
    next,       \* tcb_g_p_nextTaskBlock
    pend,       \* the PendSV bit of the interrupt controller
    late,       \* ticks served since pend was set
    started,    \* vd_OSsch_start was called
    tickCntr,   \* u4_s_tickCntr
    inTick,     \* the tick interrupt is walking the wait list
    cursor,     \* node_t_p_check of that walk
    fault       \* what undefined or fatal outcome was reached, if any

listVars == <<ready, wait, created>>
switchVars == <<current, next, pend, late, started>>
tickVars == <<tickCntr, inTick, cursor>>
vars == <<listVars, flags, sleepCntr, resource, wakeReason, priority,
          switchVars, tickVars, fault>>

-----------------------------------------------------------------------------
(* Flag bits of a TCB.  The resource codes are numbers 1..5, not one bit   *)
(* each: a semaphore (3) sets the bits of a mailbox (1) and a queue (2).   *)

SLEEP     == 16
SUSPENDED == 32
CheckBits == {SLEEP, SUSPENDED}
ResourceBits == {1, 2, 4}

BitsOf == [mbox |-> {1}, queue |-> {2}, sema |-> {1, 2},
           flags |-> {4}, mutex |-> {1, 4}]

Reasons == Kinds \union {"timeout", "none"}

Undefined == 255    \* SCH_TASK_PRIORITY_UNDEFINED

(* vd_OS_init has run: only the background task exists.                    *)
Init ==
    /\ ready = <<BG>>
    /\ wait = << >>
    /\ created = {BG}
    /\ flags = [t \in AllTasks |-> {}]
    /\ sleepCntr = [t \in AllTasks |-> 0]
    /\ resource = [t \in AllTasks |-> NoRes]
    /\ wakeReason = [t \in AllTasks |-> "timeout"]
    /\ priority = [t \in AllTasks |->
                     IF t = BG THEN BasePrio[BG] ELSE Undefined]
    /\ current = NoTask
    /\ next = NoTask
    /\ pend = FALSE
    /\ late = 0
    /\ started = FALSE
    /\ tickCntr = 0
    /\ inTick = FALSE
    /\ cursor = NoTask
    /\ fault = "none"

-----------------------------------------------------------------------------
(* Who may run.  A task executes only when no switch and no interrupt is   *)
(* in progress; an interrupt may also come while a switch is pending.      *)

TaskRuns ==
    /\ fault = "none"
    /\ started
    /\ ~pend
    /\ ~inTick
    /\ current # BG

InterruptRuns ==
    /\ fault = "none"
    /\ started
    /\ inTick => "isr_in_tick" \in Relaxed

OutlastsSwitch(p) == p = 0 \/ p > LateTicks \/ "short_sleep" \in Relaxed

(* OS_CPU_TRIGGER_DISPATCHER with tcb_g_p_nextTaskBlock set to t.          *)
SwitchTo(t) ==
    /\ next' = t
    /\ pend' = TRUE

(* Mutant of PreemptIfHeadChanged: a pending switch is left as it is.      *)
PreemptUnlessPending ==
    /\ IF Head(ready') # current /\ ~pend
         THEN SwitchTo(Head(ready'))
         ELSE UNCHANGED <<next, pend>>
    /\ UNCHANGED <<current, late, started>>

(* The end of taskWake, setNewPriority and the tick: a switch is requested *)
(* if the head of the ready list is not the running task.  Otherwise       *)
(* nothing is done, a switch that is already pending included.             *)
PreemptIfHeadChanged ==
    /\ IF Head(ready') # current
         THEN SwitchTo(Head(ready'))
         ELSE UNCHANGED <<next, pend>>
    /\ UNCHANGED <<current, late, started>>

(* Mutant of SetNextReadyTaskToRun: the sleeper goes to the end.           *)
SleeperGoesLast ==
    /\ ready' = Tail(ready)
    /\ wait' = Append(wait, Head(ready))
    /\ IF ready' = << >>
         THEN /\ fault' = "null"
              /\ UNCHANGED <<next, pend>>
         ELSE /\ fault' = fault
              /\ SwitchTo(Head(ready'))
    /\ UNCHANGED <<created, current, late, started>>

(* vd_OSsch_setNextReadyTaskToRun.  It moves the first ready task, whether *)
(* or not that is the caller.                                              *)
SetNextReadyTaskToRun ==
    /\ ready' = Tail(ready)
    /\ wait' = <<Head(ready)>> \o wait
    /\ IF ready' = << >>
         THEN /\ fault' = "null"
              /\ UNCHANGED <<next, pend>>
         ELSE /\ fault' = fault
              /\ SwitchTo(Head(ready'))
    /\ UNCHANGED <<created, current, late, started>>

(* vd_OSsch_taskSleepTimeoutHandler selects the resource's handler by the  *)
(* flag bits alone and hands it the TCB's resource pointer.                *)
HeldBits(t) == flags[t] \intersect ResourceBits

HandlerDefined(t) ==
    \/ HeldBits(t) = {}
    \/ /\ resource[t] # NoRes
       /\ HeldBits(t) = BitsOf[KindOf[resource[t]]]

TaskSleepTimeoutHandler(t) ==
    /\ fault' = IF HandlerDefined(t) THEN fault ELSE "handler"
    /\ resource' = IF HeldBits(t) = {} THEN resource
                                       ELSE [resource EXCEPT ![t] = NoRes]

-----------------------------------------------------------------------------
(* Start-up.                                                               *)

CreateTask(t) ==
    /\ fault = "none"
    /\ ~started \/ ("runtime_create" \in Relaxed /\ TaskRuns)
    /\ t \in Tasks \ created
    /\ created' = created \union {t}
    /\ priority' = [priority EXCEPT ![t] = BasePrio[t]]
    /\ ready' = InsertByPrio(ready, t, priority')
    /\ UNCHANGED <<wait, flags, sleepCntr, resource, wakeReason,
                   switchVars, tickVars, fault>>

Start ==
    /\ fault = "none"
    /\ ~started
    /\ started' = TRUE
    /\ SwitchTo(Head(ready))
    /\ UNCHANGED <<listVars, flags, sleepCntr, resource, wakeReason, priority,
                   current, late, tickVars, fault>>

(* PendSV_Handler: taken once no other interrupt is active.                *)
Dispatch ==
    /\ fault = "none"
    /\ pend
    /\ ~inTick
    /\ current' = next
    /\ pend' = FALSE
    /\ late' = 0
    /\ UNCHANGED <<listVars, flags, sleepCntr, resource, wakeReason, priority,
                   next, started, tickVars, fault>>

-----------------------------------------------------------------------------
(* Calls of the running task.                                              *)

GoToSleep(period) ==
    /\ TaskRuns
    /\ OutlastsSwitch(period)
    /\ sleepCntr' = [sleepCntr EXCEPT ![current] = period]
    /\ SetNextReadyTaskToRun

TaskSleep(period) ==
    /\ GoToSleep(period)
    /\ flags' = [flags EXCEPT ![current] = @ \union {SLEEP}]
    /\ UNCHANGED <<resource, wakeReason, priority, tickVars>>

(* The tick counter wraps at MaxTick: a wake time that is not ahead of it  *)
(* is taken to be in the next round.                                       *)
TaskSleepSetFreq(nextWakeTime) ==
    /\ GoToSleep(IF nextWakeTime > tickCntr
                   THEN nextWakeTime - tickCntr
                   ELSE (MaxTick - tickCntr) + nextWakeTime)
    /\ flags' = [flags EXCEPT ![current] = @ \union {SLEEP}]
    /\ UNCHANGED <<resource, wakeReason, priority, tickVars>>

(* Mutant of SetReasonForSleep: the resource pointer is not set.           *)
SetReasonOnly(r, period) ==
    /\ GoToSleep(period)
    /\ flags' = [flags EXCEPT ![current] =
                   @ \union BitsOf[KindOf[r]] \union {SLEEP}]
    /\ UNCHANGED <<resource, wakeReason, priority, tickVars>>

(* vd_OSsch_setReasonForSleep, called by a blocking call on resource r.    *)
SetReasonForSleep(r, period) ==
    /\ GoToSleep(period)
    /\ resource' = [resource EXCEPT ![current] = r]
    /\ flags' = [flags EXCEPT ![current] =
                   @ \union BitsOf[KindOf[r]] \union {SLEEP}]
    /\ UNCHANGED <<wakeReason, priority, tickVars>>

GetReasonForWakeup ==
    /\ TaskRuns
    /\ wakeReason' = [wakeReason EXCEPT ![current] = "none"]
    /\ UNCHANGED <<listVars, flags, sleepCntr, resource, priority,
                   switchVars, tickVars, fault>>

(* Mutant of TaskSuspend: the task goes to the front of the wait list.     *)
SuspendToFront(t) ==
    /\ TaskRuns
    /\ t \in created \ {BG}
    /\ flags[t] \intersect CheckBits # {SUSPENDED}
    /\ flags' = [flags EXCEPT ![t] = @ \union {SUSPENDED}]
    /\ IF t \in Listed(ready)
         THEN ready' = Unlink(ready, t) /\ wait' = <<t>> \o wait
         ELSE ready' = ready /\ wait' = <<t>> \o Unlink(wait, t)
    /\ IF t = current THEN SwitchTo(Head(ready')) ELSE UNCHANGED <<next, pend>>
    /\ UNCHANGED <<created, sleepCntr, resource, wakeReason, priority,
                   current, late, started, tickVars, fault>>

(* A waiting task's node is unlinked through the head of the READY list,   *)
(* so the head of the wait list does not follow: if the task was that      *)
(* head, it is appended to itself and every task behind it is lost.        *)
TaskSuspend(t) ==
    /\ TaskRuns
    /\ t \in created \ {BG}
    /\ IF flags[t] \intersect CheckBits = {SUSPENDED}
         THEN UNCHANGED <<ready, wait, flags, fault>>
         ELSE /\ flags' = [flags EXCEPT ![t] = @ \union {SUSPENDED}]
              /\ \/ /\ t \in Listed(ready)
                    /\ ready' = Unlink(ready, t)
                    /\ wait' = Append(wait, t)
                    /\ fault' = fault
                 \/ /\ t \in Listed(wait)
                    /\ t # Head(wait)
                    /\ wait' = Append(Unlink(wait, t), t)
                    /\ UNCHANGED <<ready, fault>>
                 \/ /\ "suspend_waiting" \in Relaxed
                    /\ t \in Listed(wait)
                    /\ t = Head(wait)
                    /\ wait' = <<t>>
                    /\ fault' = "links"
                    /\ ready' = ready
    /\ IF t = current THEN SwitchTo(Head(ready')) ELSE UNCHANGED <<next, pend>>
    /\ UNCHANGED <<created, sleepCntr, resource, wakeReason, priority,
                   current, late, started, tickVars>>

-----------------------------------------------------------------------------
(* Calls that a task or an interrupt may make.                             *)

MayWake(t) ==
    /\ InterruptRuns
    /\ pend /\ t = current => "late_wake" \in Relaxed
    /\ t \in created \ {BG}
    /\ flags[t] \intersect CheckBits # {}
    /\ t \in Listed(wait)

(* Mutant of MakeReady: the task stays on the wait list.                   *)
MakeReadyLinked(t) ==
    /\ sleepCntr' = [sleepCntr EXCEPT ![t] = 0]
    /\ ready' = InsertByPrio(ready, t, priority)
    /\ UNCHANGED <<wait, created>>

MakeReady(t) ==
    /\ sleepCntr' = [sleepCntr EXCEPT ![t] = 0]
    /\ wait' = Unlink(wait, t)
    /\ ready' = InsertByPrio(ready, t, priority)
    /\ created' = created

(* Mutant of TaskWake: the suspended flag is not cleared.                  *)
WakeClearsSleepOnly(t) ==
    /\ MayWake(t)
    /\ resource[t] = NoRes
    /\ flags' = [flags EXCEPT ![t] = @ \ {SLEEP}]
    /\ MakeReady(t)
    /\ PreemptIfHeadChanged
    /\ UNCHANGED <<resource, fault, wakeReason, priority, tickVars>>

TaskWake(t) ==
    /\ MayWake(t)
    /\ resource[t] # NoRes => "wake_blocked" \in Relaxed
    /\ IF resource[t] # NoRes
         THEN TaskSleepTimeoutHandler(t)
         ELSE UNCHANGED <<resource, fault>>
    /\ flags' = [flags EXCEPT ![t] = @ \ CheckBits]
    /\ MakeReady(t)
    /\ PreemptIfHeadChanged
    /\ UNCHANGED <<wakeReason, priority, tickVars>>

(* The same call, or a priority change, when the flags of t do not tell    *)
(* the list t is on: a node is unlinked through the head of the other list.*)
(* The pointers that leaves behind are not followed any further.           *)
WrongListUnlinked(t) ==
    /\ InterruptRuns
    /\ t \in created \ {BG}
    /\ t \in Listed(wait) <=> flags[t] \intersect CheckBits = {}
    /\ fault' = "links"
    /\ UNCHANGED <<listVars, flags, sleepCntr, resource, wakeReason, priority,
                   switchVars, tickVars>>

(* A resource becomes available to t: vd_OSsch_setReasonForWakeup, which   *)
(* clears the resource pointer, followed by vd_OSsch_taskWake.             *)
WakeFromResource(t) ==
    /\ MayWake(t)
    /\ resource[t] # NoRes
    /\ LET kind == KindOf[resource[t]]
       IN  /\ flags' = [flags EXCEPT ![t] = (@ \ BitsOf[kind]) \ CheckBits]
           /\ wakeReason' = [wakeReason EXCEPT ![t] = kind]
    /\ resource' = [resource EXCEPT ![t] = NoRes]
    /\ MakeReady(t)
    /\ PreemptIfHeadChanged
    /\ UNCHANGED <<priority, tickVars, fault>>

(* Mutant of SetNewPriority: a ready task is not linked anew.              *)
SetPriorityInPlace(t, newPriority) ==
    /\ fault = "none"
    /\ started
    /\ t \in created \ {BG}
    /\ priority' = [priority EXCEPT ![t] = newPriority]
    /\ UNCHANGED <<listVars, flags, sleepCntr, resource, wakeReason,
                   switchVars, tickVars, fault>>

(* Internal to the OS: a mutex lends a priority or takes it back, also     *)
(* from the tick when a lock times out.                                    *)
SetNewPriority(t, newPriority) ==
    /\ fault = "none"
    /\ started
    /\ t \in created \ {BG}
    /\ priority' = [priority EXCEPT ![t] = newPriority]
    /\ IF flags[t] \intersect CheckBits # {}
         THEN UNCHANGED <<ready, switchVars>>
         ELSE /\ t \in Listed(ready)
              /\ ready' = InsertByPrio(Unlink(ready, t), t, priority')
              /\ pend /\ Head(ready') = current => "late_wake" \in Relaxed
              /\ PreemptIfHeadChanged
    /\ UNCHANGED <<wait, created, flags, sleepCntr, resource, wakeReason,
                   tickVars, fault>>

-----------------------------------------------------------------------------
(* The tick interrupt: vd_OSsch_systemTick_ISR and periodicScheduler.      *)

TickStart ==
    /\ fault = "none"
    /\ started
    /\ ~inTick
    /\ pend => late < LateTicks
    /\ late' = IF pend THEN late + 1 ELSE late
    /\ tickCntr' = (tickCntr + 1) % MaxTick
    /\ IF wait = << >>
         THEN UNCHANGED <<inTick, cursor>>
         ELSE /\ inTick' = TRUE
              /\ cursor' = Head(wait)
    /\ UNCHANGED <<listVars, flags, sleepCntr, resource, wakeReason, priority,
                   current, next, pend, started, fault>>

Visiting ==
    /\ fault = "none"
    /\ inTick
    /\ cursor # NoTask

(* nextNode of the visited node, which an interrupt may meanwhile have     *)
(* moved to the ready list.                                                *)
CursorNext ==
    IF cursor \in Listed(wait) THEN NextNode(wait, cursor, NoTask)
                               ELSE NextNode(ready, cursor, NoTask)

(* The walk stops at the first suspended task.                             *)
TickMeetsSuspended ==
    /\ Visiting
    /\ SUSPENDED \in flags[cursor]
    /\ cursor' = NoTask
    /\ UNCHANGED <<listVars, flags, sleepCntr, resource, wakeReason, priority,
                   switchVars, tickCntr, inTick, fault>>

(* Mutant of TickCountsDown: the counter is not 32 bits wide.              *)
TickCountsBelowZero ==
    /\ Visiting
    /\ SUSPENDED \notin flags[cursor]
    /\ sleepCntr[cursor] # 1
    /\ sleepCntr' = [sleepCntr EXCEPT ![cursor] = @ - 1]
    /\ cursor' = CursorNext
    /\ UNCHANGED <<listVars, flags, resource, wakeReason, priority,
                   switchVars, tickCntr, inTick, fault>>

(* Mutant of TickCountsDown: a counter of 0 means no time-out.             *)
TickSkipsZero ==
    /\ Visiting
    /\ SUSPENDED \notin flags[cursor]
    /\ sleepCntr[cursor] # 1
    /\ sleepCntr' = [sleepCntr EXCEPT ![cursor] = IF @ = 0 THEN 0 ELSE @ - 1]
    /\ cursor' = CursorNext
    /\ UNCHANGED <<listVars, flags, resource, wakeReason, priority,
                   switchVars, tickCntr, inTick, fault>>

TickCountsDown ==
    /\ Visiting
    /\ SUSPENDED \notin flags[cursor]
    /\ sleepCntr[cursor] # 1
    /\ sleepCntr' = [sleepCntr EXCEPT ![cursor] = (@ - 1) % CntMod]
    /\ cursor' = CursorNext
    /\ UNCHANGED <<listVars, flags, resource, wakeReason, priority,
                   switchVars, tickCntr, inTick, fault>>

(* Mutant of TickWakes: nextNode is read after the node was unlinked.      *)
TickLosesItsPlace ==
    /\ Visiting
    /\ SUSPENDED \notin flags[cursor]
    /\ cursor \in Listed(wait)
    /\ sleepCntr[cursor] = 1
    /\ TaskSleepTimeoutHandler(cursor)
    /\ wakeReason' = [wakeReason EXCEPT ![cursor] = "timeout"]
    /\ flags' = [flags EXCEPT ![cursor] = @ \ ({SLEEP} \union ResourceBits)]
    /\ MakeReady(cursor)
    /\ cursor' = NextNode(ready', cursor, NoTask)
    /\ UNCHANGED <<priority, switchVars, tickCntr, inTick>>

TickWakes ==
    /\ Visiting
    /\ SUSPENDED \notin flags[cursor]
    /\ cursor \in Listed(wait)
    /\ sleepCntr[cursor] = 1
    /\ TaskSleepTimeoutHandler(cursor)
    /\ wakeReason' = [wakeReason EXCEPT ![cursor] = "timeout"]
    /\ flags' = [flags EXCEPT ![cursor] = @ \ ({SLEEP} \union ResourceBits)]
    /\ MakeReady(cursor)
    /\ cursor' = CursorNext
    /\ UNCHANGED <<priority, switchVars, tickCntr, inTick>>

(* The walk strayed onto the ready list and finds a counter at 1 there: it *)
(* unlinks a ready node through the head of the wait list.  Or a more      *)
(* urgent interrupt moves nodes between the decrement and the end of the   *)
(* relinking (sch.c:844-861), which may link the visited one a second time.*)
(* The pointers that leaves behind are not followed any further.           *)
TickMislinks ==
    /\ Visiting
    /\ SUSPENDED \notin flags[cursor]
    /\ sleepCntr[cursor] = 1
    /\ cursor \in Listed(ready) \/ "isr_in_visit" \in Relaxed
    /\ fault' = "links"
    /\ UNCHANGED <<listVars, flags, sleepCntr, resource, wakeReason, priority,
                   switchVars, tickVars>>

(* Mutant of TickEnd: no switch is requested.                              *)
TickEndsSilently ==
    /\ fault = "none"
    /\ inTick
    /\ cursor = NoTask
    /\ inTick' = FALSE
    /\ UNCHANGED <<listVars, flags, sleepCntr, resource, wakeReason,
                   priority, switchVars, tickCntr, cursor, fault>>

TickEnd ==
    /\ fault = "none"
    /\ inTick
    /\ cursor = NoTask
    /\ inTick' = FALSE
    /\ ready' = ready
    /\ PreemptIfHeadChanged
    /\ UNCHANGED <<wait, created, flags, sleepCntr, resource, wakeReason,
                   priority, tickCntr, cursor, fault>>

TickVisit == TickMeetsSuspended \/ TickCountsDown \/ TickWakes \/ TickMislinks

(* The steps that concern no resource, for the modules of the resources:   *)
(* what a task that is not inside a blocking call may do, and the rest.    *)
ApplicationStep ==
    \/ \E p \in Periods : TaskSleep(p)
    \/ \E n \in WakeTimes : TaskSleepSetFreq(n)
    \/ \E t \in Tasks : TaskSuspend(t)

KernelStep ==
    \/ \E t \in Tasks : CreateTask(t)
    \/ Start
    \/ Dispatch
    \/ \E t \in Tasks : TaskWake(t) /\ resource[t] = NoRes
    \/ \E t \in Tasks : WrongListUnlinked(t)
    \/ TickStart
    \/ TickMeetsSuspended
    \/ TickCountsDown
    \/ TickWakes /\ resource[cursor] = NoRes
    \/ TickMislinks
    \/ TickEnd

-----------------------------------------------------------------------------
(* Every step but the arrival of a tick.                                   *)
NonTick ==
    \/ \E t \in Tasks : CreateTask(t)
    \/ Start
    \/ Dispatch
    \/ \E p \in Periods : TaskSleep(p)
    \/ \E n \in WakeTimes : TaskSleepSetFreq(n)
    \/ \E r \in Resources, p \in Periods \ {0} : SetReasonForSleep(r, p)
    \/ GetReasonForWakeup
    \/ \E t \in Tasks : TaskSuspend(t)
    \/ \E t \in Tasks : TaskWake(t)
    \/ \E t \in Tasks : WakeFromResource(t)
    \/ \E t \in Tasks : WrongListUnlinked(t)
    \/ \E t \in Tasks, p \in Priorities : SetNewPriority(t, p)
    \/ TickVisit
    \/ TickEnd

Next == NonTick \/ TickStart

Spec == Init /\ [][Next]_vars

(* The start-up code reaches vd_OSsch_start, the tick timer keeps running, *)
(* a started interrupt handler runs to its end, and a pending PendSV is    *)
(* eventually taken.  Nothing is assumed of the tasks or of other          *)
(* interrupts.                                                             *)
Fairness ==
    /\ WF_vars(Start)
    /\ WF_vars(TickStart)
    /\ WF_vars(TickVisit)
    /\ WF_vars(TickEnd)
    /\ WF_vars(Dispatch)

FairSpec == Spec /\ Fairness

-----------------------------------------------------------------------------
(***************************************************************************)
(* Properties.                                                             *)
(***************************************************************************)

TypeOfLists ==
    /\ created \subseteq AllTasks
    /\ ready \in Seq(created)
    /\ wait \in Seq(created)

TypeOfTCBs ==
    /\ flags \in [AllTasks -> SUBSET (CheckBits \union ResourceBits)]
    /\ sleepCntr \in [AllTasks -> 0 .. CntMod - 1]
    /\ resource \in [AllTasks -> Resources \union {NoRes}]
    /\ wakeReason \in [AllTasks -> Reasons]
    /\ priority \in [AllTasks -> Nat]

TypeOfSwitch ==
    /\ current \in AllTasks \union {NoTask}
    /\ next \in AllTasks \union {NoTask}
    /\ pend \in BOOLEAN
    /\ late \in 0 .. LateTicks
    /\ started \in BOOLEAN
    /\ fault \in {"none", "null", "handler", "links"}

TypeOfTick ==
    /\ tickCntr \in 0 .. MaxTick - 1
    /\ inTick \in BOOLEAN
    /\ cursor \in AllTasks \union {NoTask}

(* Every variable keeps its range; lists hold created tasks only.          *)
TypeOK == TypeOfLists /\ TypeOfTCBs /\ TypeOfSwitch /\ TypeOfTick

(* No null pointer is followed, no list is corrupted and the timeout       *)
(* handler never meets flag bits it cannot resolve (sch.c:808 calls        *)
(* OSTaskFault there).                                                     *)
NoFault == fault = "none"

(* The ready list is in priority order and ends with the background task,  *)
(* the sentinel the insertion walk of vd_list_addTaskByPrio relies on.     *)
ReadyInOrder ==
    /\ ready # << >>
    /\ Last(ready) = BG
    /\ SortedByPrio(ready, priority)

(* No task is linked twice, on one list or on both.  Once a link went wrong*)
(* (fault = "links") the lists here are no longer those of the code.       *)
LinkedOnce ==
    /\ IsInjective(ready)
    /\ IsInjective(wait)
    /\ Listed(ready) \intersect Listed(wait) = {}

(* Every created task is linked on exactly one of the two lists, once.     *)
EachTaskOnOneList ==
    /\ LinkedOnce
    /\ Listed(ready) \union Listed(wait) = created

(* The list a task is on and its flags agree, so taskWake, taskSuspend and *)
(* setNewPriority, which go by the flags, unlink it from the right list.   *)
FlagsTellList ==
    \A t \in created :
        t \in Listed(wait) <=> flags[t] \intersect CheckBits # {}

(* Suspended tasks are at the end of the wait list, so the tick may stop   *)
(* at the first one (sch.c:833), also when an interrupt wakes tasks        *)
(* between two nodes of its walk.  An interrupt within the visit of a node *)
(* is outside of this claim.                                               *)
SuspendedLast ==
    \A i, j \in DOMAIN wait :
        i < j /\ SUSPENDED \in flags[wait[i]] => SUSPENDED \in flags[wait[j]]

(* When no switch is pending and no tick is in progress, no runnable task  *)
(* is more urgent than the running one, and that one is runnable.          *)
MostUrgentRuns ==
    started /\ ~pend /\ ~inTick =>
        /\ flags[current] \intersect CheckBits = {}
        /\ \A t \in created : flags[t] \intersect CheckBits = {} =>
               priority[current] <= priority[t]

(* A pending switch leads to the head of the ready list, whichever ticks   *)
(* and wake-ups came after the call that requested it, as long as none of  *)
(* them makes the task that is being switched out ready again: rules       *)
(* "short_sleep" and "late_wake" are about just these.                     *)
SwitchIsUpToDate ==
    pend /\ ~inTick => next = Head(ready)

(* A task leaves the ready list only by its own sleep or by being          *)
(* suspended: "Remove node of task that was previously executing"          *)
(* (sch.c:751).                                                            *)
OnlySleeperIsMoved ==
    [][\A t \in Listed(ready) \ Listed(ready') :
          t = current \/ SUSPENDED \in flags'[t]]_vars

(* A task that sleeps, and is not suspended meanwhile, becomes ready again.*)
SleeperWakes ==
    \A t \in Tasks :
        SLEEP \in flags[t] ~>
            \/ flags[t] \intersect CheckBits = {}
            \/ SUSPENDED \in flags[t]

=============================================================================
