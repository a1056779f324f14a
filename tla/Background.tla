----------------------------- MODULE Background -----------------------------
(***************************************************************************)
(* The background task (vd_OSsch_background) on top of the scheduler: the  *)
(* task that runs when no other can.  It inspects the marks at the ends of *)
(* the stacks and of the heap blocks, notes when in the tick the CPU fell  *)
(* idle, and puts the CPU to sleep between two hook functions.  What it    *)
(* shares with the tick and with other handlers is not protected: it may   *)
(* be interrupted, and lose the CPU, between any two of its steps.         *)
(*                                                                         *)
(* Both hooks, the load calculation, the stack check and the heap are      *)
(* configured.  The SysTick timer is on or off here; its registers are     *)
(* reduced to the percentage of the tick that they tell.                   *)
(***************************************************************************)
EXTENDS Scheduler

CONSTANTS
    Hundred,    \* SCH_ONE_HUNDRED_PERCENT
    Window,     \* SCH_HUNDRED_TICKS, over which the load is averaged
    LoadMod,    \* 2^32, the width of CPU_idleRunning
    Heap,       \* the watermarks of all memory partitions
    Overrun     \* bound: stacks, or the heap, that are run over at some time

ASSUME BackgroundAssumption ==
    /\ Hundred \in 0 .. 255
    /\ Window \in Nat \ {0}
    /\ LoadMod \in Nat
    /\ Hundred * Window < LoadMod
    /\ Heap \notin AllTasks
    /\ Heap # NoTask
    /\ Overrun \subseteq AllTasks \union {Heap}

VARIABLES
    bgAt,           \* where the background task is in its loop
    percent,        \* what u1_cpu_getPercentOfTick returned to it
    prevTimestamp,  \* CPU_idlePrevTimestamp
    idleRunning,    \* CPU_idleRunning
    idleAvg,        \* CPU_idleAvg
    credited,       \* history: which of "running" and "average" hold idle time
                    \* that taskWake counted
    sleeping,       \* u1_s_sleepState is SCH_CPU_SLEEPING
    lowPower,       \* history: the pre-sleep hook ran, the post-sleep not yet
    timer,          \* SysTick: "on", "off", "last": off with a tick pending
    broken,         \* what was run over, NoTask if nothing was
    naps,           \* history: how often the CPU went to sleep since then
    halted          \* the background task called OSTaskFault

loadVars == <<prevTimestamp, idleRunning, idleAvg, credited>>
hookVars == <<sleeping, lowPower>>
markVars == <<broken, naps, halted>>
bgVars == <<bgAt, percent, loadVars, hookVars, timer, markVars>>
systemVars == <<vars, bgVars>>

BgInit ==
    /\ Init
    /\ bgAt = "inspect"
    /\ percent = 0
    /\ prevTimestamp = 0
    /\ idleRunning = 0
    /\ idleAvg = 0
    /\ credited = {}
    /\ sleeping = FALSE
    /\ lowPower = FALSE
    /\ timer = "on"
    /\ broken = NoTask
    /\ naps = 0
    /\ halted = FALSE

-----------------------------------------------------------------------------
(* The loop of the background task.  Nothing it does is in a critical      *)
(* section.                                                                *)

BackgroundAt(here) ==
    /\ fault = "none"
    /\ started
    /\ ~pend
    /\ ~inTick
    /\ current = BG
    /\ bgAt = here

GoesTo(there) == bgAt' = there /\ UNCHANGED vars

(* Mutant of Inspected: the loop ends one short and misses the task that   *)
(* was created first, the background task itself.                          *)
InspectedButOne == (created \ {BG}) \union {Heap}

(* The marks u1_sch_checkStack and u1_OSMem_maintenance look at.           *)
Inspected == created \union {Heap}

(* It disables interrupts for good.                                        *)
OSTaskFault == halted' = TRUE /\ GoesTo("inspect")

Inspect ==
    /\ BackgroundAt("inspect")
    /\ IF broken \in Inspected
         THEN OSTaskFault
         ELSE halted' = FALSE /\ GoesTo("sample")
    /\ UNCHANGED <<percent, loadVars, hookVars, timer, broken, naps>>

(* u1_cpu_getPercentOfTick: any part of the present tick may have passed.  *)
SampleTick ==
    /\ BackgroundAt("sample")
    /\ percent' \in 0 .. Hundred
    /\ GoesTo("store")
    /\ UNCHANGED <<loadVars, hookVars, timer, markVars>>

(* The percentage may by now be one of a tick that is over.                *)
StoreTimestamp ==
    /\ BackgroundAt("store")
    /\ prevTimestamp' = percent
    /\ percent' = 0
    /\ GoesTo("arm")
    /\ UNCHANGED <<idleRunning, idleAvg, credited, hookVars, timer, markVars>>

Arm ==
    /\ BackgroundAt("arm")
    /\ sleeping' = TRUE
    /\ GoesTo("hook")
    /\ UNCHANGED <<percent, loadVars, lowPower, timer, markVars>>

(* app_OSPreSleepFcn                                                       *)
PreSleep ==
    /\ BackgroundAt("hook")
    /\ lowPower' = TRUE
    /\ GoesTo("wfi")
    /\ UNCHANGED <<percent, loadVars, sleeping, timer, markVars>>

(* WaitForInterrupt; an interrupt before this step does not keep the CPU   *)
(* from sleeping.                                                          *)
FallAsleep ==
    /\ BackgroundAt("wfi")
    /\ naps' = IF broken = NoTask THEN 0 ELSE naps + 1
    /\ GoesTo("asleep")
    /\ UNCHANGED <<percent, loadVars, hookVars, timer, broken, halted>>

BackgroundStep ==
    Inspect \/ SampleTick \/ StoreTimestamp \/ Arm \/ PreSleep \/ FallAsleep

-----------------------------------------------------------------------------
(* Handlers.                                                               *)

(* Mutant of PostSleep: the state is left at SCH_CPU_SLEEPING.             *)
PostSleepOnly ==
    /\ lowPower' = (lowPower /\ ~sleeping)
    /\ sleeping' = sleeping

(* The first part of u1_OSsch_interruptEnter, app_OSPostSleepFcn included. *)
PostSleep ==
    /\ lowPower' = (lowPower /\ ~sleeping)
    /\ sleeping' = FALSE

(* Every handler that calls the OS begins so.  Any interrupt ends the wait.*)
InterruptEnter ==
    /\ PostSleep
    /\ bgAt' = IF bgAt = "asleep" THEN "inspect" ELSE bgAt
    /\ percent' = percent

(* The average is a byte.                                                  *)
Averaged(total) == (total \div Window) % 256

IdleOfTick == IF current = BG THEN Hundred - prevTimestamp ELSE 0

(* Mutant of CountIdle: the sum is not set back to 0.                      *)
CountIdleOnAndOn ==
    LET total == (idleRunning + IdleOfTick) % LoadMod
        full  == tickCntr' % Window = 0
    IN  /\ idleAvg' = IF full THEN Averaged(total) ELSE idleAvg
        /\ idleRunning' = total
        /\ prevTimestamp' = 0
        /\ credited' = IF ~full THEN credited
                       ELSE IF "running" \in credited THEN {"average"} ELSE {}

(* The load calculation of vd_OSsch_systemTick_ISR.                        *)
CountIdle ==
    LET total == (idleRunning + IdleOfTick) % LoadMod
        full  == tickCntr' % Window = 0
    IN  /\ idleAvg' = IF full THEN Averaged(total) ELSE idleAvg
        /\ idleRunning' = IF full THEN 0 ELSE total
        /\ prevTimestamp' = 0
        /\ credited' = IF ~full THEN credited
                       ELSE IF "running" \in credited THEN {"average"} ELSE {}

(* The load calculation of vd_OSsch_taskWake.  It leaves the timestamp, so *)
(* the next wake-up, or the tick, counts the same span again.  Any part of *)
(* the present tick may have passed, less than the timestamp says too: the *)
(* timer may have wrapped, its tick still pending.                         *)
CreditIdle ==
    /\ IF current = BG
         THEN /\ \E part \in 0 .. Hundred :
                   idleRunning' = (idleRunning + (part - prevTimestamp)) % LoadMod
              /\ credited' = credited \union {"running"}
         ELSE UNCHANGED <<idleRunning, credited>>
    /\ UNCHANGED <<prevTimestamp, idleAvg>>

Tick ==
    /\ timer # "off"
    /\ TickStart
    /\ InterruptEnter
    /\ CountIdle
    /\ timer' = IF timer = "last" THEN "off" ELSE timer
    /\ UNCHANGED markVars

(* What a task or a handler may call.  If it is a task, then a handler had *)
(* to come since the background task ran, and InterruptEnter changes       *)
(* nothing.                                                                *)
HandlerStep ==
    /\ \E t \in Tasks :
         \/ TaskWake(t) /\ CreditIdle
         \/ WakeFromResource(t) /\ CreditIdle
         \/ WrongListUnlinked(t) /\ UNCHANGED loadVars
         \/ \E p \in Priorities : SetNewPriority(t, p) /\ UNCHANGED loadVars
    /\ InterruptEnter
    /\ UNCHANGED <<timer, markVars>>

(* A handler that calls nothing else.                                      *)
OtherInterrupt ==
    /\ InterruptRuns
    /\ InterruptEnter
    /\ UNCHANGED <<vars, loadVars, timer, markVars>>

(* vd_cpu_suspendScheduler; a tick that is pending is still served.        *)
StopTimer == timer = "on" /\ timer' \in {"last", "off"}

(* vd_cpu_sysTickSet                                                       *)
SysTickSet == timer # "on" /\ timer' = "on"

(* vd_OSsch_suspendScheduler                                               *)
SuspendScheduler ==
    /\ InterruptRuns
    /\ StopTimer
    /\ InterruptEnter
    /\ UNCHANGED <<vars, loadVars, markVars>>

(* vd_OSsch_setNewTickPeriod starts the timer again.                       *)
SetNewTickPeriod ==
    /\ InterruptRuns
    /\ SysTickSet
    /\ InterruptEnter
    /\ UNCHANGED <<vars, loadVars, markVars>>

(* What only tasks do, the steps within the tick, and PendSV.              *)
TaskStep ==
    /\ \/ \E t \in Tasks : CreateTask(t)
       \/ Start
       \/ Dispatch
       \/ ApplicationStep
       \/ \E r \in Resources, p \in Periods \ {0} : SetReasonForSleep(r, p)
       \/ GetReasonForWakeup
       \/ TickVisit
       \/ TickEnd
    /\ UNCHANGED bgVars

(* Whoever has the CPU runs over the end of its stack or of a block; what  *)
(* lies beyond is not modelled.                                            *)
RunOver ==
    /\ fault = "none"
    /\ started
    /\ broken = NoTask
    /\ broken' \in Overrun \intersect {current, Heap}
    /\ UNCHANGED <<vars, bgAt, percent, loadVars, hookVars, timer, naps,
                   halted>>

BgNext ==
    /\ ~halted
    /\ \/ BackgroundStep
       \/ Tick
       \/ HandlerStep
       \/ OtherInterrupt
       \/ SuspendScheduler
       \/ SetNewTickPeriod
       \/ TaskStep
       \/ RunOver

BgSpec == BgInit /\ [][BgNext]_systemVars

-----------------------------------------------------------------------------
(***************************************************************************)
(* Properties.                                                             *)
(***************************************************************************)

(* u1_OSsch_getCPULoad, a byte.                                            *)
CPULoad == (Hundred - idleAvg) % 256

(* "Returns CPU load averaged over 100 ticks", "CPU load as a percentage"  *)
(* (sch.c:395-397).  It does not hold once taskWake counts idle time, see  *)
(* README.                                                                 *)
LoadIsPercent == CPULoad \in 0 .. Hundred

(* However ticks, samples and switches interleave, a window in which       *)
(* taskWake counted no idle time yields a percentage, whatever the windows *)
(* before it held: the ticks credit no more idle time than the window had, *)
(* a timestamp stored a tick too late included, so the subtraction in      *)
(* u1_OSsch_getCPULoad (sch.c:402) does not wrap.                          *)
TickLoadIsPercent == "average" \notin credited => LoadIsPercent

(* No task runs and no switch is due while the OS believes the CPU to be   *)
(* asleep: whoever takes the CPU from the background task entered through  *)
(* u1_OSsch_interruptEnter (sch.c:279).                                    *)
AwakeForWork == sleeping => current = BG /\ ~pend /\ ~inTick

(* Once a stack or a block was run over, the background task puts the CPU  *)
(* to sleep at most once more before it calls OSTaskFault: "Check for      *)
(* stack overflow periodically" (rtos_cfg.h:28).                           *)
CaughtNextRound == naps <= 1

(* What the pre-sleep hook did is undone before a handler's work or a task *)
(* runs: "Will run after CPU woken from sleep" (sch.h:261).  It does not   *)
(* hold, see README.                                                       *)
FullPowerForWork == lowPower => current = BG /\ ~pend /\ ~inTick

=============================================================================
