---------------------------- MODULE CpuInterface ----------------------------
(***************************************************************************)
(* Critical sections and interrupt masks of the Cortex-M4 port             *)
(* (OS_CPU_Interface/Source/cpu_os_interface.c, ASM/taskSwitch.s).         *)
(*                                                                         *)
(* The CPU runs a stack of frames: a task at the bottom and the handlers   *)
(* that preempted it above.  Critical sections nest through one counter    *)
(* shared by all of them: entering increments it and then disables         *)
(* interrupts, in two instructions an interrupt can come between; leaving  *)
(* decrements it and enables interrupts if the new value was zero.         *)
(*                                                                         *)
(* Assumed of the processor: an exception entry or return clears the       *)
(* exclusive monitor, so a STREX whose LDREX came before it fails; a       *)
(* pending PendSV that can be taken is taken before the next instruction.  *)
(***************************************************************************)
EXTENDS Integers, Sequences, SequencesExt

CONSTANTS
    Tasks,
    Main,       \* the start-up context, which ends in vd_OSsch_start
    Handlers,   \* interrupts that call the OS, the tick among them
    PendSV,
    Urgency,    \* exception priority of each, small is urgent
    TickMask,   \* OS_TICK_PRIORITY
    MaxDepth    \* bound: how deep the OS nests critical sections in one call

ASSUME CpuAssumption ==
    /\ PendSV \notin Handlers
    /\ Main \notin Tasks
    /\ Urgency \in [Handlers \union {PendSV} -> Nat \ {0}]
    /\ TickMask \in Nat \ {0}
    /\ \A h \in Handlers : Urgency[h] < Urgency[PendSV]
    /\ TickMask <= Urgency[PendSV]
    /\ MaxDepth \in Nat \ {0}
    /\ (Tasks \union {Main}) \intersect (Handlers \union {PendSV}) = {}

VARIABLES
    nest,       \* u1_intNestCounter
    primask,    \* interrupts are disabled
    basepri,    \* interrupts of this urgency or less are masked; 0 masks none
    monitor,    \* the LDREX/STREX exclusive monitor
    pend,       \* PendSV pending
    frames,     \* what the CPU is executing, the active frame last
    parked,     \* the frame each task that is not running will resume
    started     \* vd_OSsch_start was called

vars == <<nest, primask, basepri, monitor, pend, frames, parked, started>>

NoMask == 0 - 1     \* u1_OSsch_interruptEnter has not returned a mask yet

(* pc: "run" outside the two functions;                                    *)
(*     "store_inc", "disable": before STREX, CPSID of disableInterrupts;   *)
(*     "store_dec", "enable": before STREX, the test of enableInterrupts.  *)
(* depth counts the critical sections entered, value is the counter value  *)
(* in a register, stage is how far a handler has come.  base is a history  *)
(* variable: the counter when the frame began.                             *)
Frame(who, base) ==
    [who |-> who, pc |-> "run", depth |-> 0, value |-> 0, mask |-> NoMask,
     stage |-> "entry", base |-> base]

(* vd_OS_init disables interrupts; the timer is already running.           *)
Init ==
    /\ nest = 0
    /\ primask = TRUE
    /\ basepri = 0
    /\ monitor = FALSE
    /\ pend = FALSE
    /\ frames = <<Frame(Main, 0)>>
    /\ parked = [t \in Tasks |-> Frame(t, 0)]
    /\ started = FALSE

-----------------------------------------------------------------------------
top == Last(frames)

(* The active frame goes on: changes are record fields of it.              *)
Active(f) == frames' = [frames EXCEPT ![Len(frames)] = f]

IsHandler == top.who \in Handlers

(* What preempts what.                                                     *)
CanPreempt(h) ==
    /\ ~primask
    /\ basepri = 0 \/ Urgency[h] < basepri
    /\ top.who \in Handlers \union {PendSV} => Urgency[h] < Urgency[top.who]

(* The next instruction of the active frame, at program point pc.          *)
At(pc) ==
    /\ top.pc = pc
    /\ ~(pend /\ CanPreempt(PendSV))

(* A task calls the OS anywhere, a handler between u1_OSsch_interruptEnter *)
(* and vd_OSsch_interruptExit; those two are critical sections themselves. *)
MayEnter ==
    /\ top.who # PendSV
    /\ top.depth < MaxDepth
    /\ top.stage # "left"
    /\ IsHandler /\ top.stage = "entry" => top.depth = 0

(* Mutant of MayExit: a section is left that was not entered.              *)
MayExitUnbalanced == ~IsHandler

MayExit ==
    /\ top.depth > 0
    /\ ~(IsHandler /\ top.stage = "entry")

-----------------------------------------------------------------------------
(* vd_cpu_disableInterrupts.                                               *)

LoadToEnter ==
    /\ At("run")
    /\ MayEnter
    /\ Active([top EXCEPT !.pc = "store_inc", !.value = nest])
    /\ monitor' = TRUE
    /\ UNCHANGED <<nest, primask, basepri, pend, parked, started>>

(* A failed STREX goes back to the LDREX.                                  *)
StoreIncremented ==
    /\ At("store_inc")
    /\ IF monitor
         THEN /\ nest' = top.value + 1
              /\ Active([top EXCEPT !.pc = "disable"])
              /\ monitor' = FALSE
         ELSE /\ Active([top EXCEPT !.value = nest])
              /\ monitor' = TRUE
              /\ nest' = nest
    /\ UNCHANGED <<primask, basepri, pend, parked, started>>

(* Mutant of DisableInterrupts: CPSID is left out.                         *)
DisableNothing ==
    /\ At("disable")
    /\ Active([top EXCEPT !.pc = "run", !.depth = @ + 1])
    /\ UNCHANGED <<nest, primask, basepri, monitor, pend, parked, started>>

DisableInterrupts ==
    /\ At("disable")
    /\ primask' = TRUE
    /\ Active([top EXCEPT !.pc = "run", !.depth = @ + 1])
    /\ UNCHANGED <<nest, basepri, monitor, pend, parked, started>>

(* vd_cpu_enableInterrupts.                                                *)

LoadToExit ==
    /\ At("run")
    /\ MayExit
    /\ Active([top EXCEPT !.pc = "store_dec", !.value = nest])
    /\ monitor' = TRUE
    /\ UNCHANGED <<nest, primask, basepri, pend, parked, started>>

StoreDecremented ==
    /\ At("store_dec")
    /\ IF monitor
         THEN /\ nest' = top.value - 1
              /\ Active([top EXCEPT !.pc = "enable", !.value = @ - 1])
              /\ monitor' = FALSE
         ELSE /\ Active([top EXCEPT !.value = nest])
              /\ monitor' = TRUE
              /\ nest' = nest
    /\ UNCHANGED <<primask, basepri, pend, parked, started>>

(* Mutant of EnableIfOutermost: inner sections enable interrupts too.      *)
EnableAlways ==
    /\ At("enable")
    /\ primask' = FALSE
    /\ Active([top EXCEPT !.pc = "run", !.depth = @ - 1])
    /\ UNCHANGED <<nest, basepri, monitor, pend, parked, started>>

EnableIfOutermost ==
    /\ At("enable")
    /\ primask' = IF top.value = 0 THEN FALSE ELSE primask
    /\ Active([top EXCEPT !.pc = "run", !.depth = @ - 1])
    /\ UNCHANGED <<nest, basepri, monitor, pend, parked, started>>

-----------------------------------------------------------------------------
(* u1_cpu_maskInterrupts and vd_cpu_unmaskInterrupts, each in its critical *)
(* section.  MaskInterrupt only ever masks more.                           *)

MaskInterrupts ==
    /\ At("run")
    /\ IsHandler
    /\ top.stage = "entry"
    /\ top.depth = 1
    /\ basepri' = IF basepri = 0 \/ TickMask <= basepri THEN TickMask ELSE basepri
    /\ Active([top EXCEPT !.stage = "masked", !.mask = basepri])
    /\ UNCHANGED <<nest, primask, monitor, pend, parked, started>>

(* Mutant of UnmaskInterrupts: the previous mask is not restored.          *)
UnmaskNothing ==
    /\ At("run")
    /\ IsHandler
    /\ top.stage = "masked"
    /\ top.depth = 1
    /\ Active([top EXCEPT !.stage = "left"])
    /\ UNCHANGED <<nest, primask, basepri, monitor, pend, parked, started>>

UnmaskInterrupts ==
    /\ At("run")
    /\ IsHandler
    /\ top.stage = "masked"
    /\ top.depth = 1
    /\ basepri' = top.mask
    /\ Active([top EXCEPT !.stage = "left"])
    /\ UNCHANGED <<nest, primask, monitor, pend, parked, started>>

(* OS_CPU_TRIGGER_DISPATCHER, in a critical section or in the tick's loop. *)
TriggerDispatcher ==
    /\ At("run")
    /\ started
    /\ top.depth > 0 \/ top.stage = "masked"
    /\ top.who # PendSV
    /\ pend' = TRUE
    /\ UNCHANGED <<nest, primask, basepri, monitor, frames, parked, started>>

(* vd_OSsch_start                                                          *)
Start ==
    /\ At("run")
    /\ ~started
    /\ top.who = Main
    /\ top.depth = 0
    /\ started' = TRUE
    /\ pend' = TRUE
    /\ primask' = FALSE
    /\ UNCHANGED <<nest, basepri, monitor, frames, parked>>

-----------------------------------------------------------------------------
(* Exceptions.                                                             *)

TakeInterrupt(h) ==
    /\ CanPreempt(h)
    /\ frames' = Append(frames, Frame(h, nest))
    /\ monitor' = FALSE
    /\ UNCHANGED <<nest, primask, basepri, pend, parked, started>>

TakePendSV ==
    /\ pend
    /\ CanPreempt(PendSV)
    /\ frames' = Append(frames, Frame(PendSV, nest))
    /\ pend' = FALSE
    /\ monitor' = FALSE
    /\ UNCHANGED <<nest, primask, basepri, parked, started>>

(* PendSV_Handler disables interrupts, exchanges the interrupted task for  *)
(* another (or the same) and enables interrupts.                           *)

PendSVDisables ==
    /\ At("run")
    /\ top.who = PendSV
    /\ top.stage = "entry"
    /\ primask' = TRUE
    /\ Active([top EXCEPT !.stage = "masked"])
    /\ UNCHANGED <<nest, basepri, monitor, pend, parked, started>>

SwitchTask(t) ==
    LET old == frames[1]
        new == IF t = old.who THEN old ELSE parked[t]
    IN  /\ At("run")
        /\ top.who = PendSV
        /\ top.stage = "masked"
        /\ parked' = IF old.who \in Tasks THEN [parked EXCEPT ![old.who] = old]
                                           ELSE parked
        /\ frames' = <<new, [top EXCEPT !.stage = "left"]>>
        /\ primask' = FALSE
        /\ UNCHANGED <<nest, basepri, monitor, pend, started>>

ReturnFromInterrupt ==
    /\ At("run")
    /\ top.who \in Handlers \union {PendSV}
    /\ top.stage = "left"
    /\ top.depth = 0
    /\ frames' = Front(frames)
    /\ monitor' = FALSE
    /\ UNCHANGED <<nest, primask, basepri, pend, parked, started>>

CriticalSection ==
    \/ LoadToEnter
    \/ StoreIncremented
    \/ DisableInterrupts
    \/ LoadToExit
    \/ StoreDecremented
    \/ EnableIfOutermost

Next ==
    \/ CriticalSection
    \/ MaskInterrupts
    \/ UnmaskInterrupts
    \/ TriggerDispatcher
    \/ Start
    \/ \E h \in Handlers : TakeInterrupt(h)
    \/ TakePendSV
    \/ PendSVDisables
    \/ \E t \in Tasks : SwitchTask(t)
    \/ ReturnFromInterrupt

Spec == Init /\ [][Next]_vars

-----------------------------------------------------------------------------
Frames == [who : Tasks \union Handlers \union {PendSV, Main},
           pc : {"run", "store_inc", "disable", "store_dec", "enable"},
           depth : Nat, value : Int, mask : Nat \union {NoMask},
           stage : {"entry", "masked", "left"}, base : Nat]

TypeOK ==
    /\ nest \in Nat
    /\ primask \in BOOLEAN
    /\ basepri \in Nat
    /\ monitor \in BOOLEAN
    /\ pend \in BOOLEAN
    /\ frames \in Seq(Frames) \ {<< >>}
    /\ parked \in [Tasks -> Frames]
    /\ started \in BOOLEAN

(* No handler runs while the frame below it is inside a critical section,  *)
(* whatever interrupts come between the increment and CPSID or between the *)
(* critical sections of a handler ("Critical section enter. Supports       *)
(* nesting", sch.h:32).                                                    *)
CriticalSectionsExclude ==
    \A i \in 1 .. Len(frames) - 1 : frames[i].depth = 0

(* A task that executes outside of critical sections has interrupts        *)
(* enabled, none masked, and the counter at zero: no interleaving of nested*)
(* sections and handlers leaves them off.                                  *)
InterruptsComeBack ==
    started /\ Len(frames) = 1 /\ top.pc = "run" /\ top.depth = 0 =>
        nest = 0 /\ ~primask /\ basepri = 0

(* The counter is shared by all tasks, so a task must not be switched out  *)
(* between its increment and its decrement: the next one would never get   *)
(* to zero.                                                                *)
SwitchedOutsideSections ==
    \A t \in Tasks : parked[t].depth = 0 /\ parked[t].pc # "disable"

(* "Mask interrupts until RTOS enters normal operation" (sch.c:183).       *)
MaskedUntilStart == ~started => Len(frames) = 1

=============================================================================
