------------------------------- MODULE Flags --------------------------------
(***************************************************************************)
(* Event flags (Flags/Source/flags.c) on top of the scheduler: event bits, *)
(* and a table of the tasks that pend on them.  A pend without a time-out  *)
(* suspends the task; one with a time-out blocks it on the object.         *)
(*                                                                         *)
(* A post clears the event's bits, not the resource's, in the flags of the *)
(* task it wakes, and for an "any" entry it does so after vd_OSsch_taskWake*)
(* may have emptied the entry.  FlagRules is the set of the usage rules    *)
(* that keep an application clear of that, and may be broken:              *)
(*   "timed_event"  an event or a reset wakes a task that pends with a     *)
(*                  time-out;                                              *)
(*   "status_bits"  an event uses the bits 0x10 or 0x20, which in a TCB    *)
(*                  mean asleep and suspended;                             *)
(*   "wake_pending" the application wakes a task that pends without a      *)
(*                  time-out, or makes it pend twice.                      *)
(***************************************************************************)
EXTENDS Scheduler

CONSTANTS
    Events,      \* event masks, as sets of bits
    MaxPending,  \* FLAGS_MAX_NUM_TASKS_PENDING
    FlagRules

FlagObjects == { r \in Resources : KindOf[r] = "flags" }

Slots == 1 .. MaxPending

ASSUME FlagAssumption ==
    /\ Events \subseteq SUBSET { 1, 2, 4, 8, 16, 32, 64, 128 }
    /\ MaxPending \in Nat
    /\ FlagRules \subseteq {"timed_event", "status_bits", "wake_pending"}
    /\ "wake_blocked" \notin Relaxed

VARIABLES
    events,  \* flags->flags, as the set of bits that are set
    pending  \* pendingList: NoEntry, or who pends on what

flagVars == <<events, pending>>

NoEntry == [type |-> "none"]

(* u1_OSflags_init, with any initial value.                                *)
FlagInit ==
    /\ events \in [FlagObjects -> Events \union {{}}]
    /\ pending = [f \in FlagObjects |-> [i \in Slots |-> NoEntry]]

-----------------------------------------------------------------------------
Used(f) == { i \in Slots : pending[f][i] # NoEntry }

(* The tasks in the table of f.                                            *)
Pending(f) == { pending[f][i].tcb : i \in Used(f) }

(* u1_OSflags_pendOnFlags, in the first slot that is free.  The events     *)
(* that are set already are not looked at.                                 *)
PendOnFlags(f, event, timeOut, type) ==
    /\ TaskRuns
    /\ event \intersect CheckBits # {} => "status_bits" \in FlagRules
    /\ current \notin Pending(f) \/ "wake_pending" \in FlagRules
    /\ \E i \in Slots \ Used(f) :
         /\ 1 .. i - 1 \subseteq Used(f)
         /\ pending' = [pending EXCEPT ![f][i] =
                          [type |-> type, tcb |-> current, event |-> event]]
    /\ IF timeOut = 0 THEN TaskSuspend(current)
                      ELSE SetReasonForSleep(f, timeOut)
    /\ events' = events

-----------------------------------------------------------------------------
(* What a post does to the tasks, entry by entry, on a record of the       *)
(* scheduler's variables.                                                  *)
SchedulerState ==
    [ready |-> ready, wait |-> wait, flags |-> flags, sleepCntr |-> sleepCntr,
     resource |-> resource, wakeReason |-> wakeReason, fault |-> fault]

Asleep(s, t) == s.flags[t] \intersect CheckBits # {}

(* vd_OSsch_taskWake, for a task that no resource holds.                   *)
Woken(s, t) ==
    IF ~Asleep(s, t)
      THEN s
      ELSE [s EXCEPT !.flags[t] = @ \ CheckBits,
                     !.sleepCntr[t] = 0,
                     !.wait = Unlink(@, t),
                     !.ready = InsertByPrio(@, t, priority)]

(* vd_OSsch_setReasonForWakeup; the bits of the reason are those of the    *)
(* event, or of the resource at a reset.                                   *)
ReasonSet(s, t, reason) ==
    [s EXCEPT !.resource[t] = NoRes,
              !.flags[t] = @ \ reason,
              !.wakeReason[t] = "flags"]

(* The time-out handler that vd_OSsch_taskWake calls for a task held by    *)
(* the object empties the entry, whose TCB pointer is then followed.       *)
WakeFirst(s, t, reason) ==
    IF Asleep(s, t) /\ s.resource[t] # NoRes
      THEN [s EXCEPT !.fault = "null"]
      ELSE ReasonSet(Woken(s, t), t, reason)

(* Mutant of ReasonFirst: the task is not woken.                           *)
ReasonOnly(s, t, reason) == ReasonSet(s, t, reason)

ReasonFirst(s, t, reason) == Woken(ReasonSet(s, t, reason), t)

Serve(s, entry, reason) ==
    IF entry.type = "any" THEN WakeFirst(s, entry.tcb, reason)
                          ELSE ReasonFirst(s, entry.tcb, reason)

MayServe(t) ==
    /\ pend /\ t = current => "late_wake" \in Relaxed
    /\ resource[t] # NoRes => "timed_event" \in FlagRules
    /\ t \in Listed(wait) <=> flags[t] \intersect CheckBits # {}

(* The scheduler's variables when the entries of table in the first n      *)
(* slots are served, for each n.                                           *)
Served(table, reason) ==
    LET States[n \in 0 .. MaxPending] ==
          IF n = 0
            THEN SchedulerState
            ELSE IF n \in DOMAIN table
                   THEN Serve(States[n - 1], table[n], reason)
                   ELSE States[n - 1]
    IN  States

(* The entries in table, a part of pendingList, are served in the order of *)
(* their slots and emptied.                                                *)
ServeSlots(f, table, reason) ==
    LET after == Served(table, reason)[MaxPending]
    IN  /\ InterruptRuns
        /\ \A i \in DOMAIN table : MayServe(table[i].tcb)
        /\ ready' = after.ready
        /\ wait' = after.wait
        /\ flags' = after.flags
        /\ sleepCntr' = after.sleepCntr
        /\ resource' = after.resource
        /\ wakeReason' = after.wakeReason
        /\ fault' = after.fault
        /\ pending' = [pending EXCEPT ![f] =
                         [i \in Slots |->
                            IF i \in DOMAIN table THEN NoEntry ELSE @[i]]]
        /\ IF ready' = ready THEN UNCHANGED switchVars
                             ELSE PreemptIfHeadChanged
        /\ UNCHANGED <<created, priority, tickVars>>

(* Which entries a post serves.  An exact pend needs every event that is   *)
(* set to be one of its own, and none to be set in particular.             *)
Meets(entry, set) ==
    \/ entry.type = "any" /\ entry.event \intersect set # {}
    \/ entry.type = "exact" /\ set \subseteq entry.event

Met(f, set) ==
    LET slots == { i \in Used(f) : Meets(pending[f][i], set) }
    IN  [i \in slots |-> pending[f][i]]

(* u1_OSflags_postFlags, by a task or an interrupt.                        *)
PostFlags(f, mask, set) ==
    /\ events' = [events EXCEPT ![f] = IF set THEN @ \union mask ELSE @ \ mask]
    /\ ServeSlots(f, Met(f, events'[f]), events'[f])

(* vd_OSflags_reset: each entry is served like one that waits for any.     *)
Reset(f) ==
    /\ events' = [events EXCEPT ![f] = {}]
    /\ LET AsAny(i) == [pending[f][i] EXCEPT !.type = "any"]
       IN  ServeSlots(f, [i \in Used(f) |-> AsAny(i)], BitsOf["flags"])

ClearAll(f) ==
    /\ InterruptRuns
    /\ events' = [events EXCEPT ![f] = {}]
    /\ UNCHANGED <<vars, pending>>

(* Mutant of PendTimeout: the entry is kept.                               *)
PendTimeoutKeeps(f, t) == pending' = pending

(* vd_OSflags_pendTimeout, and the tick's step that calls it.              *)
PendTimeout(f, t) ==
    pending' = [pending EXCEPT ![f] =
                  [i \in Slots |->
                     IF i \in Used(f) /\ @[i].tcb = t THEN NoEntry ELSE @[i]]]

PendTimesOut ==
    /\ TickWakes
    /\ resource[cursor] \in FlagObjects
    /\ PendTimeout(resource[cursor], cursor)
    /\ events' = events

FlagPend ==
    \E f \in FlagObjects, event \in Events, p \in Periods,
       type \in {"any", "exact"} : PendOnFlags(f, event, p, type)

FlagStep ==
    \/ \E f \in FlagObjects :
         \/ \E mask \in Events, set \in BOOLEAN : PostFlags(f, mask, set)
         \/ Reset(f)
         \/ ClearAll(f)
    \/ PendTimesOut

-----------------------------------------------------------------------------
(* An entry of the table is a task that waits, either suspended or held by *)
(* the object until its time-out, and each task that is held has an entry: *)
(* a time-out finds it, and no later event wakes it from something else.   *)
PendingMatchesTCB ==
    \A f \in FlagObjects :
        /\ \A i, j \in Used(f) : i # j => pending[f][i].tcb # pending[f][j].tcb
        /\ Pending(f) \subseteq Listed(wait)
        /\ \A t \in Pending(f) :
              resource[t] = f \/ (resource[t] = NoRes /\ SUSPENDED \in flags[t])
        /\ { t \in created : resource[t] = f } \subseteq Pending(f)

(* A task is taken off the table only as it becomes ready: "Wake up task   *)
(* and notify scheduler of reason" (flags.c:145, 162).                     *)
LeavesAwake ==
    [][\A f \in FlagObjects : \A t \in Pending(f) :
          t \in Pending(f)' \/ t \in Listed(ready')]_<<vars, flagVars>>

=============================================================================
