---------------------------- MODULE TimingProofs ----------------------------
(***************************************************************************)
(* Theorems about SchedulerTiming: sleepers wake on their tick, and every  *)
(* step of the scheduler is one that PreemptiveScheduler allows.  Theorems *)
(* about Background: the load figures of the background task, for any      *)
(* width of the window and whatever usage rules the environment breaks.    *)
(***************************************************************************)
EXTENDS SchedulerTiming, Background, SchedulerProofs

(***************************************************************************)
(* The strengthening of WakesOnTime: while the tick walks the wait list, a *)
(* sleeper that it has still to visit is one count behind its ticks.       *)
(***************************************************************************)

CountInv ==
    /\ due \in [AllTasks -> Nat]
    /\ \A t \in AllTasks : Sleeping(t) =>
          Ticks(sleepCntr[t]) = IF t \in ToVisit THEN due[t] + 1 ELSE due[t]

(* What becomes of due in a step that is not the arrival of a tick.        *)
DueFollows ==
    due' = [t \in AllTasks |->
               IF ~Sleeping(t)' THEN 0
               ELSE IF ~Sleeping(t) THEN Ticks(sleepCntr'[t])
               ELSE due[t]]

LEMMA TicksTyped ==
    ASSUME NEW c \in 0 .. CntMod - 1
    PROVE  Ticks(c) \in Nat /\ Ticks(c) > 0
BY TickAssumption DEF Ticks

(* A sleeper is on the wait list.                                          *)
LEMMA SleeperWaits ==
    ASSUME RuleInv, NEW t \in AllTasks, Sleeping(t)
    PROVE  t \in created /\ t \in Listed(wait) /\ t \notin Listed(ready)
<1>1. flags[t] # {} /\ flags[t] \intersect CheckBits # {}
  BY DEF Sleeping, CheckBits
<1>2. t \in created
  BY <1>1 DEF RuleInv, ListRules, FlagsInv
<1>3. t \in Listed(wait)
  BY <1>1, <1>2 DEF RuleInv, ListRules, FlagsInv, FlagsTellList
<1> QED
  BY <1>2, <1>3, ListsKnown DEF RuleInv, ListRules

LEMMA DueTyped ==
    ASSUME Inv', CountInv, DueFollows
    PROVE  due' \in [AllTasks -> Nat]
<1>1. ASSUME NEW t \in AllTasks
      PROVE  Ticks(sleepCntr'[t]) \in Nat /\ due[t] \in Nat
  <2>1. sleepCntr'[t] \in 0 .. CntMod - 1
    BY DEF Inv, TypeOK, TypeOfTCBs
  <2> QED
    BY <2>1, TicksTyped DEF CountInv
<1> QED
  BY <1>1 DEF DueFollows

(* A step after which every sleeper has its counter, and stays before or   *)
(* behind the walk.                                                        *)
LEMMA CountSame ==
    ASSUME Inv', CountInv, DueFollows,
           \A t \in AllTasks : Sleeping(t)' =>
              /\ Sleeping(t)
              /\ sleepCntr'[t] = sleepCntr[t]
              /\ t \in ToVisit' <=> t \in ToVisit
    PROVE  CountInv'
<1> SUFFICES ASSUME NEW t \in AllTasks, Sleeping(t)'
             PROVE  Ticks(sleepCntr'[t]) =
                       IF t \in ToVisit' THEN due'[t] + 1 ELSE due'[t]
  BY DueTyped DEF CountInv
<1>1. /\ Sleeping(t)
      /\ sleepCntr'[t] = sleepCntr[t]
      /\ t \in ToVisit' <=> t \in ToVisit
  OBVIOUS
<1>2. due'[t] = due[t]
  BY <1>1 DEF DueFollows
<1>3. Ticks(sleepCntr[t]) = IF t \in ToVisit THEN due[t] + 1 ELSE due[t]
  BY <1>1 DEF CountInv
<1> QED
  BY <1>1, <1>2, <1>3

LEMMA CountSlept ==
    ASSUME RuleInv, Inv', CountInv, DueFollows, NEW p, GoToSleep(p),
           NEW F, flags' = [flags EXCEPT ![current] = F],
           UNCHANGED tickVars
    PROVE  CountInv'
<1>1. /\ ~inTick /\ ~inTick' /\ current \in created /\ current \in AllTasks
      /\ current \in Listed(ready)
      /\ sleepCntr' = [sleepCntr EXCEPT ![current] = p]
  BY RunningTask DEF GoToSleep, tickVars, AllTasks
<1>2. ToVisit = {} /\ ToVisit' = {}
  BY <1>1 DEF ToVisit
<1>3. ~Sleeping(current)
  BY <1>1, SleeperWaits
<1>4. ASSUME NEW t \in AllTasks, Sleeping(t)'
      PROVE  Ticks(sleepCntr'[t]) =
                IF t \in ToVisit' THEN due'[t] + 1 ELSE due'[t]
  <2>1. CASE t = current
    BY <1>2, <1>3, <1>4, <2>1 DEF DueFollows
  <2>2. CASE t # current
    <3>1. sleepCntr'[t] = sleepCntr[t] /\ flags'[t] = flags[t]
      BY <1>1, <2>2 DEF Inv, RuleInv, TypeOK, TypeOfTCBs
    <3>2. Sleeping(t)
      BY <1>4, <3>1 DEF Sleeping
    <3>3. due'[t] = due[t]
      BY <1>4, <3>2 DEF DueFollows
    <3> QED
      BY <1>2, <3>1, <3>2, <3>3 DEF CountInv
  <2> QED
    BY <2>1, <2>2
<1> QED
  BY <1>4, DueTyped DEF CountInv

(* A wake-up between two ticks.                                            *)
LEMMA CountWoken ==
    ASSUME RuleInv, Inv', CountInv, DueFollows, NEW t \in Tasks, MakeReady(t),
           ~inTick, NEW F, F \intersect CheckBits = {},
           flags' = [flags EXCEPT ![t] = F], UNCHANGED tickVars
    PROVE  CountInv'
<1>1. ToVisit = {} /\ ToVisit' = {}
  BY DEF ToVisit, tickVars
<1>2. ASSUME NEW x \in AllTasks, Sleeping(x)'
      PROVE  /\ Sleeping(x)
             /\ sleepCntr'[x] = sleepCntr[x]
  <2>1. t \in AllTasks
    BY DEF AllTasks
  <2>2. x # t
    <3>1. flags'[t] = F
      BY <2>1 DEF RuleInv, Inv, TypeOK, TypeOfTCBs
    <3> QED
      BY <1>2, <3>1 DEF Sleeping
  <2>3. flags'[x] = flags[x] /\ sleepCntr'[x] = sleepCntr[x]
    BY <2>1, <2>2 DEF MakeReady, RuleInv, Inv, TypeOK, TypeOfTCBs
  <2> QED
    BY <1>2, <2>3 DEF Sleeping
<1> QED
  BY <1>1, <1>2, CountSame

(* A tick arrives: every sleeper is one tick nearer and to be visited.     *)
LEMMA TickStartCounts ==
    ASSUME RuleInv, CountInv, TickStart,
           due' = [t \in AllTasks |-> IF Sleeping(t) /\ due[t] > 0
                                       THEN due[t] - 1 ELSE due[t]]
    PROVE  CountInv'
<1>1. /\ ~inTick
      /\ UNCHANGED <<wait, flags, sleepCntr>>
      /\ wait # << >> => inTick' /\ cursor' = Head(wait)
  BY DEF TickStart, listVars
<1>2. ToVisit = {}
  BY <1>1 DEF ToVisit
<1>3. wait \in Seq(AllTasks) /\ IsInjective(wait)
  BY ListsKnown DEF RuleInv, ListRules
<1>4. ASSUME NEW t \in AllTasks, Sleeping(t)
      PROVE  /\ due[t] \in Nat /\ due[t] > 0
             /\ Ticks(sleepCntr[t]) = due[t]
             /\ t \in ToVisit'
  <2>1. Ticks(sleepCntr[t]) = due[t]
    BY <1>2, <1>4 DEF CountInv
  <2>2. Ticks(sleepCntr[t]) \in Nat /\ Ticks(sleepCntr[t]) > 0
    BY TicksTyped DEF RuleInv, Inv, TypeOK, TypeOfTCBs
  <2>3. t \in Listed(wait)
    BY <1>4, SleeperWaits
  <2>4. wait # << >>
    BY <2>3 DEF Listed
  <2>5. ToVisit' = Listed(wait)
    BY <1>1, <1>3, <2>4, FromHead DEF ToVisit
  <2> QED
    BY <2>1, <2>2, <2>3, <2>5
<1>5. due' \in [AllTasks -> Nat]
  BY DEF CountInv
<1>6. ASSUME NEW t \in AllTasks, Sleeping(t)'
      PROVE  Ticks(sleepCntr'[t]) =
                IF t \in ToVisit' THEN due'[t] + 1 ELSE due'[t]
  <2>1. Sleeping(t)
    BY <1>1, <1>6 DEF Sleeping
  <2>2. due'[t] = due[t] - 1
    BY <1>4, <2>1
  <2> QED
    BY <1>1, <1>4, <2>1, <2>2
<1> QED
  BY <1>5, <1>6 DEF CountInv

(* The walk stops: all it has still to visit is suspended.                 *)
LEMMA TickMeetsSuspendedCounts ==
    ASSUME RuleInv, WalkInv, CountInv, DueFollows, TickMeetsSuspended
    PROVE  CountInv'
<1>1. /\ Visiting /\ SUSPENDED \in flags[cursor] /\ cursor' = NoTask
      /\ UNCHANGED <<wait, flags, sleepCntr>>
  BY DEF TickMeetsSuspended, listVars
<1>2. Inv' /\ RuleInv'
  BY TickMeetsSuspendedInv, TickMeetsSuspendedRules DEF RuleInv
<1>3. ToVisit' = {}
  BY <1>1, <1>2, ListsKnownNext DEF ToVisit, RuleInv, ListRules
<1>4. cursor \in Listed(wait) /\ ToVisit = From(wait, cursor)
  BY <1>1 DEF WalkInv, Visiting, ToVisit
<1>5. From(wait, cursor) \subseteq Suspended
  <2>1. /\ wait \in Seq(AllTasks) /\ AtEnd(wait, Suspended)
        /\ cursor \in AllTasks
    BY <1>4, ListsTyped DEF RuleInv
  <2>2. cursor \in Suspended
    BY <1>1, <2>1 DEF Suspended
  <2> QED
    BY <1>4, <2>1, <2>2, FromAtEnd
<1>6. ASSUME NEW t \in AllTasks, Sleeping(t)
      PROVE  t \notin ToVisit
  <2>1. SUSPENDED \notin flags[t]
    BY <1>6 DEF Sleeping, CheckBits, SLEEP, SUSPENDED
  <2> QED
    BY <2>1, <1>4, <1>5 DEF Suspended
<1>7. \A t \in AllTasks : Sleeping(t)' => Sleeping(t)
  BY <1>1 DEF Sleeping
<1> QED
  BY <1>1, <1>2, <1>3, <1>6, <1>7, CountSame

LEMMA TickCountsDownCounts ==
    ASSUME RuleInv, WalkInv, CountInv, DueFollows, TickCountsDown
    PROVE  CountInv'
<1>1. /\ Visiting /\ cursor' = CursorNext /\ sleepCntr[cursor] # 1
      /\ sleepCntr' = [sleepCntr EXCEPT ![cursor] = (@ - 1) % CntMod]
      /\ wait' = wait /\ flags' = flags /\ inTick' = inTick
  BY DEF TickCountsDown, listVars
<1>2. Inv'
  BY TickCountsDownInv DEF RuleInv
<1>3. cursor \in Listed(wait) /\ cursor \in AllTasks
  BY <1>1, ListsTyped DEF WalkInv, Visiting, RuleInv
<1>4. ToVisit' = ToVisit \ {cursor} /\ cursor \in ToVisit
  <2>1. Inv /\ SoundLists
    BY DEF RuleInv, ListRules
  <2> QED
    BY <1>1, <1>3, <2>1, VisitGoesOn
<1>5. ASSUME NEW t \in AllTasks, Sleeping(t)'
      PROVE  Ticks(sleepCntr'[t]) =
                IF t \in ToVisit' THEN due'[t] + 1 ELSE due'[t]
  <2>1. Sleeping(t)
    BY <1>1, <1>5 DEF Sleeping
  <2>2. due'[t] = due[t] /\ due[t] \in Nat
    BY <1>5, <2>1 DEF DueFollows, CountInv
  <2>3. Ticks(sleepCntr[t]) = IF t \in ToVisit THEN due[t] + 1 ELSE due[t]
    BY <2>1 DEF CountInv
  <2>4. CASE t = cursor
    <3> DEFINE c == sleepCntr[t]
    <3>1. c \in 0 .. CntMod - 1 /\ c # 1 /\ sleepCntr'[t] = (c - 1) % CntMod
      BY <1>1, <1>3, <2>4 DEF RuleInv, Inv, TypeOK, TypeOfTCBs
    <3> HIDE DEF c
    <3>2. CntMod \in Nat /\ CntMod > 1
      BY TickAssumption
    <3>3. Ticks((c - 1) % CntMod) = Ticks(c) - 1
      <4>1. CASE c = 0
        <5>1. (0 - 1) % CntMod = CntMod - 1
          BY <3>2
        <5> QED
          BY <3>2, <4>1, <5>1 DEF Ticks
      <4>2. CASE c # 0
        <5>1. (c - 1) % CntMod = c - 1
          BY <3>1, <3>2, <4>2
        <5> QED
          BY <3>1, <3>2, <4>2, <5>1 DEF Ticks
      <4> QED
        BY <4>1, <4>2
    <3>4. Ticks(c) = due[t] + 1
      BY <1>4, <2>3, <2>4 DEF c
    <3> QED
      BY <1>4, <2>2, <2>4, <3>1, <3>3, <3>4
  <2>5. CASE t # cursor
    <3>1. sleepCntr'[t] = sleepCntr[t]
      BY <1>1, <2>5 DEF RuleInv, Inv, TypeOK, TypeOfTCBs
    <3> QED
      BY <1>4, <2>2, <2>3, <2>5, <3>1
  <2> QED
    BY <2>4, <2>5
<1> QED
  BY <1>2, <1>5, DueTyped DEF CountInv

LEMMA TickWakesCounts ==
    ASSUME RuleInv, CountInv, DueFollows, TickWakes
    PROVE  CountInv'
<1>1. /\ Visiting /\ cursor' = CursorNext /\ inTick' = inTick
      /\ cursor \in Listed(wait) /\ SUSPENDED \notin flags[cursor]
      /\ MakeReady(cursor)
      /\ flags' = [flags EXCEPT ![cursor] = @ \ ({SLEEP} \union ResourceBits)]
  BY DEF TickWakes
<1>2. Inv' /\ Inv /\ SoundLists
  BY TickWakesInv DEF RuleInv, ListRules
<1>3. ToVisit' = ToVisit \ {cursor}
  <2>1. wait' = Unlink(wait, cursor)
    BY <1>1 DEF MakeReady
  <2> QED
    BY <1>1, <1>2, <2>1, VisitGoesOn
<1>4. cursor \in AllTasks
  BY <1>1, <1>2, ListsKnown
<1>5. ASSUME NEW t \in AllTasks, Sleeping(t)'
      PROVE  /\ Sleeping(t)
             /\ sleepCntr'[t] = sleepCntr[t]
             /\ t \in ToVisit' <=> t \in ToVisit
  <2>1. t # cursor
    <3>1. SLEEP \notin flags'[cursor]
      BY <1>1, <1>4 DEF RuleInv, Inv, TypeOK, TypeOfTCBs
    <3> QED
      BY <1>5, <3>1 DEF Sleeping
  <2>2. flags'[t] = flags[t] /\ sleepCntr'[t] = sleepCntr[t]
    BY <1>1, <2>1 DEF MakeReady, RuleInv, Inv, TypeOK, TypeOfTCBs
  <2> QED
    BY <1>3, <1>5, <2>1, <2>2 DEF Sleeping
<1> QED
  BY <1>2, <1>5, CountSame

LEMMA CountNext ==
    ASSUME RulesKept, "isr_in_tick" \notin Relaxed, RuleInv, WalkInv, CountInv,
           [TimingNext]_timingVars
    PROVE  CountInv'
<1>1. Inv'
  <2>1. [Next]_vars
    BY DEF TimingNext, timingVars, Next
  <2> QED
    BY <2>1, NextInv DEF RuleInv
<1>2. CASE UNCHANGED timingVars
  BY <1>2 DEF timingVars, vars, listVars, tickVars, CountInv, Sleeping,
              ToVisit, From
<1>3. CASE /\ TickStart
           /\ due' = [t \in AllTasks |-> IF Sleeping(t) /\ due[t] > 0
                                          THEN due[t] - 1 ELSE due[t]]
  BY <1>3, TickStartCounts DEF RuleInv
<1>4. CASE NonTick /\ DueFollows
  <2>1. ASSUME NEW p, GoToSleep(p), NEW F, UNCHANGED tickVars,
               flags' = [flags EXCEPT ![current] = F]
        PROVE  CountInv'
    BY <2>1, <1>1, <1>4, CountSlept
  <2>2. CASE \/ \E p \in Periods : TaskSleep(p)
             \/ \E n \in WakeTimes : TaskSleepSetFreq(n)
             \/ \E r \in Resources, p \in Periods \ {0} : SetReasonForSleep(r, p)
    BY <2>1, <2>2 DEF TaskSleep, TaskSleepSetFreq, SetReasonForSleep
  <2>3. ASSUME NEW t \in Tasks, TaskWake(t)
        PROVE  CountInv'
    <3> DEFINE F == flags[t] \ CheckBits
    <3>1. /\ ~inTick /\ MakeReady(t) /\ UNCHANGED tickVars
          /\ flags' = [flags EXCEPT ![t] = F]
      BY <2>3 DEF TaskWake, MayWake, InterruptRuns
    <3>2. F \intersect CheckBits = {}
      OBVIOUS
    <3> HIDE DEF F
    <3> QED
      BY <1>1, <1>4, <3>1, <3>2, CountWoken
  <2>4. ASSUME NEW t \in Tasks, WakeFromResource(t)
        PROVE  CountInv'
    <3> DEFINE F == (flags[t] \ BitsOf[KindOf[resource[t]]]) \ CheckBits
    <3>1. /\ ~inTick /\ MakeReady(t) /\ UNCHANGED tickVars
          /\ flags' = [flags EXCEPT ![t] = F]
      BY <2>4 DEF WakeFromResource, MayWake, InterruptRuns
    <3>2. F \intersect CheckBits = {}
      OBVIOUS
    <3> HIDE DEF F
    <3> QED
      BY <1>1, <1>4, <3>1, <3>2, CountWoken
  <2>5. ASSUME NEW t \in Tasks, TaskSuspend(t)
        PROVE  CountInv'
    <3>1. /\ ~inTick /\ inTick' = inTick /\ sleepCntr' = sleepCntr
          /\ \/ flags' = flags
             \/ flags' = [flags EXCEPT ![t] = @ \union {SUSPENDED}]
      BY <2>5 DEF TaskSuspend, TaskRuns, tickVars
    <3>2. ToVisit = {} /\ ToVisit' = {}
      BY <3>1 DEF ToVisit
    <3>3. \A x \in AllTasks : Sleeping(x)' => Sleeping(x)
      BY <3>1 DEF Sleeping, CheckBits, SLEEP, SUSPENDED,
                  RuleInv, Inv, TypeOK, TypeOfTCBs
    <3> QED
      BY <1>1, <1>4, <3>1, <3>2, <3>3, CountSame
  <2>6. CASE TickVisit
    <3>1. ~TickMislinks
      BY ListsKnown DEF TickMislinks, Visiting, WalkInv, RuleInv, ListRules,
                        RulesKept
    <3> QED
      BY <1>4, <2>6, <3>1, TickMeetsSuspendedCounts, TickCountsDownCounts,
         TickWakesCounts DEF TickVisit
  <2>7. CASE \/ \E t \in Tasks : CreateTask(t)
             \/ \E t \in Tasks, p \in Priorities : SetNewPriority(t, p)
             \/ Start \/ Dispatch \/ GetReasonForWakeup
    <3>1. UNCHANGED <<wait, flags, sleepCntr, inTick, cursor>>
      BY <2>7 DEF CreateTask, SetNewPriority, Start, Dispatch,
                  GetReasonForWakeup, listVars, tickVars
    <3>2. ToVisit' = ToVisit /\ \A t \in AllTasks : Sleeping(t)' = Sleeping(t)
      BY <3>1 DEF ToVisit, From, Sleeping
    <3> QED
      BY <1>1, <1>4, <3>1, <3>2, CountSame
  <2>8. CASE TickEnd
    <3>1. /\ cursor = NoTask /\ inTick' = FALSE
          /\ UNCHANGED <<flags, sleepCntr>>
      BY <2>8 DEF TickEnd
    <3>2. ToVisit = {} /\ ToVisit' = {}
      BY <3>1, ListsKnown DEF ToVisit, RuleInv, ListRules
    <3>3. \A t \in AllTasks : Sleeping(t)' = Sleeping(t)
      BY <3>1 DEF Sleeping
    <3> QED
      BY <1>1, <1>4, <3>1, <3>2, <3>3, CountSame
  <2>9. CASE \E t \in Tasks : WrongListUnlinked(t)
    BY <2>9, WrongListUnlinkedNever
  <2> QED
    BY <1>4, <2>2, <2>3, <2>4, <2>5, <2>6, <2>7, <2>8, <2>9 DEF NonTick
<1> QED
  BY <1>2, <1>3, <1>4 DEF TimingNext, DueFollows

(* A task that sleeps for a period wakes on the tick on which that period  *)
(* is over, however many tasks sleep, are woken or are suspended in        *)
(* between, and for a period of 0 as well.                                 *)
THEOREM SleepersWakeOnTime ==
    ASSUME RulesKept, "isr_in_tick" \notin Relaxed
    PROVE  TimingSpec => []WakesOnTime
<1> DEFINE TimingInv == RuleInv /\ WalkInv /\ CountInv
<1>1. TimingInit => TimingInv
  <2> SUFFICES ASSUME TimingInit PROVE TimingInv
    OBVIOUS
  <2>1. RuleInv /\ WalkInv
    BY InitRules DEF TimingInit, Init, WalkInv
  <2>2. \A t \in AllTasks : ~Sleeping(t)
    BY DEF TimingInit, Init, Sleeping
  <2> QED
    BY <2>1, <2>2 DEF TimingInit, CountInv
<1>2. TimingInv /\ [TimingNext]_timingVars => TimingInv'
  <2>1. [TimingNext]_timingVars => [Next]_vars
    BY DEF TimingNext, timingVars, Next
  <2> QED
    BY <2>1, NextRules, WalkNext, CountNext
<1>3. TimingInv => WakesOnTime
  BY DEF WakesOnTime, CountInv, ToVisit, AllTasks
<1> HIDE DEF TimingInv
<1> QED
  BY <1>1, <1>2, <1>3, PTL DEF TimingSpec

-----------------------------------------------------------------------------
(***************************************************************************)
(* The steps of the scheduler are steps of PreemptiveScheduler.            *)
(***************************************************************************)

Runnable == { t \in created : flags[t] \intersect CheckBits = {} }

PromisedStep == [Promise!Next]_(Promise!vars)

(* The tasks that can run are those on the ready list.                     *)
LEMMA RunnableIsReady ==
    ASSUME RuleInv
    PROVE  Runnable = Listed(ready)
BY ListsKnown DEF RuleInv, ListRules, FlagsInv, FlagsTellList, Runnable

LEMMA RunnableIsReadyNext ==
    ASSUME RuleInv'
    PROVE  Runnable' = Listed(ready')
BY ListsKnownNext DEF RuleInv, ListRules, FlagsInv, FlagsTellList, Runnable

LEMMA HeadIsPromised ==
    ASSUME RuleInv
    PROVE  Head(ready) \in Promise!MostUrgent
<1>1. /\ ready \in Seq(AllTasks) /\ Head(ready) \in Listed(ready)
      /\ priority \in [AllTasks -> Nat]
  BY ListsKnown DEF RuleInv, ListRules
<1>2. \A t \in Listed(ready) : priority[Head(ready)] <= priority[t]
  BY <1>1, HeadIsMostUrgent DEF RuleInv, ListRules
<1> QED
  BY <1>1, <1>2, RunnableIsReady DEF Promise!MostUrgent, Runnable

(* A running task is the most urgent one, so it may make others leave.     *)
LEMMA RunnerIsPromised ==
    ASSUME RuleInv, TaskRuns
    PROVE  current \in Promise!MostUrgent
BY RunningTask, HeadIsPromised

LEMMA AdmitStep ==
    ASSUME RuleInv, RuleInv', NEW t \in AllTasks \ {BG}, t \notin Listed(ready),
           Listed(ready') = Listed(ready) \union {t}, current' = current,
           \A u \in AllTasks \ {t} : priority'[u] = priority[u]
    PROVE  PromisedStep
<1>1. Runnable' = Runnable \union {t} /\ t \notin Runnable
  BY RunnableIsReady, RunnableIsReadyNext
<1> QED
  BY <1>1 DEF PromisedStep, Promise!Next, Promise!Admit, Runnable

LEMMA LeaveStep ==
    ASSUME RuleInv, RuleInv', TaskRuns, NEW t \in Listed(ready) \ {BG},
           Listed(ready') = Listed(ready) \ {t},
           UNCHANGED <<current, priority>>
    PROVE  PromisedStep
<1>1. Runnable' = Runnable \ {t} /\ t \in Runnable /\ t \in AllTasks
  BY RunnableIsReady, RunnableIsReadyNext, ListsKnown DEF RuleInv, ListRules
<1>2. current \in Promise!MostUrgent
  BY RunnerIsPromised
<1> QED
  BY <1>1, <1>2 DEF PromisedStep, Promise!Next, Promise!Leave, Runnable

LEMMA SameStep ==
    ASSUME RuleInv, RuleInv', Listed(ready') = Listed(ready),
           UNCHANGED <<current, priority>>
    PROVE  PromisedStep
<1>1. Runnable' = Runnable
  BY RunnableIsReady, RunnableIsReadyNext
<1> QED
  BY <1>1 DEF PromisedStep, Promise!vars, Runnable

LEMMA ReprioritiseStep ==
    ASSUME RuleInv, RuleInv', NEW t \in AllTasks \ {BG},
           Listed(ready') = Listed(ready), current' = current,
           \A u \in AllTasks \ {t} : priority'[u] = priority[u]
    PROVE  PromisedStep
<1>1. Runnable' = Runnable
  BY RunnableIsReady, RunnableIsReadyNext
<1> QED
  BY <1>1 DEF PromisedStep, Promise!Next, Promise!Reprioritise, Runnable

LEMMA SleepStep ==
    ASSUME RuleInv, RuleInv', NEW p, GoToSleep(p), UNCHANGED priority
    PROVE  PromisedStep
<1>1. /\ TaskRuns /\ ready' = Tail(ready) /\ current' = current
  BY DEF GoToSleep, SetNextReadyTaskToRun
<1>2. current = Head(ready) /\ current \in Listed(ready) \ {BG}
  BY <1>1, RunningTask
<1>3. Listed(ready') = Listed(ready) \ {current}
  BY <1>1, <1>2, ListsKnown, TailFacts DEF RuleInv, ListRules
<1> QED
  BY <1>1, <1>2, <1>3, LeaveStep

LEMMA WakeStep ==
    ASSUME RuleInv, RuleInv', fault = "none", NEW t \in Listed(wait),
           MakeReady(t), UNCHANGED <<priority, current>>
    PROVE  PromisedStep
<1>1. /\ t \in created \ {BG}
      /\ Listed(ready') = Listed(ready) \union {t}
  BY MakeReadyLists DEF RuleInv
<1>2. t \notin Listed(ready) /\ t \in AllTasks
  BY ListsKnown DEF RuleInv, ListRules
<1> QED
  BY <1>1, <1>2, AdmitStep

LEMMA CreateStep ==
    ASSUME RuleInv, RuleInv', NEW t \in Tasks, CreateTask(t)
    PROVE  PromisedStep
<1>1. /\ t \in AllTasks \ created /\ t # BG
      /\ created' = created \union {t}
      /\ priority' = [priority EXCEPT ![t] = BasePrio[t]]
      /\ UNCHANGED <<wait, current>>
  BY TaskAssumption DEF CreateTask, AllTasks, switchVars
<1>2. Listed(ready') = Listed(ready) \union {t}
  <2>1. /\ Listed(ready) \intersect Listed(wait) = {}
        /\ Listed(ready) \union Listed(wait) = created
    BY ListsKnown DEF RuleInv, ListRules
  <2>2. /\ Listed(ready') \intersect Listed(wait') = {}
        /\ Listed(ready') \union Listed(wait') = created'
    BY ListsKnownNext DEF RuleInv, ListRules
  <2> QED
    BY <1>1, <2>1, <2>2
<1>3. \A u \in AllTasks \ {t} : priority'[u] = priority[u]
  BY <1>1 DEF RuleInv, Inv, TypeOK, TypeOfTCBs
<1>4. t \notin Listed(ready)
  BY <1>1, ListsKnown DEF RuleInv, ListRules
<1> QED
  BY <1>1, <1>2, <1>3, <1>4, AdmitStep

LEMMA SuspendStep ==
    ASSUME RuleInv, RuleInv', RulesKept, NEW t \in Tasks, TaskSuspend(t)
    PROVE  PromisedStep
<1>1. TaskRuns /\ UNCHANGED <<current, priority>>
  BY DEF TaskSuspend
<1>2. \/ ready' = ready
      \/ t \in Listed(ready) /\ ready' = Unlink(ready, t)
  BY RulesSuspended DEF RuleInv
<1>3. CASE ready' = ready
  BY <1>1, <1>3, SameStep
<1>4. CASE t \in Listed(ready) /\ ready' = Unlink(ready, t)
  <2>1. Listed(ready') = Listed(ready) \ {t} /\ t # BG
    BY <1>4, ListsKnown, UnlinkFacts DEF RuleInv, ListRules, TaskSuspend
  <2> QED
    BY <1>1, <1>4, <2>1, LeaveStep
<1> QED
  BY <1>2, <1>3, <1>4

LEMMA SwitchStep ==
    ASSUME RuleInv, RuleInv', Dispatch
    PROVE  PromisedStep
<1>1. current' = Head(ready) /\ UNCHANGED <<ready, priority>>
  BY DEF Dispatch, RuleInv, SwitchInv, listVars
<1>2. Runnable' = Runnable
  BY <1>1, RunnableIsReady, RunnableIsReadyNext
<1>3. current' \in Promise!MostUrgent
  BY <1>1, HeadIsPromised
<1> QED
  BY <1>1, <1>2, <1>3 DEF PromisedStep, Promise!Next, Promise!Switch, Runnable

LEMMA NewPriorityStep ==
    ASSUME RuleInv, RuleInv', NEW t \in Tasks, NEW p \in Priorities,
           SetNewPriority(t, p)
    PROVE  PromisedStep
<1>1. /\ t \in AllTasks \ {BG} /\ current' = current
      /\ priority' = [priority EXCEPT ![t] = p]
  BY TaskAssumption DEF SetNewPriority, PreemptIfHeadChanged, switchVars, AllTasks
<1>2. Listed(ready') = Listed(ready)
  BY RulesReordered DEF RuleInv
<1>3. \A u \in AllTasks \ {t} : priority'[u] = priority[u]
  BY <1>1 DEF RuleInv, Inv, TypeOK, TypeOfTCBs
<1> QED
  BY <1>1, <1>2, <1>3, ReprioritiseStep

LEMMA NextIsPromised ==
    ASSUME RulesKept, RuleInv, [Next]_vars
    PROVE  PromisedStep
<1>1. RuleInv'
  BY NextRules
<1>2. CASE \/ \E p \in Periods : TaskSleep(p)
           \/ \E n \in WakeTimes : TaskSleepSetFreq(n)
           \/ \E r \in Resources, p \in Periods \ {0} : SetReasonForSleep(r, p)
  BY <1>1, <1>2, SleepStep DEF TaskSleep, TaskSleepSetFreq, SetReasonForSleep
<1>3. CASE \/ \E t \in Tasks : TaskWake(t) \/ WakeFromResource(t)
           \/ TickWakes
  <2>1. \E t \in Listed(wait) :
           MakeReady(t) /\ UNCHANGED <<priority, current>> /\ fault = "none"
    BY <1>3 DEF TaskWake, WakeFromResource, TickWakes, MayWake, InterruptRuns,
                PreemptIfHeadChanged, Visiting, switchVars
  <2> QED
    BY <1>1, <2>1, WakeStep
<1>4. CASE \/ Start \/ GetReasonForWakeup \/ TickStart \/ TickMeetsSuspended
           \/ TickCountsDown \/ TickMislinks \/ TickEnd
           \/ \E t \in Tasks : WrongListUnlinked(t)
           \/ UNCHANGED vars
  <2>1. UNCHANGED <<ready, current, priority>>
    BY <1>4 DEF Start, GetReasonForWakeup, TickStart, TickMeetsSuspended,
                TickCountsDown, TickMislinks, TickEnd, WrongListUnlinked,
                PreemptIfHeadChanged, listVars, switchVars, vars
  <2> QED
    BY <1>1, <2>1, SameStep
<1>5. CASE \E t \in Tasks : CreateTask(t) \/ TaskSuspend(t)
  BY <1>1, <1>5, CreateStep, SuspendStep
<1>6. CASE \E t \in Tasks, p \in Priorities : SetNewPriority(t, p)
  BY <1>1, <1>6, NewPriorityStep
<1>7. CASE Dispatch
  BY <1>1, <1>7, SwitchStep
<1> QED
  BY <1>2, <1>3, <1>4, <1>5, <1>6, <1>7 DEF Next, NonTick, TickVisit

LEMMA InitIsPromised == Init => Promise!Init
<1> SUFFICES ASSUME Init PROVE Promise!Init
  OBVIOUS
<1>1. priority \in [AllTasks -> Nat]
  BY InitInv DEF Inv, TypeOK, TypeOfTCBs
<1>2. { t \in created : flags[t] \intersect CheckBits = {} } = {BG}
  BY DEF Init, AllTasks
<1> QED
  BY <1>1, <1>2 DEF Promise!Init, Init

(* The lists, the tick and the pending interrupt implement what            *)
(* PreemptiveScheduler allows, step by step: tasks become runnable one at  *)
(* a time, one stops only while the most urgent one runs, and every switch *)
(* is to a most urgent task (README.md:5).                                 *)
THEOREM StepsKeepPromise ==
    ASSUME RulesKept
    PROVE  Spec => Promise!Safety
<1>1. RuleInv /\ [Next]_vars => [Promise!Next]_(Promise!vars)
  BY NextIsPromised DEF PromisedStep
<1> QED
  BY SpecRules, InitIsPromised, <1>1, PTL DEF Spec, Promise!Safety

-----------------------------------------------------------------------------
(***************************************************************************)
(* Background.                                                             *)
(***************************************************************************)

(* Every step is one of Scheduler or leaves the scheduler alone.           *)

LEMMA StepOfScheduler ==
    ASSUME BgNext
    PROVE  [Next]_vars
<1>1. CASE BackgroundStep
  BY <1>1 DEF BackgroundStep, Inspect, SampleTick, StoreTimestamp, Arm,
              PreSleep, FallAsleep, OSTaskFault, GoesTo
<1>2. CASE Tick
  BY <1>2 DEF Tick, Next
<1>3. CASE HandlerStep
  BY <1>3 DEF HandlerStep, Next, NonTick
<1>4. CASE OtherInterrupt \/ SuspendScheduler \/ SetNewTickPeriod \/ RunOver
  BY <1>4 DEF OtherInterrupt, SuspendScheduler, SetNewTickPeriod, RunOver
<1>5. CASE TaskStep
  BY <1>5 DEF TaskStep, ApplicationStep, Next, NonTick
<1> QED
  BY <1>1, <1>2, <1>3, <1>4, <1>5 DEF BgNext

(* The background task, the load calculation and the hooks leave the       *)
(* scheduler as it is: whatever holds of Scheduler holds with them.        *)
THEOREM SchedulerUndisturbed == BgSpec => Spec
<1>1. BgInit => Init
  BY DEF BgInit
<1>2. [BgNext]_systemVars => [Next]_vars
  <2>1. UNCHANGED systemVars => UNCHANGED vars
    BY DEF systemVars
  <2> QED
    BY <2>1, StepOfScheduler
<1> QED
  BY <1>1, <1>2, PTL DEF BgSpec, Spec

-----------------------------------------------------------------------------
(* The sleep state and the scheduler.                                      *)

AwakeInv == sleeping => current = BG /\ ~pend /\ ~inTick /\ started

LEMMA AwakeStep ==
    ASSUME AwakeInv, [BgNext]_systemVars
    PROVE  AwakeInv'
<1>1. CASE BackgroundStep
  BY <1>1 DEF BackgroundStep, Inspect, SampleTick, StoreTimestamp, Arm,
              PreSleep, FallAsleep, OSTaskFault, GoesTo, BackgroundAt,
              AwakeInv, hookVars, vars, switchVars, tickVars
<1>2. CASE Tick \/ HandlerStep \/ OtherInterrupt \/ SuspendScheduler
           \/ SetNewTickPeriod
  <2>1. sleeping' = FALSE
    BY <1>2 DEF Tick, HandlerStep, OtherInterrupt, SuspendScheduler,
                SetNewTickPeriod, InterruptEnter, PostSleep
  <2> QED
    BY <2>1 DEF AwakeInv
<1>3. CASE TaskStep
  <2>1. sleeping' = sleeping
    BY <1>3 DEF TaskStep, bgVars, hookVars
  <2> SUFFICES ASSUME sleeping PROVE AwakeInv'
    BY <2>1 DEF AwakeInv
  <2>2. current = BG /\ ~pend /\ ~inTick /\ started
    BY DEF AwakeInv
  <2>3. ~TaskRuns /\ ~Visiting
    BY <2>2 DEF TaskRuns, Visiting
  <2>4. PICK t \in Tasks : CreateTask(t)
    BY <1>3, <2>2, <2>3
       DEF TaskStep, ApplicationStep, Start, Dispatch, TaskSleep,
           TaskSleepSetFreq, SetReasonForSleep, GoToSleep, TaskSuspend,
           GetReasonForWakeup, TickVisit, TickMeetsSuspended, TickCountsDown,
           TickWakes, TickMislinks, TickEnd
  <2> QED
    BY <2>2, <2>4 DEF CreateTask, AwakeInv, switchVars, tickVars
<1>4. CASE RunOver \/ UNCHANGED systemVars
  BY <1>4 DEF RunOver, AwakeInv, systemVars, bgVars, hookVars, vars,
              switchVars, tickVars
<1> QED
  BY <1>1, <1>2, <1>3, <1>4 DEF BgNext

(* No task runs and no switch is due while the sleep state is "sleeping",  *)
(* however interrupts fall between the steps of the background task.       *)
THEOREM AwakeWhenWorking == BgSpec => []AwakeForWork
<1>1. BgInit => AwakeInv
  BY DEF BgInit, AwakeInv
<1>2. AwakeInv => AwakeForWork
  BY DEF AwakeInv, AwakeForWork
<1> QED
  BY <1>1, <1>2, AwakeStep, PTL DEF BgSpec

-----------------------------------------------------------------------------
(* The load.                                                               *)

(* In k ticks of a window they credit at most k times Hundred.             *)
LoadInv ==
    /\ tickCntr \in 0 .. MaxTick - 1
    /\ percent \in 0 .. Hundred
    /\ prevTimestamp \in 0 .. Hundred
    /\ "average" \notin credited => idleAvg \in 0 .. Hundred
    /\ "running" \notin credited =>
          /\ idleRunning \in Nat
          /\ idleRunning <= Hundred * (tickCntr % Window)

LEMMA Division ==
    ASSUME NEW n \in Nat, NEW w \in Nat \ {0}
    PROVE  /\ n \div w \in Nat
           /\ n % w \in 0 .. w - 1
           /\ n = w * (n \div w) + (n % w)
OBVIOUS

LEMMA NextRemainder ==
    ASSUME NEW n \in Nat, NEW w \in Nat \ {0}, (n + 1) % w # 0
    PROVE  (n + 1) % w = (n % w) + 1
<1> DEFINE q == n \div w
           r == n % w
           p == (n + 1) \div w
           s == (n + 1) % w
<1>1. q \in Nat /\ r \in 0 .. w - 1 /\ n = w * q + r
  BY Division
<1>2. p \in Nat /\ s \in 1 .. w - 1 /\ n + 1 = w * p + s
  <2>1. n + 1 \in Nat
    OBVIOUS
  <2>2. p \in Nat /\ s \in 0 .. w - 1 /\ n + 1 = w * p + s
    BY <2>1, Division, Zenon
  <2>3. s # 0
    OBVIOUS
  <2> HIDE DEF p, s
  <2> QED
    BY <2>2, <2>3
<1> HIDE DEF q, r, p, s
<1>3. w * (p - q) = r - (s - 1)
  BY <1>1, <1>2
<1>4. r - (s - 1) < w /\ r - (s - 1) > -w
  BY <1>1, <1>2
<1>5. p - q < 1
  BY <1>1, <1>2, <1>3, <1>4
<1>6. p - q > -1
  BY <1>1, <1>2, <1>3, <1>4
<1>7. p - q = 0
  BY <1>1, <1>2, <1>5, <1>6
<1>8. r = s - 1
  BY <1>1, <1>2, <1>3, <1>7
<1> QED
  BY <1>1, <1>2, <1>8 DEF r, s

LEMMA AverageBounded ==
    ASSUME NEW a \in Nat, NEW h \in Nat, NEW w \in Nat \ {0}, a <= h * w
    PROVE  a \div w \in 0 .. h
<1> DEFINE q == a \div w
           r == a % w
<1>1. q \in Nat /\ r \in 0 .. w - 1 /\ a = w * q + r
  BY Division
<1> HIDE DEF q, r
<1>2. w * q <= w * h
  BY <1>1
<1>3. q <= h
  BY <1>1, <1>2
<1> QED
  BY <1>1, <1>3 DEF q

LEMMA ZeroRemainder ==
    ASSUME NEW w \in Nat \ {0}
    PROVE  (0 % w) = 0
<1> DEFINE q == 0 \div w
           r == 0 % w
<1>1. q \in Nat /\ r \in 0 .. w - 1 /\ 0 = w * q + r
  BY Division
<1> HIDE DEF q, r
<1>2. w * q \in Nat
  BY <1>1
<1>3. r = 0
  BY <1>1, <1>2
<1> QED
  BY <1>3 DEF r

LEMMA NextOfCounter ==
    ASSUME NEW w \in Nat \ {0}, NEW n \in 0 .. w - 1
    PROVE  /\ ((n + 1) % w) \in 0 .. w - 1
           /\ ((n + 1) % w) # 0 => ((n + 1) % w) = n + 1
<1> DEFINE m == n + 1
           q == m \div w
           r == m % w
<1>1. m \in Nat /\ m <= w
  OBVIOUS
<1> HIDE DEF m
<1>2. q \in Nat /\ r \in 0 .. w - 1 /\ m = w * q + r
  BY <1>1, Division, Zenon
<1> HIDE DEF q, r
<1>3. CASE q = 0
  BY <1>1, <1>2, <1>3 DEF m, r
<1>4. CASE q # 0
  <2>1. w * q >= w
    BY <1>2, <1>4
  <2>2. r = 0
    BY <1>1, <1>2, <2>1
  <2> QED
    BY <1>2, <2>2 DEF m, r
<1> QED
  BY <1>3, <1>4

(* All but the tick leaves the counter alone.                              *)
LEMMA OnlyTickCounts ==
    ASSUME NonTick
    PROVE  tickCntr' = tickCntr
BY DEF NonTick, CreateTask, Start, Dispatch, TaskSleep, TaskSleepSetFreq,
       SetReasonForSleep, GetReasonForWakeup, TaskSuspend, TaskWake,
       WakeFromResource, WrongListUnlinked, SetNewPriority, TickVisit,
       TickMeetsSuspended, TickCountsDown, TickWakes, TickMislinks, TickEnd,
       tickVars

LEMMA SmallRemainder ==
    ASSUME NEW n \in Nat, NEW w \in Nat \ {0}, n < w
    PROVE  n % w = n
<1> DEFINE q == n \div w
           r == n % w
<1>1. q \in Nat /\ r \in 0 .. w - 1 /\ n = w * q + r
  BY Division
<1> HIDE DEF q, r
<1>2. CASE q = 0
  BY <1>1, <1>2 DEF r
<1>3. CASE q # 0
  <2>1. w * q >= w
    BY <1>1, <1>3
  <2> QED
    BY <1>1, <2>1
<1> QED
  BY <1>2, <1>3

(* What a tick credits keeps the sum below the width of CPU_idleRunning.   *)
LEMMA TickCredit ==
    ASSUME LoadInv, "running" \notin credited,
           NEW k, k = tickCntr % Window,
           NEW total, total = (idleRunning + IdleOfTick) % LoadMod
    PROVE  /\ total \in Nat
           /\ total <= Hundred * (k + 1)
           /\ Averaged(total) \in 0 .. Hundred
<1> USE BackgroundAssumption
<1> DEFINE sum == idleRunning + IdleOfTick
<1>1. IdleOfTick \in 0 .. Hundred
  BY DEF LoadInv, IdleOfTick
<1>2. k \in 0 .. Window - 1
  BY Division, TickAssumption DEF LoadInv
<1>3. sum \in Nat /\ sum <= Hundred * (k + 1)
  <2>1. Hundred * (k + 1) = Hundred * k + Hundred
    BY <1>2
  <2>2. /\ Hundred * k \in Nat
        /\ idleRunning \in Nat /\ idleRunning <= Hundred * k
    BY <1>2 DEF LoadInv
  <2> QED
    BY <1>1, <2>1, <2>2
<1>4. Hundred * (k + 1) <= Hundred * Window
  BY <1>2
<1>5. sum <= Hundred * Window
  BY <1>2, <1>3, <1>4
<1>6. LoadMod \in Nat \ {0} /\ sum < LoadMod
  <2>1. Hundred * Window \in Nat /\ Hundred * Window < LoadMod
    OBVIOUS
  <2> HIDE DEF sum
  <2> QED
    BY <1>3, <1>5, <2>1
<1>7. total = sum
  <2> HIDE DEF sum
  <2> QED
    BY <1>3, <1>6, SmallRemainder DEF sum
<1> HIDE DEF sum
<1>8. total \div Window \in 0 .. Hundred
  BY <1>3, <1>5, <1>7, AverageBounded
<1>9. Averaged(total) = total \div Window
  <2> DEFINE q == total \div Window
  <2>1. q \in Nat /\ q < 256
    BY <1>8
  <2> HIDE DEF q
  <2>2. q % 256 = q
    BY <2>1, SmallRemainder
  <2> QED
    BY <2>2 DEF q, Averaged
<1> QED
  BY <1>3, <1>7, <1>8, <1>9

LEMMA LoadTick ==
    ASSUME LoadInv, Tick
    PROVE  LoadInv'
<1> USE BackgroundAssumption
<1> DEFINE k     == tickCntr % Window
           total == (idleRunning + IdleOfTick) % LoadMod
<1>1. /\ idleAvg' = IF (tickCntr' % Window) = 0 THEN Averaged(total)
                                                 ELSE idleAvg
      /\ idleRunning' = IF (tickCntr' % Window) = 0 THEN 0 ELSE total
      /\ credited' = IF (tickCntr' % Window) # 0 THEN credited
                     ELSE IF "running" \in credited THEN {"average"} ELSE {}
      /\ prevTimestamp' = 0
      /\ percent' = percent
  BY DEF Tick, CountIdle, InterruptEnter
<1>2. tickCntr' = (tickCntr + 1) % MaxTick /\ tickCntr \in 0 .. MaxTick - 1
  BY DEF Tick, TickStart, LoadInv
<1>3. /\ percent \in 0 .. Hundred
      /\ "average" \notin credited => idleAvg \in 0 .. Hundred
  BY DEF LoadInv
<1>4. "running" \notin credited =>
        /\ total \in Nat
        /\ total <= Hundred * (k + 1)
        /\ Averaged(total) \in 0 .. Hundred
  BY TickCredit
<1> HIDE DEF total, k
<1>5. tickCntr' \in 0 .. MaxTick - 1
  BY <1>2, TickAssumption, NextOfCounter
<1>6. percent' \in 0 .. Hundred /\ prevTimestamp' \in 0 .. Hundred
  BY <1>1, <1>3
<1>7. "average" \notin credited' => idleAvg' \in 0 .. Hundred
  <2>1. CASE (tickCntr' % Window) = 0
    <3>1. CASE "running" \in credited
      BY <1>1, <2>1, <3>1
    <3>2. CASE "running" \notin credited
      BY <1>1, <1>4, <2>1, <3>2
    <3> QED
      BY <3>1, <3>2
  <2>2. CASE (tickCntr' % Window) # 0
    BY <1>1, <1>3, <2>2
  <2> QED
    BY <2>1, <2>2
<1>8. ASSUME "running" \notin credited'
      PROVE  /\ idleRunning' \in Nat
             /\ idleRunning' <= Hundred * (tickCntr' % Window)
  <2>1. CASE (tickCntr' % Window) = 0
    <3>1. idleRunning' = 0
      BY <1>1, <2>1
    <3>2. Hundred * 0 = 0
      OBVIOUS
    <3> QED
      BY <2>1, <3>1, <3>2
  <2>2. CASE (tickCntr' % Window) # 0
    <3>1. tickCntr' # 0
      <4>1. (0 % Window) = 0
        BY ZeroRemainder
      <4> QED
        BY <4>1, <2>2
    <3>2. tickCntr' = tickCntr + 1
      BY <1>2, <3>1, TickAssumption, NextOfCounter
    <3>3. tickCntr \in Nat
      BY <1>2, TickAssumption
    <3>4. (tickCntr' % Window) = k + 1
      BY <2>2, <3>2, <3>3, NextRemainder DEF k
    <3>5. idleRunning' = total /\ "running" \notin credited
      BY <1>1, <1>8, <2>2
    <3> QED
      BY <1>4, <3>4, <3>5
  <2> QED
    BY <2>1, <2>2
<1> QED
  BY <1>5, <1>6, <1>7, <1>8 DEF LoadInv

(* What taskWake credits is on record.                                     *)
LEMMA LoadHandler ==
    ASSUME LoadInv, HandlerStep, tickCntr' = tickCntr
    PROVE  LoadInv'
<1>1. percent' = percent
  BY DEF HandlerStep, InterruptEnter
<1>2. CASE CreditIdle
  <2>1. prevTimestamp' = prevTimestamp /\ idleAvg' = idleAvg
    BY <1>2 DEF CreditIdle
  <2>2. CASE current = BG
    <3>1. credited' = credited \union {"running"}
      BY <1>2, <2>2 DEF CreditIdle
    <3> QED
      BY <1>1, <2>1, <3>1 DEF LoadInv
  <2>3. CASE current # BG
    <3>1. idleRunning' = idleRunning /\ credited' = credited
      BY <1>2, <2>3 DEF CreditIdle
    <3> QED
      BY <1>1, <2>1, <3>1 DEF LoadInv
  <2> QED
    BY <2>2, <2>3
<1>3. CASE UNCHANGED loadVars
  BY <1>1, <1>3 DEF LoadInv, loadVars
<1> QED
  BY <1>2, <1>3 DEF HandlerStep

LEMMA LoadStep ==
    ASSUME LoadInv, [BgNext]_systemVars
    PROVE  LoadInv'
<1>1. CASE BackgroundStep
  BY <1>1, BackgroundAssumption
     DEF BackgroundStep, Inspect, SampleTick, StoreTimestamp, Arm,
         PreSleep, FallAsleep, OSTaskFault, GoesTo, LoadInv, loadVars, vars,
         tickVars
<1>2. CASE Tick
  BY <1>2, LoadTick
<1>3. CASE HandlerStep \/ TaskStep
  <2>1. tickCntr' = tickCntr
    <3>1. NonTick
      BY <1>3 DEF HandlerStep, TaskStep, ApplicationStep, NonTick
    <3> QED
      BY <3>1, OnlyTickCounts
  <2>2. CASE HandlerStep
    BY <2>1, <2>2, LoadHandler
  <2>3. CASE TaskStep
    <3>1. UNCHANGED <<percent, loadVars>>
      BY <2>3 DEF TaskStep, bgVars
    <3> QED
      BY <2>1, <3>1 DEF LoadInv, loadVars
  <2> QED
    BY <1>3, <2>2, <2>3
<1>4. CASE OtherInterrupt \/ SuspendScheduler \/ SetNewTickPeriod \/ RunOver
           \/ UNCHANGED systemVars
  BY <1>4 DEF OtherInterrupt, SuspendScheduler, SetNewTickPeriod, RunOver,
              InterruptEnter, systemVars, bgVars, LoadInv, loadVars, vars,
              tickVars
<1> QED
  BY <1>1, <1>2, <1>3, <1>4 DEF BgNext

(* A window in which taskWake counted no idle time yields a percentage,    *)
(* whatever the width of the window, whatever earlier windows held and     *)
(* wherever in the background task's loop a tick or a switch falls.  It is *)
(* the credit in taskWake alone (sch.c:623) that leaves this range.        *)
THEOREM LoadStaysPercent == BgSpec => []TickLoadIsPercent
<1>1. BgInit => LoadInv
  <2> SUFFICES ASSUME BgInit PROVE LoadInv
    OBVIOUS
  <2>1. Hundred * (0 % Window) = 0
    BY BackgroundAssumption, ZeroRemainder
  <2> QED
    BY <2>1, BackgroundAssumption, TickAssumption DEF BgInit, Init, LoadInv
<1>2. LoadInv => TickLoadIsPercent
  BY BackgroundAssumption
     DEF LoadInv, TickLoadIsPercent, LoadIsPercent, CPULoad
<1> QED
  BY <1>1, <1>2, LoadStep, PTL DEF BgSpec

-----------------------------------------------------------------------------
(* What is run over.                                                       *)

(* Who has, or gets, the CPU was created.                                  *)
InspectedInv ==
    /\ current \in created \union {NoTask}
    /\ next \in created \union {NoTask}

LEMMA CreatedGrows ==
    ASSUME [Next]_vars
    PROVE  created \subseteq created'
BY DEF Next, NonTick, CreateTask, Start, Dispatch, TaskSleep, TaskSleepSetFreq,
       SetReasonForSleep, GoToSleep, SetNextReadyTaskToRun, GetReasonForWakeup,
       TaskSuspend, TaskWake, WakeFromResource, MakeReady, WrongListUnlinked,
       SetNewPriority, TickStart, TickVisit, TickMeetsSuspended,
       TickCountsDown, TickWakes, TickMislinks, TickEnd, vars, listVars

(* A step that requests a switch names the head of the ready list.         *)
Requests == next' = Head(ready') /\ ready' # << >>

LEMMA SleepRequests ==
    ASSUME NEW p, GoToSleep(p)
    PROVE  current' = current /\ (next' = next \/ Requests)
BY DEF GoToSleep, SetNextReadyTaskToRun, SwitchTo, Requests

LEMMA WakeRequests ==
    ASSUME Inv, NEW t \in Tasks, TaskWake(t) \/ WakeFromResource(t)
    PROVE  current' = current /\ (next' = next \/ Requests)
<1>1. fault = "none" /\ t \in Listed(wait) /\ MakeReady(t)
  BY DEF TaskWake, WakeFromResource, MayWake, InterruptRuns
<1>2. ready' # << >>
  BY <1>1, MakeReadyLists
<1> QED
  BY <1>2 DEF TaskWake, WakeFromResource, PreemptIfHeadChanged, SwitchTo,
              Requests

LEMMA SuspendRequests ==
    ASSUME Inv, NEW t \in Tasks, TaskSuspend(t)
    PROVE  current' = current /\ (next' = next \/ Requests)
<1>1. Inv'
  BY TaskSuspendInv
<1>2. fault = "none" /\ ready # << >>
  BY BGIsReady DEF TaskSuspend, TaskRuns
<1>3. ready' = ready \/ fault' = fault
  BY DEF TaskSuspend
<1>4. ready' # << >>
  BY <1>1, <1>2, <1>3 DEF Inv, ListsInv, SoundLists
<1> QED
  BY <1>4 DEF TaskSuspend, SwitchTo, Requests

LEMMA PriorityRequests ==
    ASSUME Inv, NEW t \in Tasks, NEW p \in Priorities, SetNewPriority(t, p)
    PROVE  current' = current /\ (next' = next \/ Requests)
<1>1. Inv'
  BY SetNewPriorityInv
<1>2. fault' = "none"
  BY DEF SetNewPriority
<1>3. ready' # << >>
  BY <1>1, <1>2 DEF Inv, ListsInv, SoundLists
<1> QED
  BY <1>3 DEF SetNewPriority, PreemptIfHeadChanged, SwitchTo, Requests,
              switchVars

LEMMA OtherRequests ==
    ASSUME Inv,
           \/ \E t \in Tasks : CreateTask(t) \/ WrongListUnlinked(t)
           \/ Start \/ Dispatch \/ GetReasonForWakeup
           \/ TickStart \/ TickVisit \/ TickEnd
           \/ UNCHANGED vars
    PROVE  /\ current' \in {current, next}
           /\ next' = next \/ Requests
<1>1. CASE Start \/ TickEnd
  <2>1. fault = "none" /\ ready' = ready
    BY <1>1 DEF Start, TickEnd, listVars
  <2>2. ready' # << >>
    BY <2>1, BGIsReady
  <2> QED
    BY <1>1, <2>1, <2>2
       DEF Start, TickEnd, SwitchTo, PreemptIfHeadChanged, Requests
<1>2. CASE Dispatch
  BY <1>2 DEF Dispatch
<1>3. CASE TickStart \/ TickVisit \/ GetReasonForWakeup \/ UNCHANGED vars
  BY <1>3 DEF GetReasonForWakeup, TickStart, TickVisit, TickMeetsSuspended,
              TickCountsDown, TickWakes, TickMislinks, vars, switchVars
<1>4. ASSUME NEW t \in Tasks, CreateTask(t) \/ WrongListUnlinked(t)
      PROVE  UNCHANGED <<current, next>>
  BY <1>4 DEF CreateTask, WrongListUnlinked, switchVars
<1> QED
  BY <1>1, <1>2, <1>3, <1>4

LEMMA InspectedStep ==
    ASSUME Inv, InspectedInv, [Next]_vars
    PROVE  InspectedInv'
<1>1. /\ current' \in {current, next}
      /\ next' = next \/ Requests
  BY SleepRequests, WakeRequests, SuspendRequests, PriorityRequests,
     OtherRequests
     DEF Next, NonTick, TaskSleep, TaskSleepSetFreq, SetReasonForSleep
<1>2. Requests => next' \in created'
  <2>1. ready' \in Seq(created')
    BY NextInv DEF Inv, TypeOK, TypeOfLists
  <2> QED
    BY <2>1 DEF Requests
<1> QED
  BY <1>1, <1>2, CreatedGrows DEF InspectedInv

OverrunInv ==
    /\ broken \in Inspected \union {NoTask}
    /\ naps \in 0 .. 1
    /\ naps = 1 => bgAt \in {"asleep", "inspect"} /\ broken # NoTask

LEMMA OverrunStep ==
    ASSUME Inv, InspectedInv, OverrunInv, [BgNext]_systemVars
    PROVE  OverrunInv'
<1>1. Inspected \subseteq Inspected'
  BY StepOfScheduler, CreatedGrows DEF Inspected, systemVars
<1>2. CASE Inspect
  <2>1. naps = 1 => halted'
    BY <1>2, BackgroundAssumption
       DEF Inspect, OSTaskFault, GoesTo, OverrunInv
  <2>2. halted' => bgAt' = "inspect"
    BY <1>2 DEF Inspect, OSTaskFault, GoesTo
  <2> QED
    BY <1>1, <1>2, <2>1, <2>2 DEF Inspect, OverrunInv
<1>3. CASE FallAsleep
  <2>1. naps = 0
    BY <1>3 DEF FallAsleep, BackgroundAt, OverrunInv
  <2> QED
    BY <1>1, <1>3, <2>1 DEF FallAsleep, GoesTo, OverrunInv
<1>4. CASE SampleTick \/ StoreTimestamp \/ Arm \/ PreSleep
  BY <1>1, <1>4 DEF SampleTick, StoreTimestamp, Arm, PreSleep, BackgroundAt,
                    GoesTo, OverrunInv, markVars
<1>5. CASE Tick \/ HandlerStep \/ OtherInterrupt \/ SuspendScheduler
           \/ SetNewTickPeriod
  <2>1. /\ UNCHANGED markVars
        /\ bgAt' = IF bgAt = "asleep" THEN "inspect" ELSE bgAt
    BY <1>5 DEF Tick, HandlerStep, OtherInterrupt, SuspendScheduler,
                SetNewTickPeriod, InterruptEnter
  <2> QED
    BY <1>1, <2>1 DEF OverrunInv, markVars
<1>6. CASE RunOver
  <2>1. naps = 0
    BY <1>6 DEF RunOver, OverrunInv
  <2>2. broken' \in Inspected
    BY <1>6, BackgroundAssumption, TaskAssumption
       DEF RunOver, InspectedInv, Inspected, AllTasks
  <2> QED
    BY <1>1, <1>6, <2>1, <2>2 DEF RunOver, OverrunInv
<1>7. CASE TaskStep \/ UNCHANGED systemVars
  BY <1>1, <1>7 DEF TaskStep, systemVars, bgVars, markVars, OverrunInv
<1> QED
  BY <1>2, <1>3, <1>4, <1>5, <1>6, <1>7 DEF BgNext, BackgroundStep

(* A stack or a block that is run over is seen before the CPU sleeps twice,*)
(* whenever it happens and however many tasks there are.                   *)
THEOREM OverrunIsCaught == BgSpec => []CaughtNextRound
<1>1. BgInit => Inv /\ InspectedInv /\ OverrunInv
  BY InitInv DEF BgInit, Init, InspectedInv, OverrunInv
<1>2. Inv /\ InspectedInv /\ OverrunInv /\ [BgNext]_systemVars
        => Inv' /\ InspectedInv' /\ OverrunInv'
  <2> SUFFICES ASSUME Inv, InspectedInv, OverrunInv, [BgNext]_systemVars
               PROVE  Inv' /\ InspectedInv' /\ OverrunInv'
    OBVIOUS
  <2>1. [Next]_vars
    BY StepOfScheduler DEF systemVars
  <2> QED
    BY <2>1, NextInv, InspectedStep, OverrunStep
<1>3. OverrunInv => CaughtNextRound
  BY DEF OverrunInv, CaughtNextRound
<1> QED
  BY <1>1, <1>2, <1>3, PTL DEF BgSpec

=============================================================================
