-------------------------- MODULE SemaphoreProofs ---------------------------
(***************************************************************************)
(* Theorems about Semaphore, for any tasks, semaphores, periods and        *)
(* bounds, when taskWake is not used on blocked tasks and the blocked      *)
(* lists are not overrun (Careless = {}).  An interrupt may call the OS    *)
(* between two nodes of the tick's walk.                                   *)
(***************************************************************************)
EXTENDS Semaphore, SchedulerProofs, FiniteSetTheorems

(***************************************************************************)
(* The strengthening of BlockedMatchesTCB.  That a blocked task is on the  *)
(* wait list and marked with the bits of a semaphore is the scheduler's    *)
(* part (RuleInv and HeldInv).                                             *)
(***************************************************************************)

SemaTypes ==
    /\ sema \in [Resources -> Nat]
    /\ blocked \in [Resources -> Seq(AllTasks)]
    /\ calling \in [AllTasks -> Resources \union {NoRes}]
    /\ strayed = FALSE

ListsMatch ==
    /\ \A r \in Resources : IsInjective(blocked[r])
    /\ \A r \in Resources, t \in AllTasks :
          t \in Listed(blocked[r]) <=> resource[t] = r

CallsMatch ==
    \A t \in AllTasks : resource[t] # NoRes => calling[t] = resource[t]

SemaInv == RuleInv /\ HeldInv /\ SemaTypes /\ ListsMatch /\ CallsMatch

(* The rules kept.                                                         *)
Careful == Relaxed \subseteq {"isr_in_tick"} /\ Careless = {}

LEMMA CarefulGives ==
    ASSUME Careful
    PROVE  /\ RulesKept
           /\ "wake_blocked" \notin Relaxed
           /\ "no_slot" \notin Careless /\ "no_sentinel" \notin Careless
BY DEF Careful, RulesKept

-----------------------------------------------------------------------------
(* What semaphore.c does to the scheduler is what the scheduler allows.    *)
LEMMA SemaStepIsNext ==
    ASSUME Inv, [SemaNext]_allVars
    PROVE  [Next]_vars
<1>1. ASSUME NEW r \in Resources, WaitTakes(r) \/ Post(r)
      PROVE  [Next]_vars
  <2>1. CASE WakeFromResource(Head(blocked[r]))
    <3>1. Head(blocked[r]) \in Tasks
      BY <2>1 DEF WakeFromResource, MayWake, AllTasks, Inv, TypeOK, TypeOfLists
    <3> QED
      BY <2>1, <3>1 DEF Next, NonTick
  <2>2. CASE UNCHANGED vars
    BY <2>2
  <2> QED
    BY <1>1, <2>1, <2>2 DEF WaitTakes, Post
<1>2. ASSUME NEW r \in Resources, NEW p \in Periods \ {0}, WaitBlocks(r, p)
      PROVE  [Next]_vars
  BY <1>2 DEF WaitBlocks, Next, NonTick
<1>3. CASE WaitLooksAgain \/ UNCHANGED allVars
  BY <1>3 DEF WaitLooksAgain, allVars
<1>4. CASE TickTimesOut \/ \E t \in Tasks : WakeTimesOut(t)
  BY <1>4 DEF TickTimesOut, WakeTimesOut, Next, NonTick, TickVisit
<1>5. CASE TaskStep
  BY <1>5 DEF TaskStep, Next, NonTick
<1>6. CASE OtherStep
  BY <1>6 DEF OtherStep, Next, NonTick, TickVisit
<1> QED
  BY <1>1, <1>2, <1>3, <1>4, <1>5, <1>6 DEF SemaNext

(* Every behaviour of the semaphores is one of the scheduler, so all that  *)
(* is proved of Scheduler holds in Semaphore too.                          *)
THEOREM SemaphoresUseTheScheduler == SemaSpec => Spec
<1>1. SemaInit => Init /\ Inv
  BY InitInv DEF SemaInit
<1>2. Inv /\ [SemaNext]_allVars => Inv' /\ [Next]_vars
  BY SemaStepIsNext, NextInv
<1> QED
  BY <1>1, <1>2, PTL DEF SemaSpec, Spec

-----------------------------------------------------------------------------
(* A blocked task is a created one on the wait list.                       *)
LEMMA HolderWaits ==
    ASSUME RuleInv, HeldInv, NEW t \in AllTasks, resource[t] # NoRes
    PROVE  t \in created /\ t \in Listed(wait) /\ t \notin Listed(ready)
<1>1. SLEEP \in flags[t]
  BY DEF HeldInv
<1>2. t \in created
  BY <1>1 DEF RuleInv, ListRules, FlagsInv
<1>3. t \in Listed(wait)
  BY <1>1, <1>2 DEF RuleInv, ListRules, FlagsInv, FlagsTellList, CheckBits
<1> QED
  BY <1>2, <1>3, ListsKnown DEF RuleInv, ListRules

(* The running task is on no blocked list.                                 *)
LEMMA RunnerHoldsNothing ==
    ASSUME RuleInv, HeldInv, TaskRuns
    PROVE  /\ current \in Tasks /\ current \in AllTasks
           /\ resource[current] = NoRes
BY RunningTask, ReadyHoldsNothing DEF AllTasks

LEMMA NoResIsNone ==
    ASSUME NEW r \in Resources
    PROVE  r # NoRes
BY ResourceAssumption

(* Nobody joins a blocked list and nobody leaves one.                      *)
LEMMA MatchSame ==
    ASSUME ListsMatch, CallsMatch, UNCHANGED <<blocked, resource>>,
           \A t \in AllTasks : resource[t] # NoRes => calling'[t] = calling[t]
    PROVE  ListsMatch' /\ CallsMatch'
BY DEF ListsMatch, CallsMatch

(* A task joins one.                                                       *)
LEMMA MatchJoined ==
    ASSUME RuleInv, SemaTypes, ListsMatch, CallsMatch,
           NEW r \in Resources, NEW t \in AllTasks, resource[t] = NoRes,
           NEW s, IsInjective(s), Listed(s) = Listed(blocked[r]) \union {t},
           blocked' = [blocked EXCEPT ![r] = s],
           resource' = [resource EXCEPT ![t] = r],
           calling' = [calling EXCEPT ![t] = r]
    PROVE  ListsMatch' /\ CallsMatch'
<1>1. /\ resource'[t] = r /\ calling'[t] = r
      /\ \A x \in AllTasks \ {t} :
            resource'[x] = resource[x] /\ calling'[x] = calling[x]
  BY DEF RuleInv, Inv, TypeOK, TypeOfTCBs, SemaTypes
<1>2. /\ blocked'[r] = s
      /\ \A q \in Resources \ {r} : blocked'[q] = blocked[q]
  BY DEF SemaTypes
<1>3. \A q \in Resources : IsInjective(blocked'[q])
  BY <1>2 DEF ListsMatch
<1>4. ASSUME NEW q \in Resources, NEW x \in AllTasks
      PROVE  x \in Listed(blocked'[q]) <=> resource'[x] = q
  <2>1. x \in Listed(blocked[q]) <=> resource[x] = q
    BY DEF ListsMatch
  <2>2. q # NoRes
    BY NoResIsNone
  <2> QED
    BY <1>1, <1>2, <2>1, <2>2
<1>5. CallsMatch'
  BY <1>1 DEF CallsMatch
<1> QED
  BY <1>3, <1>4, <1>5 DEF ListsMatch

(* A task leaves the one it is on.                                         *)
LEMMA MatchLeft ==
    ASSUME RuleInv, SemaTypes, ListsMatch, CallsMatch,
           NEW r \in Resources, NEW t \in AllTasks, resource[t] = r,
           NEW s, IsInjective(s), Listed(s) = Listed(blocked[r]) \ {t},
           blocked' = [blocked EXCEPT ![r] = s],
           resource' = [resource EXCEPT ![t] = NoRes],
           calling' = calling
    PROVE  ListsMatch' /\ CallsMatch'
<1>1. /\ resource'[t] = NoRes
      /\ \A x \in AllTasks \ {t} : resource'[x] = resource[x]
  BY DEF RuleInv, Inv, TypeOK, TypeOfTCBs
<1>2. /\ blocked'[r] = s
      /\ \A q \in Resources \ {r} : blocked'[q] = blocked[q]
  BY DEF SemaTypes
<1>3. \A q \in Resources : IsInjective(blocked'[q])
  BY <1>2 DEF ListsMatch
<1>4. ASSUME NEW q \in Resources, NEW x \in AllTasks
      PROVE  x \in Listed(blocked'[q]) <=> resource'[x] = q
  <2>1. x \in Listed(blocked[q]) <=> resource[x] = q
    BY DEF ListsMatch
  <2>2. q # NoRes
    BY NoResIsNone
  <2> QED
    BY <1>1, <1>2, <2>1, <2>2
<1>5. CallsMatch'
  BY <1>1 DEF CallsMatch
<1> QED
  BY <1>3, <1>4, <1>5 DEF ListsMatch

(* The list that a waiter joins, in priority order.                        *)
LEMMA WaiterJoins ==
    ASSUME SemaInv, Careful, NEW r \in Resources, TaskRuns,
           BlockTask(r, current)
    PROVE  LET s == InsertByPrio(blocked[r], current, priority)
           IN  /\ strayed' = strayed
               /\ blocked' = [blocked EXCEPT ![r] = s]
               /\ s \in Seq(AllTasks)
               /\ IsInjective(s)
               /\ Listed(s) = Listed(blocked[r]) \union {current}
               /\ SortedByPrio(blocked[r], priority) => SortedByPrio(s, priority)
<1> DEFINE s == InsertByPrio(blocked[r], current, priority)
<1>1. /\ strayed' = strayed
      /\ blocked' = [blocked EXCEPT ![r] = s]
      /\ CanInsert(blocked[r], current, priority)
  BY CarefulGives DEF BlockTask, SemaInv, SemaTypes
<1>2. /\ blocked[r] \in Seq(AllTasks) /\ IsInjective(blocked[r])
      /\ current \in AllTasks /\ current \notin Listed(blocked[r])
      /\ priority \in [AllTasks -> Nat]
  BY RunnerHoldsNothing, NoResIsNone
     DEF SemaInv, SemaTypes, ListsMatch, RuleInv, Inv, TypeOK, TypeOfTCBs
<1> QED
  BY <1>1, <1>2, JoinFacts

(* The list that a post takes the first waiter off.                        *)
LEMMA FirstLeaves ==
    ASSUME SemaInv, NEW r \in Resources, blocked[r] # << >>
    PROVE  /\ Head(blocked[r]) \in AllTasks
           /\ Head(blocked[r]) \in Listed(blocked[r])
           /\ resource[Head(blocked[r])] = r
           /\ Tail(blocked[r]) \in Seq(AllTasks)
           /\ IsInjective(Tail(blocked[r]))
           /\ Listed(Tail(blocked[r])) = Listed(blocked[r]) \ {Head(blocked[r])}
<1>1. blocked[r] \in Seq(AllTasks) /\ IsInjective(blocked[r])
  BY DEF SemaInv, SemaTypes, ListsMatch
<1>2. /\ Head(blocked[r]) \in Listed(blocked[r])
      /\ Tail(blocked[r]) \in Seq(AllTasks)
      /\ IsInjective(Tail(blocked[r]))
      /\ Listed(Tail(blocked[r])) = Listed(blocked[r]) \ {Head(blocked[r])}
  BY <1>1, TailFacts
<1>3. Head(blocked[r]) \in AllTasks
  BY <1>1, HeadIsTask
<1> QED
  BY <1>2, <1>3 DEF SemaInv, ListsMatch

(* The list that a time-out unlinks its task from.                         *)
LEMMA TimedOutLeaves ==
    ASSUME SemaInv, TickTimesOut
    PROVE  /\ cursor \in AllTasks
           /\ \/ /\ resource[cursor] = NoRes
                 /\ UNCHANGED <<blocked, resource, strayed>>
              \/ /\ resource[cursor] \in Resources
                 /\ cursor \in Listed(blocked[resource[cursor]])
                 /\ blocked' = [blocked EXCEPT ![resource[cursor]] =
                                  Unlink(@, cursor)]
                 /\ resource' = [resource EXCEPT ![cursor] = NoRes]
                 /\ strayed' = strayed
<1>1. /\ cursor \in Listed(wait)
      /\ BlockedTimeout(cursor)
      /\ resource' = IF HeldBits(cursor) = {}
                       THEN resource ELSE [resource EXCEPT ![cursor] = NoRes]
  BY DEF TickTimesOut, TickWakes, TaskSleepTimeoutHandler
<1>2. cursor \in AllTasks
  BY <1>1, ListsKnown DEF SemaInv, RuleInv, ListRules
<1>3. resource[cursor] \in Resources \union {NoRes}
  BY <1>2 DEF SemaInv, RuleInv, Inv, TypeOK, TypeOfTCBs
<1>4. CASE resource[cursor] = NoRes
  <2>1. HeldBits(cursor) = {}
    BY <1>2, <1>4 DEF SemaInv, HeldInv
  <2> QED
    BY <1>1, <1>2, <1>4, <2>1 DEF BlockedTimeout
<1>5. CASE resource[cursor] # NoRes
  <2>1. HeldBits(cursor) # {} /\ resource[cursor] \in Resources
    BY <1>2, <1>3, <1>5, BitsOfKind DEF SemaInv, HeldInv
  <2>2. cursor \in Listed(blocked[resource[cursor]])
    BY <1>2, <2>1 DEF SemaInv, ListsMatch
  <2> QED
    BY <1>1, <1>2, <1>5, <2>1, <2>2 DEF BlockedTimeout, SemaInv, SemaTypes
<1> QED
  BY <1>4, <1>5

-----------------------------------------------------------------------------
(* Every step preserves the strengthening.                                 *)

LEMMA SchedulerPart ==
    ASSUME SemaInv, Careful, [SemaNext]_allVars
    PROVE  RuleInv' /\ HeldInv'
<1>1. [Next]_vars
  BY SemaStepIsNext DEF SemaInv, RuleInv
<1> QED
  BY <1>1, CarefulGives, NextRules, HeldNext DEF SemaInv

(* A step that concerns no semaphore.                                      *)
LEMMA AloofStep ==
    ASSUME SemaInv, RuleInv' /\ HeldInv', resource' = resource,
           UNCHANGED semaVars
    PROVE  SemaInv'
<1>1. SemaTypes'
  BY DEF SemaInv, SemaTypes, semaVars
<1>2. ListsMatch' /\ CallsMatch'
  BY MatchSame DEF SemaInv, semaVars
<1> QED
  BY <1>1, <1>2 DEF SemaInv

LEMMA WaitTakesSema ==
    ASSUME SemaInv, RuleInv' /\ HeldInv', NEW r \in Resources, WaitTakes(r)
    PROVE  SemaInv'
<1>1. /\ sema[r] # 0 /\ sema' = [sema EXCEPT ![r] = @ - 1]
      /\ UNCHANGED <<resource, blocked, calling, strayed>>
  BY DEF WaitTakes, vars
<1>2. SemaTypes'
  BY <1>1 DEF SemaInv, SemaTypes
<1>3. ListsMatch' /\ CallsMatch'
  BY <1>1, MatchSame DEF SemaInv
<1> QED
  BY <1>2, <1>3 DEF SemaInv

LEMMA WaitBlocksSema ==
    ASSUME SemaInv, Careful, RuleInv' /\ HeldInv',
           NEW r \in Resources, NEW p, WaitBlocks(r, p)
    PROVE  SemaInv'
<1> DEFINE s == InsertByPrio(blocked[r], current, priority)
<1>1. /\ TaskRuns /\ BlockTask(r, current)
      /\ resource' = [resource EXCEPT ![current] = r]
      /\ calling' = [calling EXCEPT ![current] = r]
      /\ sema' = sema
  BY DEF WaitBlocks, InApplication, SetReasonForSleep
<1>2. current \in AllTasks /\ resource[current] = NoRes
  BY <1>1, RunnerHoldsNothing DEF SemaInv
<1>3. /\ strayed' = strayed
      /\ blocked' = [blocked EXCEPT ![r] = s]
      /\ s \in Seq(AllTasks)
      /\ IsInjective(s)
      /\ Listed(s) = Listed(blocked[r]) \union {current}
  BY <1>1, WaiterJoins
<1> HIDE DEF s
<1>4. SemaTypes'
  BY <1>1, <1>3 DEF SemaInv, SemaTypes
<1>5. ListsMatch' /\ CallsMatch'
  BY <1>1, <1>2, <1>3, MatchJoined DEF SemaInv
<1> QED
  BY <1>4, <1>5 DEF SemaInv

LEMMA WaitLooksAgainSema ==
    ASSUME SemaInv, RuleInv' /\ HeldInv', WaitLooksAgain
    PROVE  SemaInv'
<1> DEFINE r == calling[current]
<1>1. /\ TaskRuns /\ r # NoRes
      /\ sema' = IF sema[r] # 0 THEN [sema EXCEPT ![r] = @ - 1] ELSE sema
      /\ calling' = [calling EXCEPT ![current] = NoRes]
      /\ UNCHANGED <<resource, blocked, strayed>>
  BY DEF WaitLooksAgain, vars
<1>2. current \in AllTasks /\ resource[current] = NoRes
  BY <1>1, RunnerHoldsNothing DEF SemaInv
<1>3. r \in Resources
  BY <1>1, <1>2 DEF SemaInv, SemaTypes
<1> HIDE DEF r
<1>4. SemaTypes'
  <2>1. sema' \in [Resources -> Nat]
    BY <1>1, <1>3 DEF SemaInv, SemaTypes
  <2> QED
    BY <1>1, <2>1 DEF SemaInv, SemaTypes
<1>5. \A t \in AllTasks : resource[t] # NoRes => calling'[t] = calling[t]
  BY <1>1, <1>2 DEF SemaInv, SemaTypes
<1>6. ListsMatch' /\ CallsMatch'
  BY <1>1, <1>5, MatchSame DEF SemaInv
<1> QED
  BY <1>4, <1>6 DEF SemaInv

LEMMA PostSema ==
    ASSUME SemaInv, RuleInv' /\ HeldInv', NEW r \in Resources, Post(r)
    PROVE  SemaInv'
<1>1. /\ sema' = [sema EXCEPT ![r] = @ + 1]
      /\ UNCHANGED <<calling, strayed>>
  BY DEF Post
<1>2. CASE blocked[r] = << >>
  <2>1. UNCHANGED <<resource, blocked>>
    BY <1>2 DEF Post, vars
  <2>2. SemaTypes'
    BY <1>1, <2>1 DEF SemaInv, SemaTypes
  <2>3. ListsMatch' /\ CallsMatch'
    BY <1>1, <2>1, MatchSame DEF SemaInv
  <2> QED
    BY <2>2, <2>3 DEF SemaInv
<1>3. CASE blocked[r] # << >>
  <2> DEFINE t == Head(blocked[r])
             s == Tail(blocked[r])
  <2>1. /\ blocked' = [blocked EXCEPT ![r] = s]
        /\ resource' = [resource EXCEPT ![t] = NoRes]
    BY <1>3 DEF Post, WakeFromResource
  <2>2. /\ t \in AllTasks /\ resource[t] = r
        /\ s \in Seq(AllTasks) /\ IsInjective(s)
        /\ Listed(s) = Listed(blocked[r]) \ {t}
    BY <1>3, FirstLeaves
  <2> HIDE DEF s, t
  <2>3. SemaTypes'
    BY <1>1, <2>1, <2>2 DEF SemaInv, SemaTypes
  <2>4. ListsMatch' /\ CallsMatch'
    BY <1>1, <2>1, <2>2, MatchLeft DEF SemaInv
  <2> QED
    BY <2>3, <2>4 DEF SemaInv
<1> QED
  BY <1>2, <1>3

LEMMA TickTimesOutSema ==
    ASSUME SemaInv, RuleInv' /\ HeldInv', TickTimesOut
    PROVE  SemaInv'
<1> DEFINE t == cursor
           r == resource[cursor]
           s == Unlink(blocked[r], t)
<1>1. UNCHANGED <<sema, calling>>
  BY DEF TickTimesOut
<1>2. /\ t \in AllTasks
      /\ \/ UNCHANGED <<blocked, resource, strayed>>
         \/ /\ r \in Resources /\ t \in Listed(blocked[r])
            /\ blocked' = [blocked EXCEPT ![r] = s]
            /\ resource' = [resource EXCEPT ![t] = NoRes]
            /\ strayed' = strayed
  BY TimedOutLeaves
<1>3. CASE UNCHANGED <<blocked, resource, strayed>>
  BY <1>1, <1>3, AloofStep DEF semaVars
<1>4. CASE /\ r \in Resources /\ t \in Listed(blocked[r])
           /\ blocked' = [blocked EXCEPT ![r] = s]
           /\ resource' = [resource EXCEPT ![t] = NoRes]
           /\ strayed' = strayed
  <2>1. blocked[r] \in Seq(AllTasks) /\ IsInjective(blocked[r])
    BY <1>4 DEF SemaInv, SemaTypes, ListsMatch
  <2>2. /\ s \in Seq(AllTasks) /\ IsInjective(s)
        /\ Listed(s) = Listed(blocked[r]) \ {t}
    BY <1>4, <2>1, UnlinkFacts
  <2>3. resource[t] = r
    OBVIOUS
  <2> HIDE DEF s, r, t
  <2>4. SemaTypes'
    BY <1>1, <1>4, <2>2 DEF SemaInv, SemaTypes
  <2>5. ListsMatch' /\ CallsMatch'
    BY <1>1, <1>2, <1>4, <2>2, <2>3, MatchLeft DEF SemaInv
  <2> QED
    BY <2>4, <2>5 DEF SemaInv
<1> QED
  BY <1>2, <1>3, <1>4

LEMMA SemaNextInv ==
    ASSUME SemaInv, Careful, [SemaNext]_allVars
    PROVE  SemaInv'
<1>1. RuleInv' /\ HeldInv'
  BY SchedulerPart
<1>2. ASSUME NEW r \in Resources, WaitTakes(r) \/ Post(r)
      PROVE  SemaInv'
  BY <1>1, <1>2, WaitTakesSema, PostSema
<1>3. ASSUME NEW r \in Resources, NEW p \in Periods \ {0}, WaitBlocks(r, p)
      PROVE  SemaInv'
  BY <1>1, <1>3, WaitBlocksSema
<1>4. CASE WaitLooksAgain \/ TickTimesOut
  BY <1>1, <1>4, WaitLooksAgainSema, TickTimesOutSema
<1>5. ASSUME NEW t \in Tasks, WakeTimesOut(t)
      PROVE  SemaInv'
  <2>1. UNCHANGED <<resource, semaVars>>
    BY <1>5, CarefulGives DEF WakeTimesOut, TaskWake, semaVars
  <2> QED
    BY <1>1, <2>1, AloofStep
<1>6. CASE TaskStep /\ UNCHANGED semaVars
  <2>1. resource' = resource
    BY <1>6 DEF TaskStep, TaskSleep, TaskSleepSetFreq, GetReasonForWakeup,
                TaskSuspend
  <2> QED
    BY <1>1, <1>6, <2>1, AloofStep
<1>7. CASE (OtherStep /\ UNCHANGED semaVars) \/ UNCHANGED allVars
  <2>1. resource' = resource /\ UNCHANGED semaVars
    BY <1>7 DEF OtherStep, CreateTask, Start, Dispatch, SetNewPriority,
                WrongListUnlinked, TickStart, TickMeetsSuspended,
                TickCountsDown, TickMislinks, TickEnd, allVars, vars
  <2> QED
    BY <1>1, <2>1, AloofStep
<1> QED
  BY <1>2, <1>3, <1>4, <1>5, <1>6, <1>7 DEF SemaNext

LEMMA SemaInitInv == SemaInit => SemaInv
<1> SUFFICES ASSUME SemaInit PROVE SemaInv
  OBVIOUS
<1>1. RuleInv
  BY InitRules DEF SemaInit
<1>2. /\ flags = [t \in AllTasks |-> {}]
      /\ resource = [t \in AllTasks |-> NoRes]
      /\ blocked = [r \in Resources |-> << >>]
      /\ calling = [t \in AllTasks |-> NoRes]
      /\ strayed = FALSE
      /\ sema \in [Resources -> InitValues]
  BY DEF SemaInit, Init
<1>3. HeldInv
  BY <1>2 DEF HeldInv, HeldBits
<1>4. SemaTypes
  <2>1. sema \in [Resources -> Nat]
    <3>1. InitValues \subseteq Nat
      BY SemaAssumption
    <3> QED
      BY <1>2, <3>1
  <2>2. << >> \in Seq(AllTasks)
    OBVIOUS
  <2>3. blocked \in [Resources -> Seq(AllTasks)]
    BY <1>2, <2>2
  <2>4. calling \in [AllTasks -> Resources \union {NoRes}]
    BY <1>2
  <2> QED
    BY <1>2, <2>1, <2>3, <2>4 DEF SemaTypes
<1>5. ListsMatch
  BY <1>2, NoResIsNone DEF ListsMatch, Listed, IsInjective
<1>6. CallsMatch
  BY <1>2 DEF CallsMatch
<1> QED
  BY <1>1, <1>3, <1>4, <1>5, <1>6 DEF SemaInv

LEMMA SemaSpecInv ==
    ASSUME Careful
    PROVE  SemaSpec => []SemaInv
<1>1. SemaInv /\ [SemaNext]_allVars => SemaInv'
  BY SemaNextInv
<1> QED
  BY SemaInitInv, <1>1, PTL DEF SemaSpec

(* A task is on the blocked list of a semaphore exactly while its control  *)
(* block names that semaphore, and is then on the wait list and inside     *)
(* u1_OSsema_wait: a post never wakes a task that waits for something      *)
(* else, and a time-out finds its task on the list it searches.            *)
THEOREM SemaBlockedMatchesTCB ==
    ASSUME Careful
    PROVE  SemaSpec => []BlockedMatchesTCB
<1>1. SemaInv => BlockedMatchesTCB
  <2> SUFFICES ASSUME SemaInv PROVE BlockedMatchesTCB
    OBVIOUS
  <2>1. NoWalkOff
    BY DEF SemaInv, SemaTypes, NoWalkOff
  <2>2. ASSUME NEW r \in Resources
        PROVE  /\ IsInjective(blocked[r])
               /\ Listed(blocked[r]) = { t \in created : resource[t] = r }
               /\ \A t \in Listed(blocked[r]) :
                     calling[t] = r /\ t \in Listed(wait)
    <3>1. blocked[r] \in Seq(AllTasks) /\ IsInjective(blocked[r])
      BY DEF SemaInv, SemaTypes, ListsMatch
    <3>2. Listed(blocked[r]) \subseteq AllTasks /\ created \subseteq AllTasks
      BY <3>1, ListedFacts, ListsTyped DEF SemaInv, RuleInv
    <3>3. \A t \in AllTasks : t \in Listed(blocked[r]) <=> resource[t] = r
      BY DEF SemaInv, ListsMatch
    <3>4. \A t \in AllTasks : resource[t] = r =>
             t \in created /\ t \in Listed(wait) /\ calling[t] = r
      BY NoResIsNone, HolderWaits DEF SemaInv, CallsMatch
    <3> QED
      BY <3>1, <3>2, <3>3, <3>4
  <2> QED
    BY <2>1, <2>2 DEF BlockedMatchesTCB
<1> QED
  BY SemaSpecInv, <1>1, PTL

-----------------------------------------------------------------------------
(***************************************************************************)
(* Posts.  Each unit of the counter that a post added while a task was     *)
(* blocked belongs to a task it woke, until that task looks at it.         *)
(***************************************************************************)

LEMMA WokenFinite ==
    ASSUME NEW r \in Resources
    PROVE  IsFiniteSet(Woken(r)) /\ Cardinality(Woken(r)) \in Nat
<1>1. Woken(r) \in SUBSET Tasks
  BY DEF Woken
<1>2. IsFiniteSet(Tasks)
  BY FiniteAssumption
<1> QED
  BY <1>1, <1>2, FS_Subset, FS_CardinalityType

(* No post gets lost when no woken task does.                              *)
LEMMA PostsKept ==
    ASSUME SemaInv, SemaInv', NoPostLost,
           \A r \in Resources :
              /\ Woken(r) \subseteq Woken(r)'
              /\ blocked'[r] # << >> =>
                    \/ sema'[r] = 0
                    \/ blocked[r] # << >> /\ sema'[r] <= sema[r]
    PROVE  NoPostLost'
<1> SUFFICES ASSUME NEW r \in Resources
             PROVE  /\ sema'[r] >= 0
                    /\ blocked'[r] # << >> =>
                          sema'[r] <= Cardinality(Woken(r)')
  BY DEF NoPostLost
<1>1. sema[r] \in Nat /\ sema'[r] \in Nat
  BY DEF SemaInv, SemaTypes
<1>2. /\ IsFiniteSet(Woken(r)') /\ Cardinality(Woken(r)') \in Nat
      /\ Cardinality(Woken(r)) \in Nat
  <2>1. Woken(r)' \in SUBSET Tasks
    BY DEF Woken
  <2>2. IsFiniteSet(Tasks)
    BY FiniteAssumption
  <2> QED
    BY <2>1, <2>2, WokenFinite, FS_Subset, FS_CardinalityType
<1>3. Cardinality(Woken(r)) <= Cardinality(Woken(r)')
  BY <1>2, FS_Subset
<1>4. blocked[r] # << >> => sema[r] <= Cardinality(Woken(r))
  BY DEF NoPostLost
<1> QED
  BY <1>1, <1>2, <1>3, <1>4

LEMMA WaitTakesPosts ==
    ASSUME SemaInv, SemaInv', NoPostLost, NEW r \in Resources, WaitTakes(r)
    PROVE  NoPostLost'
<1>1. /\ sema[r] # 0 /\ sema' = [sema EXCEPT ![r] = @ - 1]
      /\ UNCHANGED <<blocked, calling>>
  BY DEF WaitTakes
<1>2. ASSUME NEW q \in Resources
      PROVE  /\ Woken(q) \subseteq Woken(q)'
             /\ blocked'[q] # << >> =>
                   blocked[q] # << >> /\ sema'[q] <= sema[q]
  BY <1>1 DEF Woken, SemaInv, SemaTypes
<1> QED
  BY <1>2, PostsKept

LEMMA WaitBlocksPosts ==
    ASSUME SemaInv, SemaInv', Careful, NoPostLost,
           NEW r \in Resources, NEW p, WaitBlocks(r, p)
    PROVE  NoPostLost'
<1> DEFINE s == InsertByPrio(blocked[r], current, priority)
<1>1. /\ TaskRuns /\ BlockTask(r, current)
      /\ calling[current] = NoRes /\ sema[r] = 0
      /\ calling' = [calling EXCEPT ![current] = r]
      /\ sema' = sema
  BY DEF WaitBlocks, InApplication
<1>2. current \in AllTasks
  BY <1>1, RunnerHoldsNothing DEF SemaInv
<1>3. /\ blocked' = [blocked EXCEPT ![r] = s]
      /\ Listed(s) = Listed(blocked[r]) \union {current}
  BY <1>1, WaiterJoins
<1> HIDE DEF s
<1>4. ASSUME NEW q \in Resources
      PROVE  /\ Woken(q) \subseteq Woken(q)'
             /\ blocked'[q] # << >> =>
                   \/ sema'[q] = 0
                   \/ blocked[q] # << >> /\ sema'[q] <= sema[q]
  <2>1. ASSUME NEW x \in Woken(q)
        PROVE  x \in Woken(q)'
    <3>1. x \in Tasks /\ calling[x] = q /\ x \notin Listed(blocked[q])
      BY DEF Woken
    <3>2. x # current
      BY <1>1, <3>1, NoResIsNone
    <3>3. calling'[x] = q
      BY <1>1, <3>1, <3>2 DEF SemaInv, SemaTypes
    <3>4. x \notin Listed(blocked'[q])
      BY <1>3, <3>1, <3>2 DEF SemaInv, SemaTypes
    <3> QED
      BY <3>1, <3>3, <3>4 DEF Woken
  <2>2. CASE q = r
    BY <1>1, <2>1, <2>2
  <2>3. CASE q # r
    BY <1>1, <1>3, <2>1, <2>3 DEF SemaInv, SemaTypes
  <2> QED
    BY <2>2, <2>3
<1> QED
  BY <1>4, PostsKept

(* The woken task takes the unit that was meant for it, or finds none.     *)
LEMMA WaitLooksAgainPosts ==
    ASSUME SemaInv, SemaInv', NoPostLost, WaitLooksAgain
    PROVE  NoPostLost'
<1>1. TaskRuns /\ calling[current] # NoRes
  BY DEF WaitLooksAgain
<1>2. current \in Tasks /\ current \in AllTasks /\ resource[current] = NoRes
  BY <1>1, RunnerHoldsNothing DEF SemaInv
<1> PICK r \in Resources : r = calling[current]
  BY <1>1, <1>2 DEF SemaInv, SemaTypes
<1>3. /\ sema' = IF sema[r] # 0 THEN [sema EXCEPT ![r] = @ - 1] ELSE sema
      /\ calling' = [calling EXCEPT ![current] = NoRes]
      /\ blocked' = blocked
  BY DEF WaitLooksAgain
<1>4. current \in Woken(r)
  BY <1>2, NoResIsNone DEF Woken, SemaInv, ListsMatch
<1>5. ASSUME NEW q \in Resources
      PROVE  Woken(q)' = Woken(q) \ {current}
  BY <1>2, <1>3, NoResIsNone DEF Woken, SemaInv, SemaTypes, AllTasks
<1>6. ASSUME NEW q \in Resources \ {r}
      PROVE  Woken(q)' = Woken(q) /\ sema'[q] = sema[q]
  <2>1. current \notin Woken(q)
    BY DEF Woken
  <2>2. Woken(q)' = Woken(q)
    BY <1>5, <2>1
  <2>3. sema'[q] = sema[q]
    BY <1>3 DEF SemaInv, SemaTypes
  <2> QED
    BY <2>2, <2>3
<1> SUFFICES ASSUME NEW q \in Resources
             PROVE  /\ sema'[q] >= 0
                    /\ blocked'[q] # << >> =>
                          sema'[q] <= Cardinality(Woken(q)')
  BY DEF NoPostLost
<1>7. CASE q # r
  BY <1>3, <1>6, <1>7 DEF NoPostLost
<1>8. CASE q = r
  <2>1. IsFiniteSet(Woken(r)) /\ Cardinality(Woken(r)) \in Nat
    BY WokenFinite
  <2>2. Cardinality(Woken(r)') = Cardinality(Woken(r)) - 1
    BY <1>4, <1>5, <2>1, FS_RemoveElement
  <2>3. IsFiniteSet(Woken(r) \ {current})
    BY <2>1, FS_RemoveElement
  <2>4. Cardinality(Woken(r)') \in Nat
    BY <1>5, <2>3, FS_CardinalityType
  <2>5. /\ sema[r] \in Nat
        /\ sema'[r] = IF sema[r] # 0 THEN sema[r] - 1 ELSE sema[r]
    BY <1>3 DEF SemaInv, SemaTypes
  <2>6. blocked[r] # << >> => sema[r] <= Cardinality(Woken(r))
    BY DEF NoPostLost
  <2> QED
    BY <1>3, <1>8, <2>1, <2>2, <2>4, <2>5, <2>6
<1> QED
  BY <1>7, <1>8

(* A post adds one unit and wakes one task.                                *)
LEMMA PostPosts ==
    ASSUME SemaInv, SemaInv', NoPostLost, NEW r \in Resources, Post(r)
    PROVE  NoPostLost'
<1>1. /\ sema' = [sema EXCEPT ![r] = @ + 1]
      /\ calling' = calling
  BY DEF Post
<1>2. CASE blocked[r] = << >>
  <2>1. blocked' = blocked
    BY <1>2 DEF Post
  <2>2. ASSUME NEW q \in Resources
        PROVE  /\ Woken(q) \subseteq Woken(q)'
               /\ blocked'[q] # << >> =>
                     blocked[q] # << >> /\ sema'[q] <= sema[q]
    BY <1>1, <1>2, <2>1 DEF Woken, SemaInv, SemaTypes
  <2> QED
    BY <2>2, PostsKept
<1>3. CASE blocked[r] # << >>
  <2> DEFINE t == Head(blocked[r])
             s == Tail(blocked[r])
  <2>1. blocked' = [blocked EXCEPT ![r] = s] /\ t \in Tasks
    BY <1>3, ListsTyped
       DEF Post, WakeFromResource, MayWake, SemaInv, RuleInv, AllTasks
  <2>2. /\ t \in AllTasks /\ resource[t] = r /\ t \in Listed(blocked[r])
        /\ Listed(s) = Listed(blocked[r]) \ {t}
    BY <1>3, FirstLeaves
  <2> HIDE DEF s, t
  <2>3. /\ blocked'[r] = s
        /\ \A q \in Resources \ {r} : blocked'[q] = blocked[q]
    BY <2>1 DEF SemaInv, SemaTypes
  <2>4. calling[t] = r
    BY <2>2, NoResIsNone DEF SemaInv, CallsMatch
  <2>5. Woken(r)' = Woken(r) \union {t} /\ t \notin Woken(r)
    BY <1>1, <2>1, <2>2, <2>3, <2>4 DEF Woken
  <2>6. ASSUME NEW q \in Resources \ {r}
        PROVE  Woken(q)' = Woken(q) /\ sema'[q] = sema[q]
    BY <1>1, <2>3 DEF Woken, SemaInv, SemaTypes
  <2>7. Cardinality(Woken(r)') = Cardinality(Woken(r)) + 1
    BY <2>5, WokenFinite, FS_AddElement
  <2>8. sema'[r] = sema[r] + 1 /\ sema[r] \in Nat
    BY <1>1 DEF SemaInv, SemaTypes
  <2>9. sema[r] <= Cardinality(Woken(r)) /\ Cardinality(Woken(r)) \in Nat
    BY <1>3, WokenFinite DEF NoPostLost
  <2> SUFFICES ASSUME NEW q \in Resources
               PROVE  /\ sema'[q] >= 0
                      /\ blocked'[q] # << >> =>
                            sema'[q] <= Cardinality(Woken(q)')
    BY DEF NoPostLost
  <2>10. CASE q # r
    BY <2>3, <2>6, <2>10 DEF NoPostLost
  <2>11. CASE q = r
    BY <2>7, <2>8, <2>9, <2>11
  <2> QED
    BY <2>10, <2>11
<1> QED
  BY <1>2, <1>3

LEMMA TickTimesOutPosts ==
    ASSUME SemaInv, SemaInv', NoPostLost, TickTimesOut
    PROVE  NoPostLost'
<1>1. UNCHANGED <<sema, calling>>
  BY DEF TickTimesOut
<1>2. ASSUME NEW q \in Resources
      PROVE  Listed(blocked'[q]) \subseteq Listed(blocked[q])
  <2> DEFINE r == resource[cursor]
             s == Unlink(blocked[r], cursor)
  <2>1. \/ blocked' = blocked
        \/ /\ r \in Resources /\ cursor \in Listed(blocked[r])
           /\ blocked' = [blocked EXCEPT ![r] = s]
    BY TimedOutLeaves
  <2>2. CASE blocked' = blocked
    BY <2>2
  <2>3. CASE /\ r \in Resources /\ cursor \in Listed(blocked[r])
             /\ blocked' = [blocked EXCEPT ![r] = s]
    <3>1. Listed(s) \subseteq Listed(blocked[r])
      BY <2>3, UnlinkFacts DEF SemaInv, SemaTypes, ListsMatch
    <3> HIDE DEF s, r
    <3> QED
      BY <2>3, <3>1 DEF SemaInv, SemaTypes
  <2> QED
    BY <2>1, <2>2, <2>3
<1>3. ASSUME NEW q \in Resources
      PROVE  blocked'[q] # << >> => blocked[q] # << >>
  <2> SUFFICES ASSUME blocked'[q] # << >> PROVE Listed(blocked[q]) # {}
    BY DEF Listed
  <2>1. blocked'[q] \in Seq(AllTasks)
    BY DEF SemaInv, SemaTypes
  <2>2. Head(blocked'[q]) \in Listed(blocked'[q])
    BY <2>1, HeadListed
  <2> QED
    BY <2>2, <1>2
<1>4. ASSUME NEW q \in Resources
      PROVE  /\ Woken(q) \subseteq Woken(q)'
             /\ blocked'[q] # << >> =>
                   blocked[q] # << >> /\ sema'[q] <= sema[q]
  <2>1. sema'[q] <= sema[q]
    BY <1>1 DEF SemaInv, SemaTypes
  <2> QED
    BY <1>1, <1>2, <1>3, <2>1 DEF Woken
<1> QED
  BY <1>4, PostsKept

LEMMA PostsNext ==
    ASSUME SemaInv, SemaInv', Careful, NoPostLost, [SemaNext]_allVars
    PROVE  NoPostLost'
<1>1. ASSUME NEW r \in Resources, WaitTakes(r) \/ Post(r)
      PROVE  NoPostLost'
  BY <1>1, WaitTakesPosts, PostPosts
<1>2. ASSUME NEW r \in Resources, NEW p \in Periods \ {0}, WaitBlocks(r, p)
      PROVE  NoPostLost'
  BY <1>2, WaitBlocksPosts
<1>3. CASE WaitLooksAgain \/ TickTimesOut
  BY <1>3, WaitLooksAgainPosts, TickTimesOutPosts
<1>4. CASE \/ \E t \in Tasks : WakeTimesOut(t)
           \/ TaskStep /\ UNCHANGED semaVars
           \/ OtherStep /\ UNCHANGED semaVars
           \/ UNCHANGED allVars
  <2>1. UNCHANGED semaVars
    BY <1>4, CarefulGives DEF WakeTimesOut, TaskWake, semaVars, allVars
  <2> QED
    BY <2>1 DEF NoPostLost, Woken, semaVars
<1> QED
  BY <1>1, <1>2, <1>3, <1>4 DEF SemaNext

(* No post is taken twice and none is lost: while tasks are blocked, every *)
(* unit of the counter has a woken task that is still to look at it, in    *)
(* whatever order posts, time-outs and the woken tasks come                *)
(* (semaphore.c:132).                                                      *)
THEOREM SemaNoPostLost ==
    ASSUME Careful
    PROVE  SemaSpec => []NoPostLost
<1>1. SemaInit => NoPostLost
  <2> SUFFICES ASSUME SemaInit PROVE NoPostLost
    OBVIOUS
  <2>1. blocked = [r \in Resources |-> << >>]
    BY DEF SemaInit
  <2>2. \A r \in Resources : sema[r] \in Nat
    BY SemaInitInv DEF SemaInv, SemaTypes
  <2> QED
    BY <2>1, <2>2 DEF NoPostLost
<1>2. SemaInv /\ SemaInv' /\ NoPostLost /\ [SemaNext]_allVars => NoPostLost'
  BY PostsNext
<1> QED
  BY SemaSpecInv, <1>1, <1>2, PTL DEF SemaSpec

-----------------------------------------------------------------------------
(***************************************************************************)
(* Who is woken.  The blocked lists are kept in order by insertion alone,  *)
(* so this holds where no mutex lends a priority to a waiter.              *)
(***************************************************************************)

WaitersInOrder == \A r \in Resources : SortedByPrio(blocked[r], priority)

(* A step that leaves the blocked lists alone.                             *)
LEMMA OrderSame ==
    ASSUME SemaInv, WaitersInOrder, blocked' = blocked,
           \A t \in created : priority'[t] = priority[t]
    PROVE  WaitersInOrder'
<1>1. ASSUME NEW r \in Resources
      PROVE  SortedByPrio(blocked[r], priority')
  <2>1. blocked[r] \in Seq(AllTasks)
    BY DEF SemaInv, SemaTypes
  <2>2. ASSUME NEW t \in Listed(blocked[r])
        PROVE  priority'[t] = priority[t]
    <3>1. t \in AllTasks
      BY <2>1, ListedFacts
    <3>2. resource[t] # NoRes
      BY <3>1, NoResIsNone DEF SemaInv, ListsMatch
    <3> QED
      BY <3>1, <3>2, HolderWaits DEF SemaInv
  <2> QED
    BY <2>1, <2>2, SortedSame DEF WaitersInOrder
<1> QED
  BY <1>1 DEF WaitersInOrder

(* One list changes to one in order.                                       *)
LEMMA OrderChanged ==
    ASSUME SemaInv, WaitersInOrder, NEW r \in Resources, NEW s,
           blocked' = [blocked EXCEPT ![r] = s], priority' = priority,
           SortedByPrio(s, priority)
    PROVE  WaitersInOrder'
BY DEF WaitersInOrder, SemaInv, SemaTypes

LEMMA OrderNext ==
    ASSUME SemaInv, Careful, Priorities = {}, WaitersInOrder,
           [SemaNext]_allVars
    PROVE  WaitersInOrder'
<1>1. ASSUME NEW r \in Resources, Post(r), blocked[r] # << >>
      PROVE  WaitersInOrder'
  <2>1. /\ blocked' = [blocked EXCEPT ![r] = Tail(blocked[r])]
        /\ priority' = priority
    BY <1>1 DEF Post, WakeFromResource
  <2>2. SortedByPrio(Tail(blocked[r]), priority)
    <3>1. blocked[r] \in Seq(AllTasks) /\ SortedByPrio(blocked[r], priority)
      BY DEF SemaInv, SemaTypes, WaitersInOrder
    <3> QED
      BY <1>1, <3>1, SortedTail
  <2> QED
    BY <2>1, <2>2, OrderChanged
<1>2. ASSUME NEW r \in Resources, NEW p \in Periods \ {0}, WaitBlocks(r, p)
      PROVE  WaitersInOrder'
  <2> DEFINE s == InsertByPrio(blocked[r], current, priority)
  <2>1. /\ blocked' = [blocked EXCEPT ![r] = s]
        /\ SortedByPrio(blocked[r], priority) => SortedByPrio(s, priority)
    <3>1. TaskRuns /\ BlockTask(r, current)
      BY <1>2 DEF WaitBlocks, InApplication
    <3> QED
      BY <3>1, WaiterJoins
  <2>2. priority' = priority
    BY <1>2 DEF WaitBlocks, SetReasonForSleep
  <2> HIDE DEF s
  <2> QED
    BY <2>1, <2>2, OrderChanged DEF WaitersInOrder
<1>3. CASE TickTimesOut
  <2>1. priority' = priority
    BY <1>3 DEF TickTimesOut, TickWakes
  <2>2. \/ blocked' = blocked
        \/ \E r \in Resources :
              /\ cursor \in Listed(blocked[r])
              /\ blocked' = [blocked EXCEPT ![r] = Unlink(blocked[r], cursor)]
    BY <1>3, TimedOutLeaves
  <2>3. ASSUME NEW r \in Resources, cursor \in Listed(blocked[r]),
               blocked' = [blocked EXCEPT ![r] = Unlink(blocked[r], cursor)]
        PROVE  WaitersInOrder'
    <3>1. /\ blocked[r] \in Seq(AllTasks) /\ IsInjective(blocked[r])
          /\ SortedByPrio(blocked[r], priority)
      BY DEF SemaInv, SemaTypes, ListsMatch, WaitersInOrder
    <3>2. SortedByPrio(Unlink(blocked[r], cursor), priority)
      BY <2>3, <3>1, SortedUnlink
    <3> QED
      BY <2>1, <2>3, <3>2, OrderChanged
  <2> QED
    BY <2>1, <2>2, <2>3, OrderSame
<1>4. CASE \/ \E r \in Resources : \/ WaitTakes(r)
                                   \/ Post(r) /\ blocked[r] = << >>
           \/ WaitLooksAgain
           \/ \E t \in Tasks : WakeTimesOut(t)
           \/ TaskStep /\ UNCHANGED semaVars
           \/ OtherStep /\ UNCHANGED semaVars
           \/ UNCHANGED allVars
  <2>1. blocked' = blocked
    BY <1>4, CarefulGives DEF WaitTakes, Post, WaitLooksAgain, WakeTimesOut,
                              TaskWake, semaVars, allVars
  <2>2. \/ priority' = priority
        \/ \E t \in Tasks : CreateTask(t)
    BY <1>4 DEF WaitTakes, Post, WaitLooksAgain, WakeTimesOut, TaskWake, vars,
                TaskStep, TaskSleep, TaskSleepSetFreq, GetReasonForWakeup,
                TaskSuspend, OtherStep, Start, Dispatch, WrongListUnlinked,
                TickStart, TickMeetsSuspended, TickCountsDown, TickMislinks,
                TickEnd, allVars
  <2>3. \A t \in created : priority'[t] = priority[t]
    BY <2>2, ListsTyped
       DEF CreateTask, SemaInv, RuleInv, Inv, TypeOK, TypeOfTCBs
  <2> QED
    BY <2>1, <2>3, OrderSame
<1> QED
  BY <1>1, <1>2, <1>3, <1>4 DEF SemaNext

LEMMA MostUrgentWoken ==
    ASSUME SemaInv, WaitersInOrder, [SemaNext]_allVars,
           NEW r \in Resources,
           NEW t \in Listed(blocked[r]) \ Listed(blocked'[r]),
           sema'[r] > sema[r],
           NEW u \in Listed(blocked'[r])
    PROVE  priority[t] <= priority[u]
<1>1. sema[r] \in Nat
  BY DEF SemaInv, SemaTypes
<1>2. Post(r)
  <2>1. CASE UNCHANGED sema
    BY <1>1, <2>1
  <2>2. ASSUME NEW q \in Resources, WaitTakes(q)
        PROVE  FALSE
    BY <1>1, <2>2 DEF WaitTakes, SemaInv, SemaTypes
  <2>3. CASE WaitLooksAgain
    <3>1. \/ sema' = sema
          \/ \E q : sema' = [sema EXCEPT ![q] = @ - 1]
      BY <2>3 DEF WaitLooksAgain
    <3>2. ASSUME NEW q, sema' = [sema EXCEPT ![q] = @ - 1]
          PROVE  sema'[r] = sema[r] \/ sema'[r] = sema[r] - 1
      BY <3>2 DEF SemaInv, SemaTypes
    <3> QED
      BY <1>1, <3>1, <3>2
  <2>4. ASSUME NEW q \in Resources, Post(q)
        PROVE  q = r
    BY <1>1, <2>4 DEF Post, SemaInv, SemaTypes
  <2>5. \/ UNCHANGED sema
        \/ \E q \in Resources : WaitTakes(q) \/ Post(q)
        \/ WaitLooksAgain
    BY DEF SemaNext, WaitBlocks, TickTimesOut, WakeTimesOut, semaVars, allVars
  <2> QED
    BY <2>1, <2>2, <2>3, <2>4, <2>5
<1>3. blocked[r] # << >>
  BY DEF Listed
<1>4. blocked'[r] = Tail(blocked[r])
  BY <1>2, <1>3 DEF Post, SemaInv, SemaTypes
<1>5. t = Head(blocked[r]) /\ u \in Listed(blocked[r])
  BY <1>3, <1>4, FirstLeaves
<1>6. /\ blocked[r] \in Seq(AllTasks) /\ SortedByPrio(blocked[r], priority)
      /\ priority \in [AllTasks -> Nat]
  BY DEF SemaInv, SemaTypes, WaitersInOrder, RuleInv, Inv, TypeOK, TypeOfTCBs
<1> QED
  BY <1>5, <1>6, HeadIsMostUrgent

(* A post wakes no task while a more urgent one stays blocked              *)
(* (README.md:50), where priorities are not lent.                          *)
THEOREM SemaPostWakesMostUrgent ==
    ASSUME Careful, Priorities = {}
    PROVE  SemaSpec => PostWakesMostUrgent
<1>1. SemaInit => WaitersInOrder
  BY DEF SemaInit, WaitersInOrder, SortedByPrio
<1>2. SemaInv /\ WaitersInOrder /\ [SemaNext]_allVars => WaitersInOrder'
  BY OrderNext
<1>3. SemaInv /\ WaitersInOrder /\ [SemaNext]_allVars =>
         [\A r \in Resources : \A t \in Listed(blocked[r]) \ Listed(blocked'[r]) :
             sema'[r] > sema[r] =>
                 \A u \in Listed(blocked'[r]) : priority[t] <= priority[u]]_allVars
  BY MostUrgentWoken
<1> QED
  BY SemaSpecInv, <1>1, <1>2, <1>3, PTL DEF SemaSpec, PostWakesMostUrgent

=============================================================================
