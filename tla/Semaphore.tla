----------------------------- MODULE Semaphore ------------------------------
(***************************************************************************)
(* Counting semaphores (Semaphore/Source/semaphore.c) on top of the        *)
(* scheduler.  Every step is a step of Scheduler, conjoined with what      *)
(* semaphore.c does in the same critical section, or a step that leaves    *)
(* the scheduler's variables alone.  A wait that blocks is two critical    *)
(* sections: the second, after the wake-up, looks at the counter again.    *)
(*                                                                         *)
(* Careless is the set of usage rules, unchecked by the code, that the     *)
(* application may break:                                                  *)
(*   "no_sentinel"  block only where vd_list_addTaskByPrio finds a less    *)
(*                  urgent waiter (or none at all) to stop at;             *)
(*   "no_slot"      block only while one of the SEMA_MAX_NUM_BLOCKED nodes *)
(*                  is free.                                               *)
(***************************************************************************)
EXTENDS Scheduler

CONSTANTS
    InitValues,  \* initValue of u1_OSsema_init
    MaxSema,     \* bound: posts stop here, before the S1 counter overflows
    MaxBlocked,  \* SEMA_MAX_NUM_BLOCKED
    Careless

ASSUME SemaAssumption ==
    /\ \A r \in Resources : KindOf[r] = "sema"
    /\ MaxSema \in 0 .. 127
    /\ InitValues \subseteq 0 .. MaxSema
    /\ MaxBlocked \in Nat
    /\ Careless \subseteq {"no_sentinel", "no_slot"}

VARIABLES
    sema,     \* the counter of each semaphore
    blocked,  \* blockedListHead: tasks, most urgent first
    calling,  \* the semaphore a task blocked on and has not looked at again
    strayed   \* a walk over a blocked list ran off its tail; what the model
              \* does after that means nothing

semaVars == <<sema, blocked, calling, strayed>>
allVars == <<vars, semaVars>>

(* u1_OSsema_init of each semaphore, before vd_OSsch_start.                *)
SemaInit ==
    /\ Init
    /\ sema \in [Resources -> InitValues]
    /\ blocked = [r \in Resources |-> << >>]
    /\ calling = [t \in AllTasks |-> NoRes]
    /\ strayed = FALSE

-----------------------------------------------------------------------------
(* The running task is in application code, not inside u1_OSsema_wait.     *)
InApplication == TaskRuns /\ calling[current] = NoRes

(* u1_OSsema_wait on an available semaphore.                               *)
WaitTakes(r) ==
    /\ InApplication
    /\ sema[r] # 0
    /\ sema' = [sema EXCEPT ![r] = @ - 1]
    /\ UNCHANGED <<vars, blocked, calling, strayed>>

(* Mutant of BlockTask: the waiter is put at the end.                      *)
BlockTaskLast(r, t) ==
    /\ Len(blocked[r]) < MaxBlocked
    /\ CanInsert(blocked[r], t, priority)
    /\ blocked' = [blocked EXCEPT ![r] = Append(@, t)]
    /\ strayed' = strayed

(* vd_OSsema_blockTask.  With no free node the task is not registered; if  *)
(* no waiter is less urgent the insertion walks off the list.              *)
BlockTask(r, t) ==
    LET node  == Len(blocked[r]) < MaxBlocked
        place == CanInsert(blocked[r], t, priority)
    IN  /\ node \/ "no_slot" \in Careless
        /\ node => place \/ "no_sentinel" \in Careless
        /\ blocked' = IF node /\ place
                        THEN [blocked EXCEPT ![r] = InsertByPrio(@, t, priority)]
                        ELSE blocked
        /\ strayed' = (strayed \/ (node /\ ~place))

(* u1_OSsema_wait up to the end of its first critical section.             *)
WaitBlocks(r, period) ==
    /\ InApplication
    /\ sema[r] = 0
    /\ BlockTask(r, current)
    /\ SetReasonForSleep(r, period)
    /\ calling' = [calling EXCEPT ![current] = r]
    /\ sema' = sema

(* The second critical section.                                            *)
WaitLooksAgain ==
    /\ TaskRuns
    /\ calling[current] # NoRes
    /\ LET r == calling[current]
       IN  sema' = IF sema[r] # 0 THEN [sema EXCEPT ![r] = @ - 1] ELSE sema
    /\ calling' = [calling EXCEPT ![current] = NoRes]
    /\ UNCHANGED <<vars, blocked, strayed>>

(* Mutant of Post: a waiter is woken only when the counter was zero.       *)
PostWakesOnZero(r) ==
    /\ InterruptRuns
    /\ sema[r] < MaxSema
    /\ sema' = [sema EXCEPT ![r] = @ + 1]
    /\ IF blocked[r] = << >> \/ sema[r] # 0
         THEN UNCHANGED <<vars, blocked>>
         ELSE /\ blocked' = [blocked EXCEPT ![r] = Tail(@)]
              /\ WakeFromResource(Head(blocked[r]))
    /\ UNCHANGED <<calling, strayed>>

(* vd_OSsema_post, by a task or an interrupt.                              *)
Post(r) ==
    /\ InterruptRuns
    /\ sema[r] < MaxSema
    /\ sema' = [sema EXCEPT ![r] = @ + 1]
    /\ IF blocked[r] = << >>
         THEN UNCHANGED <<vars, blocked>>
         ELSE /\ blocked' = [blocked EXCEPT ![r] = Tail(@)]
              /\ WakeFromResource(Head(blocked[r]))
    /\ UNCHANGED <<calling, strayed>>

(* Mutant of BlockedTimeout: the task stays on the blocked list.           *)
BlockedTimeoutKeeps(t) == UNCHANGED <<blocked, strayed>>

(* vd_OSsema_blockedTimeout, reached through the scheduler's handler.  A   *)
(* task that is not on the list is searched for beyond its tail.           *)
BlockedTimeout(t) ==
    IF HeldBits(t) = {}
      THEN UNCHANGED <<blocked, strayed>>
      ELSE LET r == resource[t]
               found == r # NoRes /\ t \in Listed(blocked[r])
           IN  /\ blocked' = IF found THEN [blocked EXCEPT ![r] = Unlink(@, t)]
                                      ELSE blocked
               /\ strayed' = (strayed \/ ~found)

TickTimesOut ==
    /\ TickWakes
    /\ BlockedTimeout(cursor)
    /\ UNCHANGED <<sema, calling>>

WakeTimesOut(t) ==
    /\ TaskWake(t)
    /\ IF resource[t] = NoRes THEN UNCHANGED <<blocked, strayed>>
                             ELSE BlockedTimeout(t)
    /\ UNCHANGED <<sema, calling>>

-----------------------------------------------------------------------------
(* What the scheduler does on its own.                                     *)
TaskStep ==
    \/ \E p \in Periods : TaskSleep(p)
    \/ \E n \in WakeTimes : TaskSleepSetFreq(n)
    \/ GetReasonForWakeup
    \/ \E t \in Tasks : TaskSuspend(t)

OtherStep ==
    \/ \E t \in Tasks : CreateTask(t)
    \/ Start
    \/ Dispatch
    \/ \E t \in Tasks, p \in Priorities : SetNewPriority(t, p)
    \/ \E t \in Tasks : WrongListUnlinked(t)
    \/ TickStart
    \/ TickMeetsSuspended
    \/ TickCountsDown
    \/ TickMislinks
    \/ TickEnd

SemaNext ==
    \/ \E r \in Resources :
         \/ WaitTakes(r)
         \/ Post(r)
         \/ \E p \in Periods \ {0} : WaitBlocks(r, p)
    \/ WaitLooksAgain
    \/ TickTimesOut
    \/ \E t \in Tasks : WakeTimesOut(t)
    \/ TaskStep /\ calling[current] = NoRes /\ UNCHANGED semaVars
    \/ OtherStep /\ UNCHANGED semaVars

SemaSpec == SemaInit /\ [][SemaNext]_allVars

(* The processor runs tasks too: whoever is dispatched executes.           *)
FairSemaSpec ==
    /\ SemaSpec
    /\ WF_allVars(Start /\ UNCHANGED semaVars)
    /\ WF_allVars(Dispatch /\ UNCHANGED semaVars)
    /\ WF_allVars(TickStart /\ UNCHANGED semaVars)
    /\ WF_allVars((TickMeetsSuspended \/ TickCountsDown) /\ UNCHANGED semaVars)
    /\ WF_allVars(TickTimesOut)
    /\ WF_allVars(TickEnd /\ UNCHANGED semaVars)

-----------------------------------------------------------------------------
(* No list a semaphore keeps is walked past its end (semaphore.c:249, 220).*)
NoWalkOff == ~strayed

(* A task is on the blocked list of a semaphore exactly while its control  *)
(* block names that semaphore, so a time-out finds it there and a post     *)
(* never wakes a task that waits for something else; it is then on the     *)
(* wait list and inside u1_OSsema_wait.  So no walk leaves its list.       *)
BlockedMatchesTCB ==
    /\ NoWalkOff
    /\ \A r \in Resources :
         /\ IsInjective(blocked[r])
         /\ Listed(blocked[r]) = { t \in created : resource[t] = r }
         /\ \A t \in Listed(blocked[r]) : calling[t] = r /\ t \in Listed(wait)

(* The tasks a post or a time-out has woken and that have not yet looked   *)
(* at the counter again.                                                   *)
Woken(r) == { t \in Tasks : calling[t] = r /\ t \notin Listed(blocked[r]) }

(* No post is taken twice and none is lost: while tasks are blocked, every *)
(* unit of the counter has a woken task that is still to look at it        *)
(* (semaphore.c:132).                                                      *)
NoPostLost ==
    \A r \in Resources :
        /\ sema[r] >= 0
        /\ blocked[r] # << >> => sema[r] <= Cardinality(Woken(r))

(* A post wakes no task while a more urgent one stays blocked: the waking  *)
(* policy is "priority-based" (README.md:50).                              *)
PostWakesMostUrgent ==
    [][\A r \in Resources : \A t \in Listed(blocked[r]) \ Listed(blocked'[r]) :
          sema'[r] > sema[r] =>
              \A u \in Listed(blocked'[r]) : priority[t] <= priority[u]]_allVars

(* A blocked task does not stay blocked: it is woken by a post or times    *)
(* out, unless it is suspended meanwhile.                                  *)
BlockEnds ==
    \A t \in Tasks :
        resource[t] # NoRes ~> resource[t] = NoRes \/ SUSPENDED \in flags[t]

=============================================================================
