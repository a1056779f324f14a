------------------------------- MODULE Mutex --------------------------------
(***************************************************************************)
(* Mutexes with priority inheritance (Mutex/Source/mutex.c) on top of the  *)
(* scheduler.  One critical section of mutex.c makes several scheduler     *)
(* calls: a lock that blocks puts the caller to sleep and then lends its   *)
(* priority to the holder, an unlock takes the priority back and then      *)
(* wakes a waiter, a time-out takes it back inside the tick.  Those steps  *)
(* combine here what Scheduler has as steps of their own.                  *)
(*                                                                         *)
(* A task blocks only while a node is free and only where the insertion    *)
(* finds a less urgent waiter, or none, to stop at; Semaphore shows what   *)
(* happens otherwise.  Careless is the set of the other usage rules the    *)
(* application may break:                                                  *)
(*   "relock"         lock a mutex the task holds already;                 *)
(*   "second_unlock"  unlock a mutex twice;                                *)
(*   "nested"         lock a mutex while the task holds another one.       *)
(***************************************************************************)
EXTENDS Scheduler

CONSTANTS
    InitValues,  \* initValue % 2 of u1_OSmutex_init
    MaxBlocked,  \* MUTEX_MAX_NUM_BLOCKED
    Careless

DefaultPrio == 255  \* MUTEX_DEFAULT_PRIO: nothing is lent

ASSUME MutexAssumption ==
    /\ \A r \in Resources : KindOf[r] = "mutex"
    /\ \A t \in AllTasks : BasePrio[t] < DefaultPrio
    /\ InitValues \subseteq {0, 1}
    /\ MaxBlocked \in Nat
    /\ Careless \subseteq {"relock", "second_unlock", "nested"}
    /\ "wake_blocked" \notin Relaxed

VARIABLES
    lock,       \* 1 is available
    holder,     \* priority.mutexHolder
    inherited,  \* priority.taskInheritedPrio
    real,       \* priority.taskRealPrio
    blocked,    \* blockedListHead: tasks, most urgent first
    calling,    \* the mutex a task blocked on and has not looked at again
    holds       \* history: who was told MUTEX_SUCCESS and has not unlocked

lending == <<inherited, real>>
mutexVars == <<lock, holder, lending, blocked, calling, holds>>
allVars == <<vars, mutexVars>>

(* u1_OSmutex_init of each mutex, before vd_OSsch_start.                   *)
MutexInit ==
    /\ Init
    /\ lock \in [Resources -> InitValues]
    /\ holder = [r \in Resources |-> NoTask]
    /\ inherited = [r \in Resources |-> DefaultPrio]
    /\ real = [r \in Resources |-> DefaultPrio]
    /\ blocked = [r \in Resources |-> << >>]
    /\ calling = [t \in AllTasks |-> NoRes]
    /\ holds = [r \in Resources |-> {}]

-----------------------------------------------------------------------------
InApplication == TaskRuns /\ calling[current] = NoRes

HoldsAnother(r) == \E s \in Resources \ {r} : current \in holds[s]

(* What u1_OSsch_setNewPriority does to the ready list rd, once prio holds *)
(* the new priority of t: a task that sleeps is not moved.                 *)
Relinked(rd, t, prio) ==
    IF flags[t] \intersect CheckBits # {} THEN rd
    ELSE InsertByPrio(Unlink(rd, t), t, prio)

(* u1_OSmutex_lock on an available mutex.                                  *)
LockTakes(r) ==
    /\ InApplication
    /\ HoldsAnother(r) => "nested" \in Careless
    /\ lock[r] # 0
    /\ lock' = [lock EXCEPT ![r] = @ - 1]
    /\ holder' = [holder EXCEPT ![r] = current]
    /\ holds' = [holds EXCEPT ![r] = @ \union {current}]
    /\ UNCHANGED <<vars, lending, blocked, calling>>

(* Mutant of Lends: a second, more urgent waiter lends nothing.            *)
LendsOnce(r, waiters) ==
    /\ holder[r] # NoTask
    /\ inherited[r] = DefaultPrio
    /\ priority[Head(waiters)] < priority[holder[r]]

(* The head of the blocked list is more urgent than the holder.  Where     *)
(* there is no holder mutex.c:333 reads its priority before it tests for   *)
(* that, which changes nothing on this port: address 0 can be read.        *)
Lends(r, waiters) ==
    /\ holder[r] # NoTask
    /\ priority[Head(waiters)] # inherited[r]
    /\ priority[Head(waiters)] < priority[holder[r]]

(* vd_OSmutex_blockTask of a caller that was put to sleep.  The caller's   *)
(* own flags are already set, so a holder that locks again is not moved.   *)
BlockTask(r, t) ==
    LET waiters == InsertByPrio(blocked[r], t, priority)
        lent    == priority[Head(waiters)]
        h       == holder[r]
    IN  /\ Len(blocked[r]) < MaxBlocked
        /\ CanInsert(blocked[r], t, priority)
        /\ h # t \/ "relock" \in Careless
        /\ blocked' = [blocked EXCEPT ![r] = waiters]
        /\ IF Lends(r, waiters)
             THEN /\ priority' = [priority EXCEPT ![h] = lent]
                  /\ inherited' = [inherited EXCEPT ![r] = lent]
                  /\ real' = [real EXCEPT ![r] =
                                IF @ = DefaultPrio THEN priority[h] ELSE @]
                  /\ ready' = IF h = t THEN Tail(ready)
                                       ELSE Relinked(Tail(ready), h, priority')
             ELSE /\ ready' = Tail(ready)
                  /\ UNCHANGED <<priority, lending>>

(* u1_OSmutex_lock on a mutex that is taken, up to the end of its first    *)
(* critical section: vd_OSsch_setReasonForSleep and vd_OSmutex_blockTask.  *)
LockBlocks(r, period) ==
    /\ InApplication
    /\ HoldsAnother(r) => "nested" \in Careless
    /\ lock[r] = 0
    /\ OutlastsSwitch(period)
    /\ BlockTask(r, current)
    /\ resource' = [resource EXCEPT ![current] = r]
    /\ flags' = [flags EXCEPT ![current] = @ \union BitsOf["mutex"] \union {SLEEP}]
    /\ sleepCntr' = [sleepCntr EXCEPT ![current] = period]
    /\ wait' = <<Head(ready)>> \o wait
    /\ SwitchTo(Head(ready'))
    /\ calling' = [calling EXCEPT ![current] = r]
    /\ UNCHANGED <<created, wakeReason, current, late, started, tickVars, fault,
                   lock, holder, holds>>

(* Mutant of LockLooksAgain: the lock is taken unseen.                     *)
LockTakesUnseen ==
    /\ TaskRuns
    /\ calling[current] # NoRes
    /\ LET r == calling[current]
       IN  /\ lock' = [lock EXCEPT ![r] = 0]
           /\ holder' = [holder EXCEPT ![r] = current]
           /\ holds' = [holds EXCEPT ![r] = @ \union {current}]
    /\ calling' = [calling EXCEPT ![current] = NoRes]
    /\ UNCHANGED <<vars, lending, blocked>>

(* The second critical section.                                            *)
LockLooksAgain ==
    /\ TaskRuns
    /\ calling[current] # NoRes
    /\ LET r == calling[current]
       IN  IF lock[r] = 1
             THEN /\ lock' = [lock EXCEPT ![r] = 0]
                  /\ holder' = [holder EXCEPT ![r] = current]
                  /\ holds' = [holds EXCEPT ![r] = @ \union {current}]
             ELSE UNCHANGED <<lock, holder, holds>>
    /\ calling' = [calling EXCEPT ![current] = NoRes]
    /\ UNCHANGED <<vars, lending, blocked>>

-----------------------------------------------------------------------------
(* Mutant of TakesBack: the priority lent is kept.                         *)
KeepsPriority(r) == UNCHANGED <<priority, lending>>

(* The holder of r, which calls unlock, is given its own priority again.   *)
TakesBack(r) ==
    /\ priority' = IF inherited[r] = DefaultPrio
                     THEN priority
                     ELSE [priority EXCEPT ![current] = real[r]]
    /\ inherited' = [inherited EXCEPT ![r] = DefaultPrio]
    /\ real' = [real EXCEPT ![r] = DefaultPrio]

(* vd_OSmutex_unblockTask: after the caller's priority, waiter w's state.  *)
(* Of the two checks for a switch the second decides: what the first found *)
(* ahead of the caller is still ahead of it.                               *)
UnblockTask(r, w) ==
    /\ blocked' = [blocked EXCEPT ![r] = Tail(@)]
    /\ TakesBack(r)
    /\ holder' = [holder EXCEPT ![r] = NoTask]
    /\ flags' = [flags EXCEPT ![w] = (@ \ BitsOf["mutex"]) \ CheckBits]
    /\ wakeReason' = [wakeReason EXCEPT ![w] = "mutex"]
    /\ resource' = [resource EXCEPT ![w] = NoRes]
    /\ sleepCntr' = [sleepCntr EXCEPT ![w] = 0]
    /\ wait' = Unlink(wait, w)
    /\ LET own == IF inherited[r] = DefaultPrio
                    THEN ready
                    ELSE Relinked(ready, current, priority')
       IN  ready' = InsertByPrio(own, w, priority')
    /\ PreemptIfHeadChanged
    /\ UNCHANGED <<created, tickVars, fault>>

(* Mutant of Unlock: a waiter is woken only if it lent its priority.       *)
UnlockWakesLender(r) ==
    /\ InApplication
    /\ holder[r] = current
    /\ current \in holds[r]
    /\ lock' = [lock EXCEPT ![r] = @ + 1]
    /\ holds' = [holds EXCEPT ![r] = @ \ {current}]
    /\ IF inherited[r] = DefaultPrio
         THEN UNCHANGED <<vars, holder, lending, blocked>>
         ELSE UnblockTask(r, Head(blocked[r]))
    /\ calling' = calling

(* u1_OSmutex_unlock.  Without a waiter the holder is not cleared.         *)
Unlock(r) ==
    /\ InApplication
    /\ holder[r] = current
    /\ current \in holds[r] \/ "second_unlock" \in Careless
    /\ lock' = [lock EXCEPT ![r] = @ + 1]
    /\ holds' = [holds EXCEPT ![r] = @ \ {current}]
    /\ IF blocked[r] = << >>
         THEN UNCHANGED <<vars, holder, lending, blocked>>
         ELSE UnblockTask(r, Head(blocked[r]))
    /\ calling' = calling

-----------------------------------------------------------------------------
(* vd_OSmutex_blockedTimeout, called by the tick for a task blocked on r.  *)
(* The holder's new priority when the waiter t that lent it leaves.        *)
AfterTimeout(r, waiters) ==
    IF waiters # << >> /\ priority[Head(waiters)] < inherited[r]
      THEN priority[Head(waiters)]
      ELSE DefaultPrio

(* Mutant of BlockedTimeout: the task stays on the blocked list.           *)
BlockedTimeoutKeeps(r, t) ==
    /\ ready' = InsertByPrio(ready, t, priority)
    /\ UNCHANGED <<priority, lending, blocked, switchVars>>

BlockedTimeout(r, t) ==
    LET waiters == Unlink(blocked[r], t)
        lent    == AfterTimeout(r, waiters)
        h       == holder[r]
        own     == Relinked(ready, h, priority')
    IN  /\ blocked' = [blocked EXCEPT ![r] = waiters]
        /\ IF priority[t] # inherited[r]
             THEN /\ UNCHANGED <<priority, lending, switchVars>>
                  /\ ready' = InsertByPrio(ready, t, priority)
             ELSE /\ inherited' = [inherited EXCEPT ![r] = lent]
                  /\ real' = IF lent = DefaultPrio
                               THEN [real EXCEPT ![r] = DefaultPrio]
                               ELSE real
                  /\ priority' = [priority EXCEPT ![h] =
                                    IF lent = DefaultPrio THEN real[r] ELSE lent]
                  /\ ready' = InsertByPrio(own, t, priority')
                  /\ IF flags[h] \intersect CheckBits = {} /\ Head(own) # current
                       THEN SwitchTo(Head(own))
                       ELSE UNCHANGED <<next, pend>>
                  /\ UNCHANGED <<current, late, started>>

(* The tick's step for a waiter whose time is up: the resource's handler,  *)
(* then the scheduler's own part (TickWakes).                              *)
TickTimesOut ==
    /\ Visiting
    /\ SUSPENDED \notin flags[cursor]
    /\ cursor \in Listed(wait)
    /\ sleepCntr[cursor] = 1
    /\ resource[cursor] # NoRes
    /\ BlockedTimeout(resource[cursor], cursor)
    /\ resource' = [resource EXCEPT ![cursor] = NoRes]
    /\ wakeReason' = [wakeReason EXCEPT ![cursor] = "timeout"]
    /\ flags' = [flags EXCEPT ![cursor] = @ \ ({SLEEP} \union ResourceBits)]
    /\ sleepCntr' = [sleepCntr EXCEPT ![cursor] = 0]
    /\ wait' = Unlink(wait, cursor)
    /\ cursor' = CursorNext
    /\ UNCHANGED <<created, tickCntr, inTick, fault, lock, holder, calling, holds>>

-----------------------------------------------------------------------------
MutexNext ==
    \/ \E r \in Resources :
         \/ LockTakes(r)
         \/ \E p \in Periods \ {0} : LockBlocks(r, p)
         \/ Unlock(r)
    \/ LockLooksAgain
    \/ TickTimesOut
    \/ ApplicationStep /\ calling[current] = NoRes /\ UNCHANGED mutexVars
    \/ KernelStep /\ UNCHANGED mutexVars

MutexSpec == MutexInit /\ [][MutexNext]_allVars

-----------------------------------------------------------------------------
(* At most one task has been given the mutex, it is the one the mutex      *)
(* names, and while nobody has it the lock says so: "Only task that holds  *)
(* mutex can release it" (mutex.c:212).                                    *)
OneHolder ==
    \A r \in Resources :
        /\ lock[r] = 0 /\ holder[r] # NoTask => holds[r] = {holder[r]}
        /\ lock[r] # 0 => holds[r] = {} /\ lock[r] = 1

(* A task runs at a priority that is not its own only while it holds a     *)
(* mutex, and then at that of the most urgent waiter; the mutex remembers  *)
(* both priorities (mutex.c:335).                                          *)
LoansAreTracked ==
    \A t \in created \ {BG} : priority[t] # BasePrio[t] =>
        \E r \in Resources :
            /\ holds[r] = {t} /\ holder[r] = t
            /\ real[r] = BasePrio[t] /\ inherited[r] = priority[t]
            /\ blocked[r] # << >> /\ priority[Head(blocked[r])] = priority[t]

(* A task that blocks leaves the holder at least as urgent as the most     *)
(* urgent waiter: "handle priority inheritance" (mutex.c:306).             *)
BlockingLends ==
    [][\A r \in Resources :
          Len(blocked'[r]) > Len(blocked[r]) /\ holder[r] # NoTask =>
              priority'[holder[r]] <= priority'[Head(blocked'[r])]]_allVars

(* While a mutex is taken its holder is at least as urgent as every waiter:*)
(* "If there is no other higher priority task then reset to original       *)
(* priority" (mutex.c:261) is all a time-out may do to it.                 *)
HolderInherits ==
    \A r \in Resources :
        lock[r] = 0 /\ holder[r] # NoTask /\ blocked[r] # << >> =>
            priority[holder[r]] <= priority[Head(blocked[r])]

(* A task that holds no mutex runs at its own priority: "restore original  *)
(* priority" (mutex.c:373).  It does not hold once locks are nested, see   *)
(* README.                                                                 *)
RestoredOnRelease ==
    \A t \in created \ {BG} :
        (\A r \in Resources : t \notin holds[r]) => priority[t] = BasePrio[t]

(* As in Semaphore: blocked list, control blocks and callers agree.        *)
BlockedMatchesTCB ==
    \A r \in Resources :
        /\ SortedByPrio(blocked[r], priority) /\ IsInjective(blocked[r])
        /\ Listed(blocked[r]) = { t \in created : resource[t] = r }
        /\ \A t \in Listed(blocked[r]) : calling[t] = r /\ t \in Listed(wait)

(* A released mutex is not forgotten: while tasks are blocked on it, a     *)
(* woken task is still to look at it (mutex.c:138).                        *)
NoReleaseLost ==
    \A r \in Resources :
        blocked[r] # << >> /\ lock[r] # 0 =>
            \E t \in Tasks : calling[t] = r /\ t \notin Listed(blocked[r])

=============================================================================
