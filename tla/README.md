# A verification project for HuskEOS

TLA+ models of the HuskEOS kernel (`src/huskEOS`), the TLC runs that check them
on small instances, and TLAPS proofs of theorems about them for every value of
the constants. File and line references are to this repository.

## 1. The system

HuskEOS is a preemptive priority scheduler for Cortex-M4 with blocking
resources. One CPU executes tasks, interrupt handlers, the tick handler
(SysTick) and the context switch (PendSV). Everything is statically allocated.

| Component | State | Operations | Talks to |
|---|---|---|---|
| List manager `List_Manager/Source/listMgr_internal.c` | links of the `ListNode`s, list heads (owned by the callers) | add to front, to end, by priority; remove a node, the first node, by TCB | called by the scheduler and by every resource with a blocked list |
| Scheduler `Schedule/Source/sch.c` | ready list, wait list, TCBs (flags, sleep counter, resource, wake reason, priority), current and next task, tick counter; CPU load, sleep state | `vd_OS_init`, create, start, sleep, sleep until, suspend, wake, get wake-up reason; for resources: set reason for sleep/wake-up, set new priority; the tick; the background task; stop the timer, new period, CPU load | list manager; calls each resource's time-out handler; sets PendSV |
| CPU interface `OS_CPU_Interface` | critical-section nesting counter, PRIMASK, BASEPRI, PendSV bit | enter/leave a critical section, mask/unmask, trigger the dispatcher, PendSV handler, stack frames, SysTick set-up | called by everybody |
| Semaphore `Semaphore/Source/semaphore.c` | counter, blocked list, `SEMA_MAX_NUM_BLOCKED` list nodes | init, wait, check, post, time-out | scheduler, list manager |
| Mutex `Mutex/Source/mutex.c` | lock, holder, real and inherited priority, blocked list | init, lock, check, unlock, time-out | scheduler (also priority changes), list manager |
| Queue `Queue/Source/queue.c` | ring buffer with put and get pointer, blocked list, message | init, flush, get, put, counts, time-out | scheduler, list manager |
| Mailbox `Mailbox/Source/mailbox.c` | one datum, status, ID of one blocked task | get, check, send, clear, time-out | scheduler |
| Flags `Flags/Source/flags.c` | event bits, table of pending tasks | post, pend, check, reset, clear, time-out | scheduler |
| Memory `Memory/Source/memory.c` | partitions of equal blocks, status per block, watermarks | create, malloc, calloc, realloc, free, maintenance | critical sections only |
| Starter application `App/Source/app.c` | - | creates three tasks that sleep in turn | scheduler |
| Start-up `App/Startup` | vendor code | reset handler | calls `main` |

### What is hard

* **A context switch is requested in one place and happens in another.** An API
  call sets `tcb_g_p_nextTaskBlock` and the PendSV bit inside its critical
  section; PendSV runs when no other interrupt is active. SysTick (0xC0) is more
  urgent than PendSV (0xE0), so ticks and other interrupts that became pending
  in the critical section are served first, and act on the lists after the
  decision was made.
* **The tick is interruptible.** It walks the wait list with only BASEPRI raised
  (`vd_OSsch_interruptEnter`), and removes nodes from the list it walks; an
  interrupt above the tick may come between two nodes and within the visit of
  one.
* **Two lists, and flags that must tell them apart.** `taskWake`, `taskSuspend`
  and `setNewPriority` choose the list head by the flags of the task.
* **A loop without an end test.** `vd_list_addTaskByPrio` relies on a less urgent
  node being on the list. The ready list has the background task; blocked lists
  have no such node.
* **A shared nesting counter.** Tasks and handlers increment one counter with
  LDREX/STREX, then disable interrupts in a second instruction.
* **Time-out against post.** A waiter may be woken by the resource or by its
  time-out; each must leave nothing for the other to find.
* **Start-up.** Objects are created in critical sections before the scheduler
  runs.
* **The background task.** It samples the timer, notes that the CPU sleeps, runs
  a hook and waits for an interrupt, all with interrupts enabled; the tick and
  every other handler read and reset what it writes.

Nothing is persisted and there are no messages between machines: crash recovery
and message loss do not exist here. `PROJECT.json` lists each hazard with its
line and the properties that would catch it.

### What makes each component correct

* List manager: the pointers of each list spell out one sequence, in both
  directions; each operation does to it what callers expect and ends.
* Scheduler: each task is on exactly one list, once; flags and lists agree; the
  ready list is in priority order and ends with the background task; suspended
  tasks are last on the wait list; the most urgent runnable task runs; a sleeper
  wakes on its tick; a pending switch is not out of date. The CPU load is a
  percentage (which it is not once `taskWake` counts, section 4), nothing runs while the CPU is noted to sleep, and a stack that is
  run over is noticed.
* CPU interface: critical sections exclude handlers; interrupts come back after
  the outermost one; no task is switched out inside one.
* Semaphore: no post is lost; the most urgent waiter is woken; blocked list and
  TCBs agree; every wait with a time-out ends.
* Mutex: one holder; inheritance lasts as long as a more urgent task waits.
* Queue: FIFO, nothing lost or read twice; Mailbox: one datum, one reader;
  Flags: a waiter whose condition holds is woken; Memory: no block handed out
  twice, watermarks where maintenance looks for them.

## 2. Modules

| Module | Stands for | Uses |
|---|---|---|
| `TaskList` | what the list manager's operations do to a list, as operators on sequences | - |
| `ListMgr` | `listMgr_internal.c` at pointer level, loops node by node | `TaskList` |
| `Scheduler` | `sch.c` and PendSV | `TaskList` |
| `PreemptiveScheduler` | the promise of README.md:5, with no lists, tick or pending interrupt | - |
| `SchedulerTiming` | `Scheduler` plus a history variable for wake-up times; the refinement mapping to `PreemptiveScheduler` | `Scheduler`, `PreemptiveScheduler` |
| `Background` | the background task, CPU load, sleep hooks, marks on stacks and heap, the timer on or off | `Scheduler` |
| `StarterApp` | `app.c` | `Scheduler` |
| `CpuInterface` | critical sections, masks and exceptions instruction by instruction | - |
| `Semaphore` | `semaphore.c`, each step conjoined with the scheduler's step | `Scheduler` |
| `Mutex` | `mutex.c`; where one critical section makes several scheduler calls, they are combined into one step | `Scheduler` |
| `BoundedFifo` | the promise of README.md:58: a queue of at most so many messages | - |
| `Queue` | `queue.c`; the refinement mapping of its ring to `BoundedFifo` | `Scheduler`, `BoundedFifo` |
| `Mailbox`, `Flags` | `mailbox.c`, `flags.c`; a mailbox is mapped to a `BoundedFifo` for one message | `Scheduler`, `BoundedFifo` |
| `Events` | mailboxes and flags used by the same tasks | `Mailbox`, `Flags` |
| `Memory` | `memory.c` at the grain of its critical sections | - |
| `SchedulerProofs` | lemmas about lists, theorems about the scheduler | `Scheduler` |
| `TimingProofs` | theorems about wake-up times, the refinement and the background task | `SchedulerTiming`, `Background`, `SchedulerProofs` |
| `SemaphoreProofs`, `MutexProofs`, `QueueProofs`, `EventsProofs` | theorems about resources, on top of `SchedulerProofs` | `Semaphore`, `Mutex`, `Queue`, `Events` |
| `CpuInterfaceProofs` | theorems | `CpuInterface` |
| `StructureProofs` | theorems about pointer lists and memory partitions | `ListMgr`, `Memory` |
| `MCStandalone` | nothing of its own: one of `ListMgr`, `Memory`, `CpuInterface` runs, chosen at the start | those three |
| other `MC...` | values for TLC | |

The layers justify each other. `ListRepresents` says that the pointer code of
`ListMgr` does what the operators of `TaskList` say, so `Scheduler` and the
resources work on sequences. `CpuInterface` checks that critical sections exclude interrupts, so
in `Scheduler` the body of an API call is one step.

### ListMgr

`head`, `nextNode` and `previousNode` are the pointers. An operation without a
loop is an action; one with a loop starts a walk (`op`), takes `WalkOn` per node,
and ends with `LinkAtEnd`, `LinkBefore` or `UnlinkFound`. `content` is a history
variable: the sequence `TaskList` promises. Callers' rules, kept by `Scheduler`
and visible in the guards: a node is added only while it is on no list, removed
through its own list's head, and inserted by priority only where the walk meets
a less urgent node.

### Scheduler

| Variables | Code |
|---|---|
| `ready`, `wait`, `created` | the two list heads, `Node_s_ap_mapTaskIDToTCB` |
| `flags`, `sleepCntr`, `resource`, `wakeReason`, `priority` | fields of `Sch_Task`; `flags` as the set of its bits |
| `current`, `next`, `pend`, `started` | the two global TCB pointers, the PendSV bit, `vd_OSsch_start` |
| `tickCntr`, `inTick`, `cursor` | `u4_s_tickCntr`, the walk of `vd_OSsch_periodicScheduler` |
| `late` | bound only: ticks served since PendSV was set |
| `fault` | a null pointer was followed, the time-out handler met bits it has no case for, or a node was unlinked through the wrong head; nothing happens afterwards |

An API body is one step; `Dispatch` is PendSV; the tick is `TickStart`, one
`TickVisit` per node and `TickEnd`. What `taskWake` adds to the CPU load is
`CreditIdle` of `Background`, since no step of `Scheduler` reads it. A task acts only while no switch is pending
and no tick is in progress; interrupts act at any time except inside a tick.
The code has usage rules it does not check. The model states each, and
`Relaxed` names those the environment may break:

| Rule | Kept unless relaxed | What relaxing it breaks (TLC) |
|---|---|---|
| `short_sleep` | a task sleeps longer than the ticks that may be served before its PendSV | `OnlySleeperIsMoved`, `SwitchIsUpToDate`, `MostUrgentRuns`, `FlagsTellList`, `ReadyInOrder` |
| `late_wake` | no interrupt wakes the task that is being switched out, or lends it a priority above the task that PendSV leads to | the same |
| `isr_in_tick` | no interrupt above the tick calls the OS between two nodes of the walk | `NoFault` |
| `isr_in_visit` | none does while the tick wakes the node it visits (sch.c:844-861) | everything: a fault, after which nothing is claimed; relaxed by no run |
| `wake_blocked` | `taskWake` is not used on a task blocked on a resource | `NoFault` |
| `suspend_waiting` | `taskSuspend` is not used on the head of the wait list | `NoFault`, `EachTaskOnOneList` |
| `runtime_create` | tasks are created before `vd_OSsch_start` | `MostUrgentRuns` |

### Background

The configuration here has both hooks, the load calculation, the stack check and
the heap; the repository's `rtos_cfg.h` has the stack check only. The loop of
`vd_OSsch_background` is six steps (`Inspect`, `SampleTick`, `StoreTimestamp`,
`Arm`, `PreSleep`, `FallAsleep`; `bgAt` says which comes next), each of which any
interrupt and any switch may precede. `prevTimestamp`, `idleRunning` and
`idleAvg` are the fields of `OS_s_cpuData`, the sum modulo `LoadMod` (2^32) and
the average a byte; `sleeping` is `u1_s_sleepState`.

`Tick` is `TickStart` together with what `vd_OSsch_systemTick_ISR` does before
it: `u1_OSsch_interruptEnter` (`InterruptEnter`) and the load (`CountIdle`).
`HandlerStep` adds `InterruptEnter` to the scheduler's steps that a handler may
take, and `CreditIdle` to those that wake a task: the idle time since the
timestamp, which is not renewed and may lie behind the timer's count.
`credited` is a history variable that says whether the sum, or the average, holds
such a credit. `TaskStep` leaves the background task alone in all others. So every step
is one of `Scheduler` or leaves the scheduler as it is (`SchedulerUndisturbed`).

`timer` is SysTick: on, off, or off with one tick pending, which
`vd_OSsch_suspendScheduler` cannot take back. The percentage of the tick is any
number up to `Hundred`. `broken` is the stack or heap that the task on the CPU
has run over, and `naps` counts the times the CPU went to sleep since; `lowPower`
is a history variable for the hooks: the pre-sleep one ran last.

### StarterApp

`CreateNext`, `StartLast` and `TaskLoop` are `main` and the loops of the three
tasks; everything else is the tick and PendSV of `Scheduler`. There are no
handlers of the application, so it shows what happens with nothing but the OS
and three periodic tasks.

### CpuInterface

`frames` is the stack of what the CPU executes, the running task at the bottom;
`parked` holds what the other tasks will resume. The functions that enter and
leave a critical section are split at LDREX, STREX, CPSID and the test before
CPSIE, and any interrupt may come between. An exception clears the exclusive
monitor. Urgencies are those of the port: tick 0xC0, PendSV 0xE0, and a more
urgent interrupt at 0x40.

### Semaphore

Variables `sema` (counter), `blocked` (the list), `calling` (a task between the
two critical sections of `u1_OSsema_wait`) and `strayed` (a walk left its list).
`WaitTakes`, `WaitBlocks`, `WaitLooksAgain` and `Post` are the API;
`TickTimesOut` and `WakeTimesOut` add `vd_OSsema_blockedTimeout` to the
scheduler's steps that call it. `Careless` names the rules an application may
break: `no_sentinel` (block behind more urgent waiters only) and `no_slot`
(block when all nodes are taken).

### Mutex

`lock`, `holder`, `inherited`, `real` and `blocked` are the fields of an
`OSMutex`; `calling` is as in `Semaphore`. `holds` is a history variable: who was
told `MUTEX_SUCCESS` and has not unlocked, which is what mutual exclusion is
about; the code itself names a holder also after the release. A lock that blocks
puts the caller to sleep and then lends its priority, an unlock takes the
priority back and wakes a waiter, and a time-out takes it back inside the tick:
`LockBlocks`, `Unlock` and `TickTimesOut` each do to the scheduler's variables
what those calls do in sequence. How tasks get onto a full or badly ordered
blocked list is `Semaphore`'s matter and excluded here. `Careless`: `relock`
(lock what one holds), `second_unlock` (unlock twice, which breaks `OneHolder`),
`nested` (lock a second mutex, which breaks `RestoredOnRelease`).

### Queue

`entries`, `getPtr` and `putPtr` are the ring; `getPtr` stands on the entry taken
last, so one entry stays free. Readers and writers share the list `blocked`.
`calling` records what the second half of a call needs: the message of a put,
and the position that a get computed before it slept. `FifoKept` says that the
ring, read as the sequence of messages between the two pointers, only ever takes
steps of `BoundedFifo`. It holds while there is one reader at a time and no flush
meets a sleeping one, two rules that the code does not have: queue.c:9 is about
several blocked readers and queue.c:126 about waking them in a flush. `Careless`
relaxes either (`second_reader`, `flush_reader`), and each breaks it (section 4). A flush wakes every task on the list in one
critical section: `Relinked` gives the two lists after the first n of them, and
the check for a switch is made once, which the theorem `GroupRules` justifies.

The third rule, `both_sides`, is that gets and puts do not block on the same
queue; relaxing it breaks `NobodyForgotten` (section 4).

### Mailbox, Flags, Events

A mailbox is a datum and the ID of one blocked task. `MailRules` has two
rules of use the code does not check: `second_waiter` (mailbox.c:9 asks for two
tasks) and `task_zero` (the ID 0 means nobody). A sender and a receiver may both
block on one mailbox, one after the other. `NobodyForgotten` is that a blocked
task finds the mailbox in the state that made it block: no wake-up is on its way
that could excuse another one. It does not hold (section 4).

A flags object is a set of event bits and the table `pending`. A post serves the
entries in the order of their slots (`Served`, a function of how many slots have
been looked at); the calls it makes for one entry are applied to a record of the
scheduler's variables (`Woken`, `ReasonSet`), in the order of `flags.c`, which differs between an "any" and an "exact" entry.
`FlagRules`: `timed_event` (an event comes to a task that pends with a time-out;
breaks `NoFault`), `status_bits` (an event uses 0x10 or 0x20; breaks
`LeavesAwake`), `wake_pending` (the application wakes a pending task; breaks
`WaitersRegistered`). `Events` puts both kinds of object under the same tasks,
for the tick dispatches a time-out by flag bits that posts write to as well.

### Memory

`partitions` and `inUse` are `partitionList`; `bytes` is what each block holds, a
watermark, zero or the name of the task that wrote it; `call` is how far a task
has got in a search or a reallocation. Each partition a search visits is one
critical section in the code and one step here, and so are the copy and the
release of a reallocation. What the code reads outside of critical sections
(block addresses, sizes) does not change once it is there. A pointer that did
not come from the manager is not modelled. `MemRules`: `stale_pointer`, `overrun`.

## 3. Runs

| Run | Instance | Shows |
|---|---|---|
| `standalone` | either 2 lists and 4 nodes, two of equal priority; or 2 tasks, up to 2 partitions of 2 layouts, sizes 1 and 2; or 2 tasks, start-up code, tick and one more urgent interrupt, nesting depth 2 | pointers spell the promised sequences and loops end; no block is shared or keeps another's data; critical sections exclude, interrupts come back, switches fall outside |
| `sched` | 2 tasks and the background task, 1 semaphore to block on, sleeps of 0 and 2 ticks, 3-tick counter, 1 late tick, all rules kept | all scheduler properties and the refinement of `PreemptiveScheduler` |
| `background` | 2 tasks that suspend and wake each other and sleep for 1 tick, a window of 2 ticks, a percentage of 0 or 1, a sum modulo 5, interrupts between two nodes of the tick's walk, the background task's stack run over at some time; `short_sleep`, `isr_in_tick`, `suspend_waiting` broken | the load is a percentage in windows in which `taskWake` counts nothing, nothing runs in a sleeping CPU, the overrun is noticed, suspended tasks are last |
| `sema` | 3 tasks, 1 semaphore, 2 blocked nodes, counter to 2, rules kept | no post lost, priority-based waking, lists and TCBs agree, waits end |
| `mutex` | 3 tasks, 1 mutex, 2 blocked nodes, time-outs of 2 and 3 ticks, 1 late tick | one holder, loans tracked and given when blocking, no release lost, lists and TCBs agree |
| `queue` | 3 tasks, 1 ring of 3 entries, 2 messages, time-outs of 1 tick, one reader at a time and no flush while it sleeps | nobody forgotten, lists and TCBs agree, the refinement of `BoundedFifo` |
| `events` | 2 tasks, 1 mailbox, 1 flags object with 2 slots, 2 event masks, all rules kept | both objects know who waits, mail kept, who leaves the pend table is awake |
| `short_sleep` | the starter application, its own priorities and periods, 1 late tick; violation | a tick before PendSV makes a task leave the ready list in another's place |
| `mutex_timeout` | `mutex`; violation | the time-out of one waiter ends the inheritance from another |
| `queue_two_readers` | `queue` with `second_reader` relaxed; violation | a get that slept moves the get pointer back and delivers a cleared entry |
| `mailbox_wakeup` | `events`, all rules kept; violation | a sender stays blocked on an empty mailbox |
| `flags_timed_event` | `events` with `timed_event` relaxed; violation | an event for a task that pends with a time-out follows a null pointer |

The properties, each stated in words above its definition (the action and temporal ones in
*italics*):

| Run | Properties |
|---|---|
| `standalone` | `Represents`, `WalkStaysOnList`, *`OperationEnds`* (lists); `NoForeignData`, `RoomIsThere` (memory); `TypeOK`, `CriticalSectionsExclude`, `InterruptsComeBack`, `SwitchedOutsideSections` (CPU interface) |
| `sched` | `TypeOK`, `NoFault`, `EachTaskOnOneList`, `ReadyInOrder`, `FlagsTellList`, `MostUrgentRuns`, `SwitchIsUpToDate`, `WakesOnTime`, *`OnlySleeperIsMoved`*, *`SleeperWakes`*, *`KeepsPromise`* |
| `background` | `SuspendedLast`, `TickLoadIsPercent`, `AwakeForWork`, `CaughtNextRound` |
| `sema` | `BlockedMatchesTCB`, `NoPostLost`, *`PostWakesMostUrgent`*, *`BlockEnds`* |
| `mutex` | `OneHolder`, `LoansAreTracked`, `BlockedMatchesTCB`, `NoReleaseLost`, *`BlockingLends`* |
| `queue` | `BlockedMatchesTCB`, `NobodyForgotten`, *`FifoKept`* |
| `events` | `WaitersRegistered`, *`MailKept`*, *`LeavesAwake`* |
| `mutex_timeout` | `HolderInherits` |
| `short_sleep` | *`OnlySleeperIsMoved`* |
| `queue_two_readers` | *`FifoKept`* |
| `mailbox_wakeup` | `NobodyForgotten` |
| `flags_timed_event` | `NoFault` |

What some of them do not show:

* `WalkStaysOnList` assumes that an insertion by priority starts where a less
  urgent node lies ahead (`CanInsert`). Callers for which that is false are seen
  with `NoWalkOff`, not with it.
* `SuspendedLast` and the other properties of the lists allow for interrupts
  between two nodes of the tick's walk, not within the visit of one.
* `WakesOnTime` takes the due time from the counter that a call has stored. It is
  about the walk, not about the distance `taskSleepSetFreq` computes.
* `SwitchIsUpToDate` and what rests on it hold under `short_sleep` and
  `late_wake`, which are about the ticks and interrupts that make a switch stale.
* In `queue` readers and writers are never on the blocked list together, and in
  `sema`, `mutex` and `queue` a list is never overrun.
* The masks of `events` share no bit with a status or a resource in a TCB, and no
  event comes to a task that pends with a time-out.

### Bounds

* Two application tasks plus the background task give every relation a list
  operation can meet (head, middle, sentinel; woken before or after the running
  task), lent priorities equal to each other's included. `sema` has three, so
  two wait while the third posts.
* `CntMod` stands for 2^32 and `MaxTick` for `SCH_MAX_NUM_TICK`: both wrap in the
  runs, a sleep of 0 and a wake time at or behind the present tick included.
* `LateTicks` = 1: one tick before PendSV is enough for the stale switch. PendSV
  is really pre-empted only by what became pending in the critical section and
  what arrives while that is handled.
* `MaxSema` keeps the `S1` counter from overflowing; an overflow takes 128 posts
  without a wait. `MaxDepth` is how deep the OS nests sections in one call.
* `queue` has no late ticks: its time-outs differ from a wake-up only in what
  they do to the list, and the races with PendSV are those of `sched`. A ring of
  three stores two messages, so it is empty, partly filled, full and wrapped.
* In `events` sleeps of 0 ticks pend for good and those of 1 tick time out. Two
  tasks fill the pend table or both sides of a mailbox. The deadlock check finds
  faults there and in `mutex` and `queue`, since nothing happens after one.
* In the memory part of `standalone` blocks have 3 and 4 bytes, so 1 and 2 of them are for use; two
  sizes make requests that fit one layout only, and reallocations that grow and
  shrink. Since the count of a partition never goes down, all searches fail in
  the end, and every state on the way there is visited.
* The three parts of `standalone` share no variable, so its states are those of
  the three side by side and a behaviour is one of one part.
* In `background` a fault, or `OSTaskFault`, ends the behaviour, so deadlock is
  not checked there. A window of two ticks has a first, a last and a wrapped
  one, and with `Hundred` = 1 the load is off its range as soon as one tick too
  many is credited; the theorems have any width and percentage. `LoadMod` has
  room for the ticks of two windows, so that a sum that is not set back is seen
  before it wraps. Its tasks block
  on nothing, since the background task looks at none of it.
* `background` has a view (`MCView`): the average is replaced by whether
  `TickLoadIsPercent` holds, and the sum is left out once `taskWake` has counted
  into it. No guard and no other variable depends on either, except that the sum
  becomes an average, and an average of such a sum is not in the property. So
  states that the view takes for one satisfy the same invariants and have
  successors that the view takes for one.
* In the starter application one late tick is enough; with none (`LateTicks` = 0)
  the same property and the scheduler's invariants hold there.

### Fairness

`Fairness` of `Scheduler` is weak fairness of the start, the arrival of ticks,
each visit and the end of the tick handler, and PendSV: the timer runs
periodically, handlers are loops over finite lists, and the processor takes a
pending exception when nothing more urgent is active. Nothing is assumed of
tasks or other interrupts. `FairSemaSpec` assumes the same. `ListMgr` assumes
that a loop that can go on does: it runs with interrupts disabled.

## 4. Findings

Five runs end in a counterexample and show where the code disagrees with its
own comments or documentation (`PROJECT.json`, "findings"):

1. `short_sleep`, in the starter application: `vd_OSsch_setNextReadyTaskToRun` moves the head of the ready
   list, not "node of task that was previously executing". They differ after a
   sleep of one tick whose tick is served before PendSV; flags and lists then
   disagree. Task 1 of `app.c` sleeps for one tick in every round.
2. `mutex_timeout`: when a waiter times out that had lent its priority, the
   holder falls back to its own priority whoever else waits (mutex.c:281), against
   "to eliminate possibility of priority inversion".
3. `queue_two_readers`: a get computes its position before it sleeps and uses it
   after (queue.c:196). If another reader took a message meanwhile, the get
   pointer moves back and a cleared entry is delivered without an error. A flush
   does the same to one reader (queue.c:126): with `flush_reader` in place of
   `second_reader` the same property is violated.
4. `mailbox_wakeup`: the second half of a get wakes nobody, because "there is no
   blocked task since this was the blocked task" (mailbox.c:123). The receiver
   blocks, the sender sends, which wakes it, and sends again before it runs, which
   blocks the sender; the receiver takes the mail and leaves the sender blocked
   on an empty mailbox until its time-out. No rule is relaxed.
5. `flags_timed_event`: an event for a task that pends for any of several events
   with a time-out follows a pointer that the time-out handler has just cleared
   (flags.c:143-146); so does a reset of the object.

More are seen by relaxing a rule or checking a property that no run lists; each
names the definition:

* Two waiters, the second not more urgent, make `vd_list_addTaskByPrio` follow a
  null pointer on a blocked list (`NoWalkOff`, `no_sentinel`). Mutex and queue use
  the same call.
* `vd_OS_init` masks interrupts without counting, so the first critical section
  before `vd_OSsch_start` enables them (`MaskedUntilStart`).
* `taskWake` on a blocked task leaves its resource bits behind (`wake_blocked`);
  `taskSuspend` unlinks a waiting task through the head of the ready list
  (`suspend_waiting`).
* A second unlock raises the lock to 2 (`OneHolder`, `second_unlock`). A task that
  is lent a priority through two mutexes keeps one of them
  (`RestoredOnRelease`, `nested`).
* The hooks may run in the wrong order: an interrupt after the note that the CPU
  sleeps and before the pre-sleep hook leaves that hook in effect when tasks
  run (`FullPowerForWork`). Idle time before the last interrupt of a tick is not
  counted (`SampleTick`, `CountIdle`). `vd_OSsch_suspendScheduler` resets no
  ticker (`StopTimer`), and the tick period it could be restored to is always
  reported as 0 (cpu_os_interface.c:212).
* A get may stay blocked on a queue with messages. Where gets and puts block on one
  queue, the list has both, and whoever is first is woken: a woken put that finds
  the queue full again returns without waking the get behind it
  (queue.c:355-387). It takes five tasks, for a task is inserted behind another only
  where a less urgent one is blocked already (`NobodyForgotten` of `Queue`,
  `both_sides`, a ring of 2 entries, 3 nodes).
* The number of entries of a queue is one too high for half of the positions
  (`CountIsRight`).
* `taskWake` adds the idle time since the timestamp to the sum and leaves the
  timestamp as it is (sch.c:619-626), so a second wake-up, or a tick, before the
  switch counts the same span again, and the load wraps to a number above 100 if
  that happens in most ticks of a window. If the timer has wrapped and its tick is
  still pending, the difference is negative and the unsigned sum wraps
  (`LoadIsPercent` of `Background`, which is violated by one such wake-up).
* An "exact" pend is met by any part of its events, none included (`Meets`); events
  that share bits with the TCB's status lose the task (`LeavesAwake`,
  `status_bits`).
* `calloc` marks one byte of the two that maintenance looks at
  (`MaintenanceSilent`), `realloc` does not copy the last byte (`Copied`), and
  freed blocks are never counted as free (`Free`, `HasRoom`).

## 5. Theorems

### Scheduler

`tlapm` proves, for any tasks, priorities, periods, resources and bounds that
satisfy the named assumptions of `Scheduler`, and whatever rules are in
`Relaxed`:

* `TypeCorrect` : `Spec => []TypeOK`
* `TasksLinkedOnce` : `Spec => [](fault # "links" => LinkedOnce)`
* `SuspendedAtEnd` : `Spec => [](fault # "links" => SuspendedLast)`

The last two claim nothing once a link has gone wrong (`fault = "links"`): a node
was unlinked through the head of the other list (`WrongListUnlinked`, `TaskSuspend`
on the first waiting task, `TickMislinks` after the walk strayed), or an interrupt
came while the tick woke the node it visits (`TickMislinks`, rule `isr_in_visit`).
The sequences of the model are then not the lists of the code, which may have a
task linked twice. No run lists `LinkedOnce`; `sched` checks it as a part of
`EachTaskOnOneList`.

`TypeOK` is not inductive. A step looks at the head of the ready list and at the
node behind the cursor; both exist only because the ready list is never empty.
The inductive invariant `Inv` of `SchedulerProofs` adds what makes that true:

* `PrioritiesInv`: every task is more urgent than the background task, so an
  insertion always finds a sentinel (`Sentinel`);
* `ListsInv`: no task is linked twice; until a fault the ready list ends with the
  background task and every created task is linked; no suspended task is ready,
  and suspended tasks end the wait list;
* the cursor is a created task or null.

The proof has a lemma per action (or group of actions with the same effect on
the lists), a lemma for initial states, and a final theorem that combines them.
The first part of the module has what they need about sequences: what inserting by priority
and unlinking keep (`InsertByPrioFacts`, `UnlinkFacts`), and that adding at
either end keeps the suspended tasks last.

The assumptions are those of the code's own configuration: the background task
has the lowest priority (0xF0) and is not an application task, there are finitely
many tasks, counters are wider than the tick counter, null values are not
objects. TLC evaluates them in every run.

### Scheduler, with the rules of use kept

The second half of `SchedulerProofs` assumes that five of the seven rules are kept
(`RulesKept`: no sleep as short as the ticks that may precede PendSV, no interrupt
that wakes the task being switched out or lends it a priority above its successor,
no interrupt within the tick's visit of a node, no suspension of the first waiting
task, no creation at run time). Interrupts that call the OS between two nodes of the
tick's walk and `taskWake` on a blocked task are allowed. The code has none of these
rules; without the first two, the ticks and interrupts that make a pending switch
stale come, as in the run `short_sleep`, so the theorems below say what holds of an
application that avoids them. Then

* `TasksOnOneList` : `Spec => []EachTaskOnOneList`
* `ReadyListInOrder` : `Spec => []ReadyInOrder`
* `FlagsTell` : `Spec => []FlagsTellList`
* `MostUrgentTaskRuns` : `Spec => []MostUrgentRuns`
* `PendingSwitchIsUpToDate` : `Spec => []SwitchIsUpToDate`
* `OnlySleepersLeave` : `Spec => OnlySleeperIsMoved`

The counterexample of the run `short_sleep` is why they belong together:
`setNextReadyTaskToRun` moves whatever task is at the head, so that flags tell the
list depends on who is at the head, that on where the last switch went, and that on
the lists at the time. `RuleInv` is `Inv` with

* `ListRules`: no fault has happened to a list, flags and lists agree (and tasks not
  created have no flags), the ready list is in order;
* `SwitchInv`: with no switch pending the running task is at the head outside of the
  tick; a pending one leads to the head; and a pending switch always leads away from
  the running task, which is what keeps that task from being moved twice;
* `OutlastInv`: the task that is being switched out still sleeps for more ticks than
  may come before PendSV, counting whether the tick in progress has already visited
  it (`ToVisit`). Without it, that task could be back at the head when PendSV comes,
  and `SwitchInv` is not inductive.

With every rule kept:

* `NeverFaults` : `Spec => []NoFault` needs two more facts. `HeldInv`: the resource
  bits of a task are those of the resource its control block names, and such a task
  sleeps, so the time-out handler always finds a kind it knows. `WalkInv`: the node
  the tick visits is on the wait list; an interrupt during the walk breaks it.

A flush, a post of flags or a reset wakes several tasks in one critical section. The
last part of the module shows that this leaves the scheduler as one wake-up would:
`WakesGroup` is what happens to lists and flags when a sequence of sleepers is linked
into the ready list one after another (`Linked`), and `GroupRules` and `GroupHeld`
that `RuleInv` and `HeldInv` survive it. `Linked` is a recursive function; that it has
the values it should is shown by looking at the least number of tasks for which it
would not, since an induction rule cannot be instantiated.

`TimingProofs` adds

* `SleepersWakeOnTime` : `TimingSpec => []WakesOnTime`, when no interrupt comes into
  the tick's walk; the due time is what the call that slept stored in the counter.
  `CountInv` says that the counter of a sleeper is the number of its ticks still to come, or one more while the tick in progress has not visited it;
  that a walk visits each sleeper exactly once is `VisitGoesOn`.
* `StepsKeepPromise` : `Spec => Promise!Safety`, the safety half of the refinement:
  initial states map to initial states and every step to a step or a stutter of
  `PreemptiveScheduler`. Its liveness half stays with the run `sched`.

### Semaphore

* `SemaphoresUseTheScheduler` : `SemaSpec => Spec`, with no hypothesis: whatever rules
  are broken, `semaphore.c` does to the scheduler what the scheduler allows. So all
  theorems above hold in `Semaphore`.
* `SemaBlockedMatchesTCB` : `SemaSpec => []BlockedMatchesTCB`
* `SemaNoPostLost` : `SemaSpec => []NoPostLost`
* `SemaPostWakesMostUrgent` : `SemaSpec => PostWakesMostUrgent`

The last three assume `Careful`: blocked lists are not overrun, `taskWake` is not used
on blocked tasks, and the scheduler's rules are kept, save that interrupts may come
between two nodes of the tick's walk. `SemaInv` is `RuleInv` and `HeldInv` with
`ListsMatch` (a task is on a blocked list exactly while its control block names the semaphore) and `CallsMatch` (it
is then between the two critical sections of that semaphore's `wait`). `NoPostLost` is
inductive with it: a post with a waiter adds one unit and one woken task, and a woken
task looks at the counter once; the tasks woken form a finite set (`FiniteAssumption`),
whose size the counter must not exceed. `PostWakesMostUrgent` also needs
`Priorities = {}`: a blocked list is ordered by insertion only, and nothing in
`semaphore.c` moves a waiter whose priority changes.

### Mutex

* `MutexOneHolder` : `MutexSpec => []OneHolder`
* `MutexLoansAreTracked` : `MutexSpec => []LoansAreTracked`
* `MutexBlockedMatchesTCB` : `MutexSpec => []BlockedMatchesTCB`
* `MutexNoReleaseLost` : `MutexSpec => []NoReleaseLost`
* `MutexBlockingLends` : `MutexSpec => BlockingLends`

for any tasks and any number of mutexes, under `Careful`: no relocking, no nested
locks, no second unlock, and the scheduler's rules as for semaphores. `MutexSpec` does
not implement `Spec`: one critical section of `mutex.c` makes several scheduler calls,
and between them the lists need not be what the scheduler promises. So the scheduler's
part (`RuleInv`, `HeldInv`) is proved again for a lock that blocks, an unlock that
wakes and a time-out, after the last of the calls (`LockBlocksRules`, `UnlockRules`,
`TimeoutRules`); all other steps are steps of `Scheduler` (`AloofIsNext`). These
three need to know whose priority changes, and to what, which is what the rest of
`MutexInv` says:

* `HoldersKnown`: `OneHolder`; who holds a mutex holds no other and waits for none, so
  no task on a blocked list ever changes its priority and no blocked list gets out of
  order;
* `WaitersMatch`: blocked lists, control blocks and callers agree, lists are in order;
* `LoansKnown`: a mutex has lent nothing, or it has lent its holder the priority of the
  first waiter, which is more urgent than the holder's own, and remembers the latter; a
  task with a priority not its own has such a loan.

`TimeoutDoes` shows that the branch of `vd_OSmutex_blockedTimeout` that would lend the
priority of the next waiter is never taken, which is the second of the findings above: the
first waiter has the inherited priority, and no other can be more urgent.
`LoanReturned` shows that the head of the ready list is then the woken waiter or the head
there was before, which the rest of the tick relies on. TLC checked `MutexInv` before it was proved, with one mutex, with
equal priorities, with interrupts in the tick and with two mutexes.

### Queue

* `QueueBlockedMatchesTCB` : `QueueSpec => []BlockedMatchesTCB`
* `QueueFifoKept` : `QueueSpec => FifoKept`, that is, `Fifo!Spec`
* `QueueNobodyForgotten` : `QueueSpec => []NobodyForgotten`

for any tasks, queues, lengths and numbers of nodes, under `Careful`: the scheduler's
rules (interrupts may come between two nodes of the tick's walk), one reader at a time
and no flush while it sleeps. The second and the third are false without the last two
(section 4): of gets they speak of one task, of puts of any number. Readers and writers
may block on one queue, in any mixture, except in the third. `QueueInv` is the scheduler's part with `BlockedInv` (a task is on the list of
a queue exactly while its control block names the queue, and the list is in order),
`CallsMatch` and `ReadersInv`: the position that a get computed before it slept is
still the one after `getPtr`. That is what makes the refinement go through, and it
needs that nobody else moves `getPtr`.

For the refinement the ring is read as `StoredIn`, the sequence of entries behind
`getPtr`, spelled without the remainder of `Items` (`RingByRemainder`); each of store,
take and flush changes it at one end or empties it (`ItemsChange`, `QueueIsFifo`). For `NobodyForgotten` every step that empties or
fills a ring also wakes a task; what is left to show is that a woken task that looks
again and goes away leaves nobody behind (`HeededAlone` and the lemmas after it),
which is where the two sides must be apart (`OneSide`).

### Mailboxes and flags

* `EventsWaitersRegistered` : `EventsSpec => []WaitersRegistered`
* `EventsLeavesAwake` : `EventsSpec => LeavesAwake`
* `EventsMailKept` : `EventsSpec => MailKept`, that is, `Box!Spec`

for any tasks, mailboxes, flags objects, tables and event masks, under `Considerate`:
the rules of flags and of the scheduler kept, one task at a time on a mailbox, and none
with ID 0. A sender and a receiver may both block on a mailbox, one after the other. `EventsInv` has three parts.
`MailInv`: the registered task is the one whose control block names the mailbox, and
it is inside a call on it. `FlagInv`: an entry's task is on the wait list, and held by
the object or suspended since it was; no task is in two entries, of one table or of
two; each task an object holds has an entry. `SchedInv` is the scheduler's.

That no task is in two entries is what lets a post be proved slot by slot:
`ServedState` says what the scheduler's record is after n slots, and the entry of a
later slot is not touched by an earlier one. `LeavesAwake` is the same argument read as
a step. Mail is kept because a second half looks at the mailbox again in the critical
section in which it takes or stores (`MailIsQueue`).

### Background task

For the assumptions of `Scheduler`, any window, any percentage up to 255, any
stacks run over, and whatever is in `Relaxed`:

* `SchedulerUndisturbed` : `BgSpec => Spec`
* `AwakeWhenWorking` : `BgSpec => []AwakeForWork`
* `LoadStaysPercent` : `BgSpec => []TickLoadIsPercent`
* `OverrunIsCaught` : `BgSpec => []CaughtNextRound`

The first carries the theorems of the scheduler over to `Background`. `TickLoadIsPercent` is
about the windows in which `taskWake` counted no idle time, for `LoadIsPercent` is false of the others (section 4). Its
`LoadInv` says that in `k` ticks of such a window at most `k` times `Hundred` is
credited; the tick that closes the window divides a sum that is therefore at
most `Hundred * Window` (`LoadTick`, `AverageBounded`). It needs that the tick
counter, which wraps, starts a window whenever it wraps (`NextOfCounter`,
`NextRemainder`). For the overrun, the one on the CPU must be one whose stack is
inspected (`InspectedInv`: a switch only ever leads to a created task, since it is
requested for the head of a ready list that is not empty), and a CPU that slept
once since is at the inspection or still asleep (`OverrunInv`). `AwakeInv` adds
to its property that the scheduler has started.

### CPU interface

For any tasks, any handlers more urgent than PendSV, any nesting depth:

* `CpuTypeCorrect` : `Spec => []TypeOK`
* `SectionsExclude` : `Spec => []CriticalSectionsExclude`
* `InterruptsReturn` : `Spec => []InterruptsComeBack`
* `SwitchedOut` : `Spec => []SwitchedOutsideSections`

None of the four is inductive, for none says what the shared counter is. The
argument of `CpuInterfaceProofs` is that the counter is the sum of the sections
open in all frames, kept as a chain: each frame began (`base`) with what the
frames below it hold, and what is `Inside` a frame is its depth, one more between
the store of the increment and CPSID, one less between the store of the decrement
and the test (`ChainInv`, `NestInv`). From it follow, in turn:

* a register about to be stored is up to date while the monitor is held, so no
  update is lost (`NestInv`);
* the active frame has interrupts disabled whenever it is inside a section, and a
  handler that interrupted an unfinished entry has them disabled from its first
  section on, so only a frame outside of its sections is interrupted (`MaskInv`,
  `StackInv`);
* PendSV is less urgent than every handler, so it stands on a task, and it is
  never pending with interrupts enabled while that task is between its increment
  and CPSID: the counter is zero at a switch (`MaskInv`, `ParkedInv`);
* every handler keeps the mask that was in effect below it and puts it back
  (`BasepriInv`).

### Lists at pointer level

* `ListRepresents` : `ListSpec => []Represents`
* `ListWalkStaysOnList` : `ListSpec => []WalkStaysOnList`

for any nodes, lists and priorities, with no further hypothesis: the callers' rules are
guards. `LinkIn` and `LinkOut` are the core: if a node's links, its neighbours' and the
head are set as `LinkedIn` (`LinkedOut`) says, the pointers spell the sequence with the
node put in (taken out) at that place, and no other list notices. Each operation is
then shown to set them so, and its operator to return that sequence (`PutIn`,
`TakenOut`). `WalkInv` is the strengthening: a walk is at some place of its list and
has passed nothing it was looking for, so what it looks for is still ahead and the next
pointer is not null. That a walk by priority stops at `InsertPoint` is
`StopIsInsertPoint`. TLC checked `WalkInv` on the lists of the run `standalone`.

### Memory

* `MemoryRoomIsThere` : `Spec => []RoomIsThere`, with no hypothesis
* `MemoryNoForeignData` : `Spec => []NoForeignData`, if `MemRules = {}`

for any tasks and any partitions. The first is an argument about sizes: the blocks in
use of a partition are never more than its count (`CountInv`), for the count goes up
with each block taken and never down. The second, `MemoryInv`, says of each caller
which blocks it owns (`Owned`: the one it holds, and the one it is moving to between
the critical sections of a reallocation), that owners are apart and what they own is in
use (`OwnedApart`), and that an owned block holds, up to its end, only what the owner
wrote or the allocator filled in (`OwnBytes`). The property, about the bytes asked for
alone, is not inductive: a reallocation may copy more than was asked for.

### Only model-checked

* Liveness: `OperationEnds`, `SleeperWakes`, `BlockEnds` and the liveness half of
  `KeepsPromise`. Liveness under fairness and ENABLED are out of the prover's reach.
  All other properties of the passing runs are theorems.
* The five violations, and what section 4 says is seen by relaxing a rule.

## 6. Not modelled

* Version and ID queries, which only read.
* Stack frames and the reload values of SysTick, so neither its overflow for long
  periods nor a new period between the two reads of `u1_cpu_getPercentOfTick`; PendSV's saving of registers is a switch
  of `current`.
* The half-made links during `u1_OSsch_createTask`, which has no critical
  section: creation is one step.
* Interrupts within the tick's visit of a node. `TickCountsDown` and `TickWakes` are
  one step each, while sch.c:844-861 runs with only BASEPRI raised. An interrupt above
  the tick that wakes the visited task, or moves its neighbour, between the decrement
  and the end of `vd_list_addTaskByPrio` can link a node twice; one that wakes a
  task between the load and the store of its decrement has its 0 overwritten. With
  `isr_in_visit` in `Relaxed` the first ends in a fault (`TickMislinks`), so that the
  theorems without a rule claim nothing from there on; the second is left out. Every
  handler more urgent than the tick that calls the OS is exposed to both.
* What lies beyond the end of a stack or block that is run over, and the search
  for a mark, which is one step (`Inspect`).
* Calls that only read (`u1_OSsema_check`, `u1_OSmutex_check`,
  `mail_OSmbox_checkMail`, `u1_OSflags_checkFlags`, `u1_OSqueue_getSts`) and the
  checks of object numbers; they change nothing.
* Several resources of different kinds under the same tasks, except in `Events`,
  and, in the runs, several mutexes held by one task.
* The index `u1_OSMem_PartitionInit` returns, which no function takes.
* The vendor's start-up code, which calls `main`.

## 7. Plan

Done: all modules of section 2, first the scheduler and what it stands on, then
one resource after another on top of it, and the theorems of section 5.

Models to extend:

1. A resource of each kind under the same tasks: stale resource bits after a
   timed pend meet another resource's time-out (sch.c:768).
2. The creation of tasks at run time, with its half-made links.
3. The registers of SysTick: reload value, count and the period set in between.

Theorems:

1. That `Scheduler` with pointer lists (`ListMgr` in the place of the operators of
   `TaskList`) implements `Scheduler`; today the two meet in `ListRepresents` only.
2. For `Queue` with `both_sides`: how many tasks may block before one is forgotten.
