------------------------------- MODULE Queue --------------------------------
(***************************************************************************)
(* Message queues (Queue/Source/queue.c) on top of the scheduler: a ring   *)
(* buffer, and one list of blocked tasks for readers and writers together. *)
(* A get or a put that blocks is two critical sections; the second half of *)
(* a put looks at the pointers again, that of a get uses the position it   *)
(* computed before it slept.                                               *)
(*                                                                         *)
(* As in Mutex, tasks block only where a node is free and the insertion    *)
(* finds its place.  Careless is the set of the other usage rules, none    *)
(* of which the code checks, that the application may break:               *)
(*   "second_reader"  get from a queue while another get is blocked on it  *)
(*                    or was woken and has not looked again;               *)
(*   "flush_reader"   flush a queue in that situation;                     *)
(*   "both_sides"     let a get and a put block on the same queue.         *)
(***************************************************************************)
EXTENDS Scheduler

CONSTANTS
    Messages,    \* what tasks put
    Nothing,     \* a cleared entry
    QueueLength, \* entries of each ring; one stays unused
    MaxBlocked,  \* QUEUE_MAX_NUM_BLOCKED_TASKS
    Careless

ASSUME QueueAssumption ==
    /\ \A q \in Resources : KindOf[q] = "queue"
    /\ Nothing \notin Messages
    /\ QueueLength \in Nat \ {0, 1}
    /\ MaxBlocked \in Nat
    /\ Careless \subseteq {"second_reader", "flush_reader", "both_sides"}
    /\ "wake_blocked" \notin Relaxed

VARIABLES
    entries,  \* the memory from startPtr to endPtr
    getPtr,   \* the entry taken last
    putPtr,   \* the entry filled next
    blocked,  \* blockedListHead: tasks, most urgent first
    calling   \* what a task asked for before it slept, until it looks again

ring == <<entries, getPtr, putPtr>>
queueVars == <<ring, blocked, calling>>
allVars == <<vars, queueVars>>

Indices == 0 .. QueueLength - 1

NoCall == [op |-> "none"]

(* u1_OSqueue_init of each queue, before vd_OSsch_start.                   *)
QueueInit ==
    /\ Init
    /\ entries = [q \in Resources |-> [i \in Indices |-> Nothing]]
    /\ getPtr = [q \in Resources |-> 0]
    /\ putPtr = [q \in Resources |-> 1]
    /\ blocked = [q \in Resources |-> << >>]
    /\ calling = [t \in AllTasks |-> NoCall]

-----------------------------------------------------------------------------
InApplication == TaskRuns /\ calling[current] = NoCall

(* The entry behind i, from endPtr back to startPtr.                       *)
After(i) == (i + 1) % QueueLength

IsEmpty(q) == After(getPtr[q]) = putPtr[q]

IsFull(q) == putPtr[q] = getPtr[q]

(* Tasks inside a get from q: blocked, or woken and still to look again.   *)
Getting(q) == { t \in Tasks : calling[t].op = "get" /\ calling[t].queue = q }

Putting(q) == { t \in Tasks : calling[t].op = "put" /\ calling[t].queue = q }

SoleReader(q) == Getting(q) = {} \/ "second_reader" \in Careless

MayBlock(otherSide) == otherSide = {} \/ "both_sides" \in Careless

(* vd_OSqueue_addTaskToBlocked.                                            *)
AddTaskToBlocked(q, t) ==
    /\ Len(blocked[q]) < MaxBlocked
    /\ CanInsert(blocked[q], t, priority)
    /\ blocked' = [blocked EXCEPT ![q] = InsertByPrio(@, t, priority)]

(* Mutant of UnblockWaitingTask: nobody is woken.                          *)
UnblockNobody(q) == UNCHANGED <<vars, blocked>>

(* vd_queue_unblockWaitingTasks, if a task is blocked.                     *)
UnblockWaitingTask(q) ==
    IF blocked[q] = << >>
      THEN UNCHANGED <<vars, blocked>>
      ELSE /\ blocked' = [blocked EXCEPT ![q] = Tail(@)]
           /\ WakeFromResource(Head(blocked[q]))

-----------------------------------------------------------------------------
(* data_OSqueue_get.  The entry at position at is delivered and cleared;   *)
(* who gets the message is of no consequence here.                         *)
Dequeue(q, at) ==
    /\ getPtr' = [getPtr EXCEPT ![q] = at]
    /\ entries' = [entries EXCEPT ![q][at] = Nothing]
    /\ putPtr' = putPtr
    /\ UnblockWaitingTask(q)

(* On a queue that is not empty, by a task or an interrupt.                *)
GetTakes(q) ==
    /\ InterruptRuns
    /\ ~IsEmpty(q)
    /\ SoleReader(q)
    /\ Dequeue(q, After(getPtr[q]))
    /\ calling' = calling

GetBlocks(q, period) ==
    /\ InApplication
    /\ IsEmpty(q)
    /\ SoleReader(q)
    /\ MayBlock(Putting(q))
    /\ AddTaskToBlocked(q, current)
    /\ SetReasonForSleep(q, period)
    /\ calling' = [calling EXCEPT ![current] =
                     [op |-> "get", queue |-> q, at |-> After(getPtr[q])]]
    /\ UNCHANGED ring

(* Mutant of GetLooksAgain: the entry is taken unseen.                     *)
GetTakesUnseen ==
    /\ TaskRuns
    /\ calling[current].op = "get"
    /\ Dequeue(calling[current].queue, calling[current].at)
    /\ calling' = [calling EXCEPT ![current] = NoCall]

(* The second critical section; the position is the one computed before.   *)
GetLooksAgain ==
    /\ TaskRuns
    /\ calling[current].op = "get"
    /\ LET q == calling[current].queue
           at == calling[current].at
       IN  IF at # putPtr[q] THEN Dequeue(q, at)
                             ELSE UNCHANGED <<vars, ring, blocked>>
    /\ calling' = [calling EXCEPT ![current] = NoCall]

-----------------------------------------------------------------------------
(* u1_OSqueue_put.                                                         *)
Enqueue(q, m) ==
    /\ entries' = [entries EXCEPT ![q][putPtr[q]] = m]
    /\ putPtr' = [putPtr EXCEPT ![q] = After(@)]
    /\ getPtr' = getPtr
    /\ UnblockWaitingTask(q)

PutStores(q, m) ==
    /\ InterruptRuns
    /\ ~IsFull(q)
    /\ Enqueue(q, m)
    /\ calling' = calling

PutBlocks(q, period, m) ==
    /\ InApplication
    /\ IsFull(q)
    /\ MayBlock(Getting(q))
    /\ AddTaskToBlocked(q, current)
    /\ SetReasonForSleep(q, period)
    /\ calling' = [calling EXCEPT ![current] =
                     [op |-> "put", queue |-> q, message |-> m]]
    /\ UNCHANGED ring

PutLooksAgain ==
    /\ TaskRuns
    /\ calling[current].op = "put"
    /\ LET q == calling[current].queue
       IN  IF IsFull(q) THEN UNCHANGED <<vars, ring, blocked>>
                        ELSE Enqueue(q, calling[current].message)
    /\ calling' = [calling EXCEPT ![current] = NoCall]

-----------------------------------------------------------------------------
(* The ready list and the wait list when the first n tasks of list are     *)
(* woken, for each n.                                                      *)
Relinked(list) ==
    LET Lists[n \in 0 .. Len(list)] ==
          IF n = 0
            THEN [ready |-> ready, wait |-> wait]
            ELSE [ready |-> InsertByPrio(Lists[n - 1].ready, list[n], priority),
                  wait |-> Unlink(Lists[n - 1].wait, list[n])]
    IN  Lists

(* The calls of vd_OSsch_setReasonForWakeup and vd_OSsch_taskWake for each *)
(* task of the list, head first.  A head that is found ahead of the        *)
(* running task is not overtaken by it later, so one check does.           *)
WakeAll(list) ==
    LET woken == Listed(list)
        relinked == Relinked(list)[Len(list)]
    IN  /\ \A t \in woken : MayWake(t)
        /\ flags' = [t \in AllTasks |->
                       IF t \in woken
                         THEN flags[t] \ (BitsOf["queue"] \union CheckBits)
                         ELSE flags[t]]
        /\ wakeReason' = [t \in AllTasks |->
                            IF t \in woken THEN "queue" ELSE wakeReason[t]]
        /\ resource' = [t \in AllTasks |->
                          IF t \in woken THEN NoRes ELSE resource[t]]
        /\ sleepCntr' = [t \in AllTasks |->
                           IF t \in woken THEN 0 ELSE sleepCntr[t]]
        /\ wait' = relinked.wait
        /\ ready' = relinked.ready
        /\ IF list = << >> THEN UNCHANGED switchVars ELSE PreemptIfHeadChanged
        /\ UNCHANGED <<created, priority, tickVars, fault>>

(* u1_OSqueue_flushFifo; the entries themselves keep their contents.       *)
FlushFifo(q) ==
    /\ InterruptRuns
    /\ Getting(q) = {} \/ "flush_reader" \in Careless
    /\ getPtr' = [getPtr EXCEPT ![q] = 0]
    /\ putPtr' = [putPtr EXCEPT ![q] = 1]
    /\ blocked' = [blocked EXCEPT ![q] = << >>]
    /\ WakeAll(blocked[q])
    /\ UNCHANGED <<entries, calling>>

(* Mutant of BlockedTaskTimeout: the task stays on the blocked list.       *)
BlockedTaskStays(q, t) == blocked' = blocked

(* vd_OSqueue_blockedTaskTimeout, and the tick's step that calls it.       *)
BlockedTaskTimeout(q, t) ==
    blocked' = [blocked EXCEPT ![q] = Unlink(@, t)]

TickTimesOut ==
    /\ TickWakes
    /\ resource[cursor] # NoRes
    /\ BlockedTaskTimeout(resource[cursor], cursor)
    /\ UNCHANGED <<ring, calling>>

-----------------------------------------------------------------------------
(* u4_OSqueue_getNumInFIFO: what it returns.                               *)
NumInFIFO(q) ==
    IF putPtr[q] > getPtr[q]
      THEN putPtr[q] - getPtr[q]
      ELSE putPtr[q] + (QueueLength - 1 - getPtr[q])

QueueNext ==
    \/ \E q \in Resources :
         \/ GetTakes(q)
         \/ \E p \in Periods \ {0} : GetBlocks(q, p)
         \/ \E m \in Messages :
              \/ PutStores(q, m)
              \/ \E p \in Periods \ {0} : PutBlocks(q, p, m)
         \/ FlushFifo(q)
    \/ GetLooksAgain
    \/ PutLooksAgain
    \/ TickTimesOut
    \/ ApplicationStep /\ calling[current] = NoCall /\ UNCHANGED queueVars
    \/ KernelStep /\ UNCHANGED queueVars

QueueSpec == QueueInit /\ [][QueueNext]_allVars

-----------------------------------------------------------------------------
(* The messages between the two pointers, oldest first.                    *)
Count(q) == (putPtr[q] - getPtr[q] - 1) % QueueLength

Items ==
    [q \in Resources |->
       [i \in 1 .. Count(q) |-> entries[q][(getPtr[q] + i) % QueueLength]]]

Fifo == INSTANCE BoundedFifo
          WITH Queues <- Resources, Capacity <- QueueLength - 1,
               items <- Items

(* Each message that was accepted is delivered once, in order, unless it   *)
(* is flushed, and nothing else ever is: "FIFO message queues"             *)
(* (README.md:58).  It holds of one reader at a time whose queue nobody    *)
(* flushes while it sleeps, whatever puts, time-outs and interrupts come   *)
(* between the two halves of its get.  With a second reader, or a flush,   *)
(* between them it does not hold: the second half uses a position that is  *)
(* out of date (queue.c:196).                                              *)
FifoKept == Fifo!Spec

(* A task is on the blocked list of the queue its control block names and  *)
(* it called, on the wait list, most urgent first.                         *)
BlockedMatchesTCB ==
    \A q \in Resources :
        /\ SortedByPrio(blocked[q], priority) /\ IsInjective(blocked[q])
        /\ Listed(blocked[q]) = { t \in created : resource[t] = q }
        /\ Listed(blocked[q]) \subseteq Getting(q) \union Putting(q)
        /\ Listed(blocked[q]) \subseteq Listed(wait)

(* No call is forgotten: a get stays blocked on a queue with messages, or  *)
(* a put on one with room, only while another task that was woken is       *)
(* still to look again (queue.c:192, queue.c:355), and wakes it then.      *)
(* This too is about one reader at a time and no flush while it sleeps,    *)
(* and any number of writers.  Where gets and puts block on one queue it   *)
(* does not hold: the woken task may be a put that finds the queue full    *)
(* and wakes nobody.                                                       *)
NobodyForgotten ==
    \A q \in Resources :
        LET waiting == Listed(blocked[q])
            woken == (Getting(q) \union Putting(q)) \ waiting
        IN  \/ woken # {}
            \/ /\ Getting(q) \intersect waiting # {} => IsEmpty(q)
               /\ Putting(q) \intersect waiting # {} => IsFull(q)

(* u4_OSqueue_getNumInFIFO returns the "Number of entries in queue"        *)
(* (queue.c:435).                                                          *)
CountIsRight == \A q \in Resources : NumInFIFO(q) = Count(q)

=============================================================================
