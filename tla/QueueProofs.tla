---------------------------- MODULE QueueProofs -----------------------------
(***************************************************************************)
(* Theorems about Queue, for any tasks, queues, messages, ring lengths and *)
(* bounds, when each queue has one reader at a time and is not flushed     *)
(* while that reader sleeps (two of the three rules of Careless are kept). *)
(* The number of writers is not limited.  An interrupt may call the OS     *)
(* between two nodes of the tick's walk.                                   *)
(***************************************************************************)
EXTENDS Queue, SchedulerProofs

(* The rules kept.  That a taskWake is not used on a blocked task is       *)
(* QueueAssumption's part.                                                 *)
Careful ==
    /\ RulesKept
    /\ "second_reader" \notin Careless /\ "flush_reader" \notin Careless

LEMMA NoResIsNone ==
    ASSUME NEW q \in Resources
    PROVE  q # NoRes
BY ResourceAssumption

LEMMA QueueBits ==
    /\ BitsOf["queue"] = {2}
    /\ \A q \in Resources : KindOf[q] = "queue"
BY QueueAssumption DEF BitsOf

-----------------------------------------------------------------------------
(***************************************************************************)
(* The two lists while a flush wakes the blocked tasks one after another.  *)
(* Relinked is given by recursion, so it is shown first that there is such *)
(* a function, and then what its values are by looking at the least number *)
(* of tasks for which that would be wrong.                                 *)
(***************************************************************************)

RelinkedBy(f, list, n) ==
    f = [i \in 0 .. n |->
           IF i = 0
             THEN [ready |-> ready, wait |-> wait]
             ELSE [ready |-> InsertByPrio(f[i - 1].ready, list[i], priority),
                   wait |-> Unlink(f[i - 1].wait, list[i])]]

LEMMA RelinkedExists ==
    ASSUME NEW list \in Seq(AllTasks), NEW n \in 0 .. Len(list)
    PROVE  \E f : RelinkedBy(f, list, n)
<1> DEFINE T == { i \in 0 .. Len(list) : ~ \E f : RelinkedBy(f, list, i) }
<1> SUFFICES ASSUME T # {} PROVE FALSE
  OBVIOUS
<1>1. PICK k \in T : \A i \in T : k <= i
  <2>1. T \in SUBSET Nat
    OBVIOUS
  <2> HIDE DEF T
  <2> QED
    BY <2>1, LeastNatural
<1>2. CASE k = 0
  <2> DEFINE f == [i \in 0 .. 0 |-> [ready |-> ready, wait |-> wait]]
  <2>1. RelinkedBy(f, list, 0)
    BY DEF RelinkedBy
  <2> QED
    BY <1>2, <2>1
<1>3. CASE k # 0
  <2>1. k - 1 \in 0 .. Len(list) /\ k - 1 \notin T
    BY <1>1, <1>3
  <2>2. PICK f : RelinkedBy(f, list, k - 1)
    BY <2>1
  <2> DEFINE g == [i \in 0 .. k |->
                     IF i = k
                       THEN [ready |-> InsertByPrio(f[k - 1].ready, list[k],
                                                    priority),
                             wait |-> Unlink(f[k - 1].wait, list[k])]
                       ELSE f[i]]
  <2>3. \A i \in 0 .. k - 1 : g[i] = f[i]
    OBVIOUS
  <2>4. ASSUME NEW i \in 0 .. k
        PROVE  g[i] = IF i = 0
                 THEN [ready |-> ready, wait |-> wait]
                 ELSE [ready |-> InsertByPrio(g[i - 1].ready, list[i], priority),
                       wait |-> Unlink(g[i - 1].wait, list[i])]
    <3>1. CASE i = k
      BY <1>3, <2>3, <3>1
    <3>2. CASE i # k
      <4>1. i \in 0 .. k - 1 /\ (i # 0 => i - 1 \in 0 .. k - 1)
        BY <3>2
      <4> HIDE DEF g
      <4> QED
        BY <2>2, <2>3, <4>1 DEF RelinkedBy
    <3> QED
      BY <3>1, <3>2
  <2>5. RelinkedBy(g, list, k)
    <3> DEFINE h == [i \in 0 .. k |->
           IF i = 0
             THEN [ready |-> ready, wait |-> wait]
             ELSE [ready |-> InsertByPrio(g[i - 1].ready, list[i], priority),
                   wait |-> Unlink(g[i - 1].wait, list[i])]]
    <3>1. /\ g = [i \in 0 .. k |-> g[i]]
          /\ \A i \in 0 .. k : g[i] = h[i]
      BY <2>4
    <3>2. g = h
      BY <3>1
    <3> HIDE DEF g
    <3> QED
      BY <3>2 DEF RelinkedBy
  <2> QED
    BY <2>5
<1> QED
  BY <1>2, <1>3

LEMMA RelinkedIs ==
    ASSUME NEW list \in Seq(AllTasks)
    PROVE  /\ Relinked(list)[0] = [ready |-> ready, wait |-> wait]
           /\ \A n \in 1 .. Len(list) :
                 /\ Relinked(list)[n].ready =
                      InsertByPrio(Relinked(list)[n - 1].ready, list[n], priority)
                 /\ Relinked(list)[n].wait =
                      Unlink(Relinked(list)[n - 1].wait, list[n])
<1>1. \E f : RelinkedBy(f, list, Len(list))
  BY RelinkedExists
<1>2. RelinkedBy(Relinked(list), list, Len(list))
  BY <1>1 DEF RelinkedBy, Relinked
<1> DEFINE f == Relinked(list)
<1> HIDE DEF f
<1>3. \A n \in 0 .. Len(list) :
         f[n] = IF n = 0
                  THEN [ready |-> ready, wait |-> wait]
                  ELSE [ready |-> InsertByPrio(f[n - 1].ready, list[n], priority),
                        wait |-> Unlink(f[n - 1].wait, list[n])]
  <2>1. RelinkedBy(f, list, Len(list))
    BY <1>2 DEF f
  <2> QED
    BY <2>1, Zenon DEF RelinkedBy
<1>4. /\ 0 \in 0 .. Len(list)
      /\ \A n \in 1 .. Len(list) : n \in 0 .. Len(list) /\ n # 0
  OBVIOUS
<1>5. ASSUME NEW n \in 1 .. Len(list)
      PROVE  /\ f[n].ready = InsertByPrio(f[n - 1].ready, list[n], priority)
             /\ f[n].wait = Unlink(f[n - 1].wait, list[n])
  <2>1. f[n] = [ready |-> InsertByPrio(f[n - 1].ready, list[n], priority),
                wait |-> Unlink(f[n - 1].wait, list[n])]
    BY <1>3, <1>4, Zenon
  <2> QED
    BY <2>1
<1> QED
  BY <1>3, <1>4, <1>5, Zenon DEF f

(* The first n tasks of list.                                              *)
First(list, n) == { list[i] : i \in 1 .. n }

LEMMA FirstOneMore ==
    ASSUME NEW list \in Seq(AllTasks), IsInjective(list),
           NEW n \in 1 .. Len(list)
    PROVE  /\ First(list, n) = First(list, n - 1) \union {list[n]}
           /\ list[n] \in Listed(list) \ First(list, n - 1)
<1>1. 1 .. n = (1 .. n - 1) \union {n}
  OBVIOUS
<1>2. First(list, n) = First(list, n - 1) \union {list[n]}
  BY <1>1 DEF First
<1>3. \A i \in 1 .. n - 1 : list[i] # list[n]
  BY DEF IsInjective
<1>4. list[n] \notin First(list, n - 1)
  BY <1>3 DEF First
<1> QED
  BY <1>2, <1>4, ListedFacts

LEMMA RelinkedLists ==
    ASSUME RuleInv, fault = "none",
           NEW list \in Seq(AllTasks), IsInjective(list),
           Listed(list) \subseteq Listed(wait), NEW n \in 0 .. Len(list)
    PROVE  Linked(First(list, n), Relinked(list)[n].ready,
                  Relinked(list)[n].wait)
<1> DEFINE J(i) == Linked(First(list, i), Relinked(list)[i].ready,
                          Relinked(list)[i].wait)
           T == { i \in 0 .. Len(list) : ~ J(i) }
<1> SUFFICES ASSUME T # {} PROVE FALSE
  OBVIOUS
<1>1. PICK k \in T : \A i \in T : k <= i
  <2>1. T \in SUBSET Nat
    OBVIOUS
  <2> HIDE DEF T
  <2> QED
    BY <2>1, LeastNatural
<1>2. CASE k = 0
  <2>1. Relinked(list)[0].ready = ready /\ Relinked(list)[0].wait = wait
    BY RelinkedIs
  <2>2. First(list, 0) = {}
    BY DEF First
  <2>3. J(0)
    BY <2>1, <2>2, LinkedNone
  <2> QED
    BY <1>2, <2>3
<1>3. CASE k # 0
  <2>1. k \in 1 .. Len(list) /\ k - 1 \in 0 .. Len(list) /\ k - 1 \notin T
    BY <1>1, <1>3
  <2>2. J(k - 1)
    BY <2>1
  <2>3. /\ Relinked(list)[k].ready =
             InsertByPrio(Relinked(list)[k - 1].ready, list[k], priority)
        /\ Relinked(list)[k].wait = Unlink(Relinked(list)[k - 1].wait, list[k])
    BY <2>1, RelinkedIs
  <2>4. /\ First(list, k) = First(list, k - 1) \union {list[k]}
        /\ list[k] \in Listed(wait) \ First(list, k - 1)
    BY <2>1, FirstOneMore
  <2>5. J(k)
    BY <2>2, <2>3, <2>4, LinkedOneMore
  <2> QED
    BY <2>5
<1> QED
  BY <1>2, <1>3

(* WakeAll wakes the tasks of list and clears the bit of a queue.          *)
LEMMA WakeAllIsGroup ==
    ASSUME RuleInv, NEW list \in Seq(AllTasks), IsInjective(list),
           WakeAll(list), fault = "none"
    PROVE  WakesGroup(Listed(list), BitsOf["queue"])
<1>1. \A t \in Listed(list) :
         /\ t \in Listed(wait) /\ t \in created \ {BG}
         /\ pend /\ t = current => "late_wake" \in Relaxed
  BY DEF WakeAll, MayWake
<1>2. /\ ready' = Relinked(list)[Len(list)].ready
      /\ wait' = Relinked(list)[Len(list)].wait
  BY DEF WakeAll
<1>3. First(list, Len(list)) = Listed(list) /\ Len(list) \in 0 .. Len(list)
  BY DEF First, Listed
<1>4. Linked(Listed(list), ready', wait')
  BY <1>1, <1>2, <1>3, RelinkedLists
<1>5. wakeReason' \in [AllTasks -> Reasons]
  <2>1. wakeReason' = [t \in AllTasks |->
                         IF t \in Listed(list) THEN "queue" ELSE wakeReason[t]]
    BY DEF WakeAll
  <2> QED
    BY <2>1 DEF RuleInv, Inv, TypeOK, TypeOfTCBs, Reasons, Kinds
<1>6. list = << >> <=> Listed(list) = {}
  <2>1. CASE list = << >>
    BY <2>1 DEF Listed
  <2>2. CASE list # << >>
    <3>1. Head(list) \in Listed(list)
      BY <2>2, HeadListed
    <3> QED
      BY <2>2, <3>1
  <2> QED
    BY <2>1, <2>2
<1>7. IF Listed(list) = {} THEN UNCHANGED switchVars ELSE PreemptIfHeadChanged
  BY <1>6 DEF WakeAll
<1> QED
  BY <1>1, <1>4, <1>5, <1>7, Zenon DEF WakeAll, WakesGroup

LEMMA WakeAllFlags ==
    ASSUME NEW list, WakeAll(list), NEW t \in AllTasks
    PROVE  IF t \in Listed(list)
             THEN /\ flags'[t] = flags[t] \ (BitsOf["queue"] \union CheckBits)
                  /\ resource'[t] = NoRes /\ sleepCntr'[t] = 0
             ELSE /\ flags'[t] = flags[t] /\ resource'[t] = resource[t]
                  /\ sleepCntr'[t] = sleepCntr[t]
<1>1. /\ flags' = [x \in AllTasks |->
                     IF x \in Listed(list)
                       THEN flags[x] \ (BitsOf["queue"] \union CheckBits)
                       ELSE flags[x]]
      /\ resource' = [x \in AllTasks |->
                        IF x \in Listed(list) THEN NoRes ELSE resource[x]]
      /\ sleepCntr' = [x \in AllTasks |->
                         IF x \in Listed(list) THEN 0 ELSE sleepCntr[x]]
  BY Zenon DEF WakeAll
<1> QED
  BY <1>1

-----------------------------------------------------------------------------
(***************************************************************************)
(* The strengthening.  BlockedInv is about the blocked lists; that a       *)
(* blocked task is on the wait list is the scheduler's part (RuleInv and   *)
(* HeldInv).  ReadersInv is what the position that a get remembers rests   *)
(* on: no other get is under way, so getPtr has not moved meanwhile.       *)
(***************************************************************************)

Gets == [op : {"get"}, queue : Resources, at : Indices]

Puts == [op : {"put"}, queue : Resources, message : Messages]

Calls == {NoCall} \union Gets \union Puts

RingTypes ==
    /\ entries \in [Resources -> [Indices -> Messages \union {Nothing}]]
    /\ getPtr \in [Resources -> Indices]
    /\ putPtr \in [Resources -> Indices]
    /\ calling \in [AllTasks -> Calls]

BlockedInv ==
    /\ blocked \in [Resources -> Seq(AllTasks)]
    /\ \A q \in Resources : IsInjective(blocked[q])
    /\ \A q \in Resources : SortedByPrio(blocked[q], priority)
    /\ \A q \in Resources, t \in AllTasks :
          t \in Listed(blocked[q]) <=> resource[t] = q

CallsMatch ==
    \A t \in AllTasks :
        resource[t] # NoRes =>
            /\ t \in Tasks
            /\ calling[t] \in Gets \union Puts
            /\ calling[t].queue = resource[t]

ReadersInv ==
    /\ \A q \in Resources : \A t, u \in Getting(q) : t = u
    /\ \A t \in Tasks :
          calling[t].op = "get" =>
              calling[t].at = After(getPtr[calling[t].queue])

QueueInv ==
    RuleInv /\ HeldInv /\ RingTypes /\ BlockedInv /\ CallsMatch /\ ReadersInv

LEMMA CallShapes ==
    ASSUME NEW c \in Calls
    PROVE  \/ c = NoCall /\ c.op = "none"
           \/ /\ c \in Gets /\ c.op = "get"
              /\ c.queue \in Resources /\ c.at \in Indices
           \/ /\ c \in Puts /\ c.op = "put"
              /\ c.queue \in Resources /\ c.message \in Messages
BY DEF Calls, NoCall, Gets, Puts

LEMMA AfterFacts ==
    ASSUME NEW i \in Indices
    PROVE  /\ After(i) \in Indices
           /\ After(i) = IF i = QueueLength - 1 THEN 0 ELSE i + 1
<1>1. QueueLength \in Nat \ {0, 1}
  BY QueueAssumption
<1>2. CASE i = QueueLength - 1
  BY <1>1, <1>2 DEF After, Indices
<1>3. CASE i # QueueLength - 1
  <2>1. i + 1 \in 0 .. QueueLength - 1
    BY <1>1, <1>3 DEF Indices
  <2>2. (i + 1) % QueueLength = i + 1
    BY <1>1, <2>1
  <2> QED
    BY <1>3, <2>1, <2>2 DEF After, Indices
<1> QED
  BY <1>2, <1>3

-----------------------------------------------------------------------------
(* What queue.c does to the scheduler is what the scheduler allows; a      *)
(* flush, which wakes several tasks, is the one step that is not a step of *)
(* Scheduler.                                                              *)
LEMMA UnblockIsNext ==
    ASSUME Inv, NEW q \in Resources, UnblockWaitingTask(q)
    PROVE  [Next]_vars
<1>1. CASE blocked[q] = << >>
  BY <1>1 DEF UnblockWaitingTask
<1>2. CASE blocked[q] # << >>
  <2>1. WakeFromResource(Head(blocked[q]))
    BY <1>2 DEF UnblockWaitingTask
  <2>2. Head(blocked[q]) \in Tasks
    BY <2>1 DEF WakeFromResource, MayWake, AllTasks, Inv, TypeOK, TypeOfLists
  <2> QED
    BY <2>1, <2>2 DEF Next, NonTick
<1> QED
  BY <1>1, <1>2

(* The running task and the call it is in.                                 *)
LEMMA RunnerHoldsNothing ==
    ASSUME RuleInv, HeldInv, TaskRuns
    PROVE  /\ current \in Tasks /\ current \in AllTasks
           /\ resource[current] = NoRes
BY RunningTask, ReadyHoldsNothing DEF AllTasks

LEMMA RunnerCalls ==
    ASSUME QueueInv, TaskRuns
    PROVE  /\ calling[current].op = "get" =>
                 /\ calling[current].queue \in Resources
                 /\ calling[current].at \in Indices
                 /\ calling[current].at = After(getPtr[calling[current].queue])
                 /\ current \in Getting(calling[current].queue)
           /\ calling[current].op = "put" =>
                 /\ calling[current].queue \in Resources
                 /\ calling[current].message \in Messages
                 /\ current \in Putting(calling[current].queue)
<1>1. current \in Tasks /\ current \in AllTasks
  BY RunnerHoldsNothing DEF QueueInv
<1>2. calling[current] \in Calls
  BY <1>1 DEF QueueInv, RingTypes
<1> QED
  BY <1>1, <1>2, CallShapes DEF QueueInv, ReadersInv, Getting, Putting

LEMMA QueueStepIsNext ==
    ASSUME QueueInv, [QueueNext]_allVars
    PROVE  \/ [Next]_vars
           \/ \E q \in Resources : FlushFifo(q)
<1> USE DEF QueueInv, RuleInv
<1>1. ASSUME NEW q \in Resources, GetTakes(q)
      PROVE  [Next]_vars
  BY <1>1, UnblockIsNext DEF GetTakes, Dequeue
<1>2. ASSUME NEW q \in Resources, NEW p \in Periods \ {0},
             \/ GetBlocks(q, p)
             \/ \E m \in Messages : PutBlocks(q, p, m)
      PROVE  [Next]_vars
  BY <1>2 DEF GetBlocks, PutBlocks, Next, NonTick
<1>3. ASSUME NEW q \in Resources, NEW m \in Messages, PutStores(q, m)
      PROVE  [Next]_vars
  BY <1>3, UnblockIsNext DEF PutStores, Enqueue
<1>4. CASE GetLooksAgain
  <2>1. TaskRuns /\ calling[current].op = "get"
    BY <1>4 DEF GetLooksAgain
  <2>2. calling[current].queue \in Resources
    BY <2>1, RunnerCalls
  <2>3. \/ UNCHANGED vars
        \/ UnblockWaitingTask(calling[current].queue)
    BY <1>4 DEF GetLooksAgain, Dequeue
  <2> QED
    BY <2>2, <2>3, UnblockIsNext
<1>5. CASE PutLooksAgain
  <2>1. TaskRuns /\ calling[current].op = "put"
    BY <1>5 DEF PutLooksAgain
  <2>2. calling[current].queue \in Resources
    BY <2>1, RunnerCalls
  <2>3. \/ UNCHANGED vars
        \/ UnblockWaitingTask(calling[current].queue)
    BY <1>5 DEF PutLooksAgain, Enqueue
  <2> QED
    BY <2>2, <2>3, UnblockIsNext
<1>6. CASE TickTimesOut
  BY <1>6 DEF TickTimesOut, Next, NonTick, TickVisit
<1>7. CASE ApplicationStep
  BY <1>7 DEF ApplicationStep, Next, NonTick
<1>8. CASE KernelStep
  BY <1>8 DEF KernelStep, Next, NonTick, TickVisit
<1>9. CASE UNCHANGED allVars
  BY <1>9 DEF allVars
<1> QED
  BY <1>1, <1>2, <1>3, <1>4, <1>5, <1>6, <1>7, <1>8, <1>9 DEF QueueNext

LEMMA FlushScheduler ==
    ASSUME QueueInv, RulesKept, NEW q \in Resources, FlushFifo(q)
    PROVE  RuleInv' /\ HeldInv'
<1>1. blocked[q] \in Seq(AllTasks) /\ IsInjective(blocked[q])
  BY DEF QueueInv, BlockedInv
<1>2. WakeAll(blocked[q]) /\ InterruptRuns /\ fault = "none"
  BY DEF FlushFifo, InterruptRuns
<1>3. WakesGroup(Listed(blocked[q]), BitsOf["queue"])
  BY <1>1, <1>2, WakeAllIsGroup DEF QueueInv
<1>4. ASSUME NEW t \in Listed(blocked[q])
      PROVE  HeldBits(t) \subseteq BitsOf["queue"]
  <2>1. t \in AllTasks /\ resource[t] = q
    BY <1>1, ListedFacts DEF QueueInv, BlockedInv
  <2> QED
    BY <2>1, NoResIsNone, QueueBits DEF QueueInv, HeldInv
<1> QED
  BY <1>2, <1>3, <1>4, GroupRules, GroupHeld DEF QueueInv

LEMMA SchedulerPart ==
    ASSUME QueueInv, RulesKept, [QueueNext]_allVars
    PROVE  RuleInv' /\ HeldInv'
<1>1. "wake_blocked" \notin Relaxed
  BY QueueAssumption
<1> QED
  BY <1>1, QueueStepIsNext, NextRules, HeldNext, FlushScheduler DEF QueueInv

-----------------------------------------------------------------------------
(* How a blocked list may change: not at all, by a task that joins or by   *)
(* one that leaves.                                                        *)

Joined(q, t) ==
    /\ resource[t] = NoRes
    /\ blocked' = [blocked EXCEPT ![q] = InsertByPrio(@, t, priority)]
    /\ CanInsert(blocked[q], t, priority)
    /\ resource' = [resource EXCEPT ![t] = q]
    /\ priority' = priority

Left(q, t) ==
    /\ t \in Listed(blocked[q])
    /\ blocked' = [blocked EXCEPT ![q] = Unlink(@, t)]
    /\ resource' = [resource EXCEPT ![t] = NoRes]
    /\ priority' = priority

LEMMA ListsSame ==
    ASSUME RuleInv, HeldInv, BlockedInv, UNCHANGED <<blocked, resource>>,
           \A t \in created : priority'[t] = priority[t]
    PROVE  BlockedInv'
<1>1. ASSUME NEW q \in Resources
      PROVE  SortedByPrio(blocked[q], priority')
  <2>1. blocked[q] \in Seq(AllTasks) /\ SortedByPrio(blocked[q], priority)
    BY DEF BlockedInv
  <2>2. ASSUME NEW t \in Listed(blocked[q])
        PROVE  priority'[t] = priority[t]
    <3>1. t \in AllTasks /\ resource[t] # NoRes
      BY <2>1, ListedFacts, NoResIsNone DEF BlockedInv
    <3>2. SLEEP \in flags[t]
      BY <3>1 DEF HeldInv
    <3>3. t \in created
      BY <3>1, <3>2 DEF RuleInv, ListRules, FlagsInv
    <3> QED
      BY <3>3
  <2> QED
    BY <2>1, <2>2, SortedSame
<1> QED
  BY <1>1 DEF BlockedInv

LEMMA ListsJoined ==
    ASSUME RuleInv, BlockedInv, NEW q \in Resources, NEW t \in AllTasks,
           Joined(q, t)
    PROVE  BlockedInv'
<1> DEFINE s == InsertByPrio(blocked[q], t, priority)
<1>1. /\ blocked[q] \in Seq(AllTasks) /\ IsInjective(blocked[q])
      /\ SortedByPrio(blocked[q], priority)
      /\ t \notin Listed(blocked[q])
      /\ priority \in [AllTasks -> Nat]
  BY NoResIsNone
     DEF BlockedInv, Joined, RuleInv, Inv, TypeOK, TypeOfTCBs
<1>2. /\ s \in Seq(AllTasks) /\ IsInjective(s)
      /\ Listed(s) = Listed(blocked[q]) \union {t}
      /\ SortedByPrio(s, priority)
  BY <1>1, JoinFacts DEF Joined
<1>3. blocked' = [blocked EXCEPT ![q] = s]
  BY DEF Joined
<1> HIDE DEF s
<1>4. /\ blocked'[q] = s
      /\ \A r \in Resources \ {q} : blocked'[r] = blocked[r]
  BY <1>3 DEF BlockedInv
<1>5. /\ resource'[t] = q /\ resource[t] = NoRes
      /\ \A x \in AllTasks \ {t} : resource'[x] = resource[x]
      /\ priority' = priority
  BY DEF Joined, RuleInv, Inv, TypeOK, TypeOfTCBs
<1>6. ASSUME NEW r \in Resources, NEW x \in AllTasks
      PROVE  x \in Listed(blocked'[r]) <=> resource'[x] = r
  <2>1. x \in Listed(blocked[r]) <=> resource[x] = r
    BY DEF BlockedInv
  <2> QED
    BY <1>2, <1>4, <1>5, <2>1, NoResIsNone
<1>7. blocked' \in [Resources -> Seq(AllTasks)]
  BY <1>2, <1>3 DEF BlockedInv
<1>8. \A r \in Resources :
         IsInjective(blocked'[r]) /\ SortedByPrio(blocked'[r], priority')
  BY <1>2, <1>4, <1>5 DEF BlockedInv
<1> QED
  BY <1>6, <1>7, <1>8 DEF BlockedInv

LEMMA ListsLeft ==
    ASSUME RuleInv, BlockedInv, NEW q \in Resources, NEW t, Left(q, t)
    PROVE  /\ BlockedInv'
           /\ t \in AllTasks /\ resource[t] = q
           /\ Listed(blocked'[q]) = Listed(blocked[q]) \ {t}
           /\ \A r \in Resources \ {q} : blocked'[r] = blocked[r]
<1> DEFINE s == Unlink(blocked[q], t)
<1>1. /\ blocked[q] \in Seq(AllTasks) /\ IsInjective(blocked[q])
      /\ SortedByPrio(blocked[q], priority)
      /\ t \in Listed(blocked[q])
  BY DEF BlockedInv, Left
<1>2. t \in AllTasks /\ resource[t] = q
  BY <1>1, ListedFacts DEF BlockedInv
<1>3. /\ s \in Seq(AllTasks) /\ IsInjective(s)
      /\ Listed(s) = Listed(blocked[q]) \ {t}
      /\ SortedByPrio(s, priority)
  BY <1>1, UnlinkFacts, SortedUnlink
<1>4. blocked' = [blocked EXCEPT ![q] = s]
  BY DEF Left
<1> HIDE DEF s
<1>5. /\ blocked'[q] = s
      /\ \A r \in Resources \ {q} : blocked'[r] = blocked[r]
  BY <1>4 DEF BlockedInv
<1>6. /\ resource'[t] = NoRes
      /\ \A x \in AllTasks \ {t} : resource'[x] = resource[x]
      /\ priority' = priority
  BY <1>2 DEF Left, RuleInv, Inv, TypeOK, TypeOfTCBs
<1>7. ASSUME NEW r \in Resources, NEW x \in AllTasks
      PROVE  x \in Listed(blocked'[r]) <=> resource'[x] = r
  <2>1. x \in Listed(blocked[r]) <=> resource[x] = r
    BY DEF BlockedInv
  <2> QED
    BY <1>2, <1>3, <1>5, <1>6, <2>1, NoResIsNone
<1>8. blocked' \in [Resources -> Seq(AllTasks)]
  BY <1>3, <1>4 DEF BlockedInv
<1>9. \A r \in Resources :
         IsInjective(blocked'[r]) /\ SortedByPrio(blocked'[r], priority')
  BY <1>3, <1>5, <1>6 DEF BlockedInv
<1> QED
  BY <1>2, <1>3, <1>5, <1>7, <1>8, <1>9 DEF BlockedInv

LEMMA ListsFlushed ==
    ASSUME RuleInv, BlockedInv, NEW q \in Resources, WakeAll(blocked[q]),
           blocked' = [blocked EXCEPT ![q] = << >>]
    PROVE  BlockedInv'
<1>1. /\ blocked'[q] = << >>
      /\ \A r \in Resources \ {q} : blocked'[r] = blocked[r]
  BY DEF BlockedInv
<1>2. \A t \in AllTasks :
         IF t \in Listed(blocked[q]) THEN resource'[t] = NoRes
                                     ELSE resource'[t] = resource[t]
  BY WakeAllFlags DEF RuleInv
<1>3. Listed(<< >>) = {}
  BY DEF Listed
<1>4. ASSUME NEW r \in Resources, NEW x \in AllTasks
      PROVE  x \in Listed(blocked'[r]) <=> resource'[x] = r
  <2>1. /\ x \in Listed(blocked[r]) <=> resource[x] = r
        /\ x \in Listed(blocked[q]) <=> resource[x] = q
    BY DEF BlockedInv
  <2> QED
    BY <1>1, <1>2, <1>3, <2>1, NoResIsNone
<1>5. << >> \in Seq(AllTasks) /\ IsInjective(<< >>)
  BY DEF IsInjective
<1>6. SortedByPrio(<< >>, priority)
  BY DEF SortedByPrio
<1>7. priority' = priority
  BY DEF WakeAll
<1>8. blocked' \in [Resources -> Seq(AllTasks)]
  BY <1>5 DEF BlockedInv
<1>9. \A r \in Resources :
         IsInjective(blocked'[r]) /\ SortedByPrio(blocked'[r], priority')
  BY <1>1, <1>5, <1>6, <1>7 DEF BlockedInv
<1> QED
  BY <1>4, <1>8, <1>9 DEF BlockedInv

(* The head of a list is unlinked as any task is.                          *)
LEMMA TailIsUnlink ==
    ASSUME NEW s \in Seq(AllTasks), IsInjective(s), s # << >>
    PROVE  Tail(s) = Unlink(s, Head(s))
<1>1. 1 \in 1 .. Len(s) /\ s[1] = Head(s)
  OBVIOUS
<1>2. Position(s, Head(s)) = 1
  BY <1>1, PositionIs
<1>3. /\ RemoveAt(s, 1) \in Seq(AllTasks)
      /\ Len(RemoveAt(s, 1)) = Len(s) - 1
      /\ \A j \in 1 .. Len(s) - 1 : RemoveAt(s, 1)[j] = s[j + 1]
  BY <1>1, RemoveAtIndex
<1>4. /\ Tail(s) \in Seq(AllTasks)
      /\ Len(Tail(s)) = Len(s) - 1
      /\ \A j \in 1 .. Len(s) - 1 : Tail(s)[j] = s[j + 1]
  OBVIOUS
<1>5. Tail(s) = RemoveAt(s, 1)
  BY <1>3, <1>4
<1> QED
  BY <1>2, <1>5 DEF Unlink

LEMMA UnblockLists ==
    ASSUME RuleInv, BlockedInv, NEW q \in Resources, UnblockWaitingTask(q)
    PROVE  IF blocked[q] = << >>
             THEN UNCHANGED <<blocked, resource, priority>>
             ELSE Left(q, Head(blocked[q])) /\ Head(blocked[q]) \in Tasks
<1>1. CASE blocked[q] = << >>
  BY <1>1 DEF UnblockWaitingTask, vars
<1>2. CASE blocked[q] # << >>
  <2>1. /\ blocked' = [blocked EXCEPT ![q] = Tail(blocked[q])]
        /\ WakeFromResource(Head(blocked[q]))
    BY <1>2 DEF UnblockWaitingTask
  <2>2. blocked[q] \in Seq(AllTasks) /\ IsInjective(blocked[q])
    BY DEF BlockedInv
  <2>3. /\ Head(blocked[q]) \in Listed(blocked[q])
        /\ Tail(blocked[q]) = Unlink(blocked[q], Head(blocked[q]))
    BY <1>2, <2>2, TailIsUnlink, HeadListed
  <2>4. Head(blocked[q]) \in Tasks
    BY <2>1, ListsTyped
       DEF WakeFromResource, MayWake, RuleInv, AllTasks
  <2> QED
    BY <1>2, <2>1, <2>3, <2>4 DEF Left, WakeFromResource
<1> QED
  BY <1>1, <1>2

(* A time-out finds its task on the list it searches.                      *)
LEMMA TimeOutLists ==
    ASSUME QueueInv, TickTimesOut
    PROVE  /\ resource[cursor] \in Resources /\ cursor \in AllTasks
           /\ Left(resource[cursor], cursor)
<1>1. /\ cursor \in Listed(wait) /\ resource[cursor] # NoRes
      /\ blocked' = [blocked EXCEPT ![resource[cursor]] = Unlink(@, cursor)]
      /\ priority' = priority
      /\ resource' = IF HeldBits(cursor) = {}
                       THEN resource ELSE [resource EXCEPT ![cursor] = NoRes]
  BY DEF TickTimesOut, TickWakes, TaskSleepTimeoutHandler, BlockedTaskTimeout
<1>2. cursor \in AllTasks
  BY <1>1, ListsKnown DEF QueueInv, RuleInv, ListRules
<1>3. resource[cursor] \in Resources
  BY <1>1, <1>2 DEF QueueInv, RuleInv, Inv, TypeOK, TypeOfTCBs
<1>4. HeldBits(cursor) # {}
  BY <1>2, <1>3, NoResIsNone, BitsOfKind DEF QueueInv, HeldInv
<1>5. cursor \in Listed(blocked[resource[cursor]])
  BY <1>2, <1>3 DEF QueueInv, BlockedInv
<1> QED
  BY <1>1, <1>2, <1>3, <1>4, <1>5 DEF Left

(* A task inside neither call, or an interrupt, concerns no blocked list.  *)
LEMMA AloofLists ==
    ASSUME Inv, \/ ApplicationStep /\ UNCHANGED queueVars
                \/ KernelStep /\ UNCHANGED queueVars
                \/ UNCHANGED allVars
    PROVE  /\ UNCHANGED <<queueVars, resource>>
           /\ \A t \in created : priority'[t] = priority[t]
<1>1. CASE ApplicationStep /\ UNCHANGED queueVars
  BY <1>1 DEF ApplicationStep, TaskSleep, TaskSleepSetFreq, TaskSuspend
<1>2. ASSUME NEW t \in Tasks, CreateTask(t), UNCHANGED queueVars
      PROVE  /\ UNCHANGED <<queueVars, resource>>
             /\ \A x \in created : priority'[x] = priority[x]
  BY <1>2, ListsTyped DEF CreateTask, Inv, TypeOK, TypeOfTCBs
<1>3. ASSUME NEW t \in Tasks, TaskWake(t), resource[t] = NoRes
      PROVE  UNCHANGED <<resource, priority>>
  BY <1>3 DEF TaskWake
<1>4. ASSUME TickWakes, resource[cursor] = NoRes
      PROVE  UNCHANGED <<resource, priority>>
  <2>1. cursor \in AllTasks
    BY <1>4, ListsTyped DEF TickWakes
  <2>2. resource' = IF HeldBits(cursor) = {} THEN resource
                      ELSE [resource EXCEPT ![cursor] = NoRes]
    BY <1>4 DEF TickWakes, TaskSleepTimeoutHandler
  <2>3. [resource EXCEPT ![cursor] = NoRes] = resource
    BY <1>4, <2>1 DEF Inv, TypeOK, TypeOfTCBs
  <2> QED
    BY <1>4, <2>2, <2>3 DEF TickWakes
<1>5. CASE KernelStep /\ UNCHANGED queueVars
  BY <1>2, <1>3, <1>4, <1>5
     DEF KernelStep, Start, Dispatch, WrongListUnlinked, TickStart,
         TickMeetsSuspended, TickCountsDown, TickMislinks, TickEnd
<1>6. CASE UNCHANGED allVars
  BY <1>6 DEF allVars, vars
<1> QED
  BY <1>1, <1>5, <1>6

-----------------------------------------------------------------------------
(* Every step preserves the strengthening.                                 *)

LEMMA CallsKept ==
    ASSUME CallsMatch,
           \A t \in AllTasks :
              resource'[t] # NoRes =>
                 resource'[t] = resource[t] /\ calling'[t] = calling[t]
    PROVE  CallsMatch'
BY DEF CallsMatch

LEMMA ReadersKept ==
    ASSUME RingTypes, ReadersInv,
           \A t \in Tasks :
              calling'[t].op = "get" =>
                 /\ calling'[t] = calling[t]
                 /\ getPtr'[calling[t].queue] = getPtr[calling[t].queue]
    PROVE  ReadersInv'
<1>1. \A q \in Resources : Getting(q)' \subseteq Getting(q)
  BY DEF Getting
<1>2. \A t \in Tasks :
         calling'[t].op = "get" =>
            calling'[t].at = After(getPtr'[calling'[t].queue])
  BY DEF ReadersInv
<1> QED
  BY <1>1, <1>2 DEF ReadersInv, After

(* Whether a task leaves a list or not, the calls of the others stand.     *)
LEMMA LeftCalls ==
    ASSUME QueueInv, calling' = calling, BlockedInv',
           \/ UNCHANGED resource
           \/ \E q, t : Left(q, t)
    PROVE  CallsMatch'
<1>1. \A t \in AllTasks :
         resource'[t] # NoRes => resource'[t] = resource[t]
  BY DEF Left, QueueInv, RuleInv, Inv, TypeOK, TypeOfTCBs
<1> QED
  BY <1>1, CallsKept DEF QueueInv

(* The lists and the calls after vd_queue_unblockWaitingTasks.             *)
LEMMA UnblockPart ==
    ASSUME QueueInv, NEW q \in Resources, UnblockWaitingTask(q)
    PROVE  /\ BlockedInv'
           /\ \A t \in AllTasks : resource'[t] \in {resource[t], NoRes}
<1>1. CASE blocked[q] = << >>
  <2>1. UNCHANGED <<blocked, resource, priority>>
    BY <1>1, UnblockLists DEF QueueInv
  <2> QED
    BY <2>1, ListsSame DEF QueueInv
<1>2. CASE blocked[q] # << >>
  <2>1. Left(q, Head(blocked[q]))
    BY <1>2, UnblockLists DEF QueueInv
  <2> QED
    BY <2>1, ListsLeft
       DEF QueueInv, Left, RuleInv, Inv, TypeOK, TypeOfTCBs
<1> QED
  BY <1>1, <1>2

LEMMA DequeuePart ==
    ASSUME QueueInv, NEW q \in Resources, NEW at \in Indices, Dequeue(q, at)
    PROVE  /\ BlockedInv'
           /\ \A t \in AllTasks : resource'[t] \in {resource[t], NoRes}
           /\ entries' \in [Resources -> [Indices -> Messages \union {Nothing}]]
           /\ getPtr' \in [Resources -> Indices]
           /\ \A r \in Resources \ {q} : getPtr'[r] = getPtr[r]
           /\ putPtr' = putPtr
<1>1. /\ getPtr' = [getPtr EXCEPT ![q] = at]
      /\ entries' = [entries EXCEPT ![q] = [entries[q] EXCEPT ![at] = Nothing]]
      /\ putPtr' = putPtr /\ UnblockWaitingTask(q)
  BY DEF Dequeue
<1> QED
  BY <1>1, UnblockPart DEF QueueInv, RingTypes

LEMMA EnqueuePart ==
    ASSUME QueueInv, NEW q \in Resources, NEW m \in Messages, Enqueue(q, m)
    PROVE  /\ BlockedInv'
           /\ \A t \in AllTasks : resource'[t] \in {resource[t], NoRes}
           /\ entries' \in [Resources -> [Indices -> Messages \union {Nothing}]]
           /\ putPtr' \in [Resources -> Indices]
           /\ getPtr' = getPtr
<1>1. /\ putPtr' = [putPtr EXCEPT ![q] = After(putPtr[q])]
      /\ entries' = [entries EXCEPT ![q] = [entries[q] EXCEPT ![putPtr[q]] = m]]
      /\ getPtr' = getPtr /\ UnblockWaitingTask(q)
  BY DEF Enqueue
<1>2. putPtr[q] \in Indices /\ After(putPtr[q]) \in Indices
  BY AfterFacts DEF QueueInv, RingTypes
<1> QED
  BY <1>1, <1>2, UnblockPart DEF QueueInv, RingTypes

LEMMA GetTakesQueue ==
    ASSUME QueueInv, Careful, RuleInv' /\ HeldInv',
           NEW q \in Resources, GetTakes(q)
    PROVE  QueueInv'
<1>1. /\ Getting(q) = {} /\ Dequeue(q, After(getPtr[q]))
      /\ calling' = calling
  BY DEF GetTakes, SoleReader, Careful
<1>2. After(getPtr[q]) \in Indices
  BY AfterFacts DEF QueueInv, RingTypes
<1>3. /\ BlockedInv'
      /\ \A t \in AllTasks : resource'[t] \in {resource[t], NoRes}
      /\ entries' \in [Resources -> [Indices -> Messages \union {Nothing}]]
      /\ getPtr' \in [Resources -> Indices]
      /\ \A r \in Resources \ {q} : getPtr'[r] = getPtr[r]
      /\ putPtr' = putPtr
  BY <1>1, <1>2, DequeuePart
<1>4. RingTypes'
  BY <1>1, <1>3 DEF QueueInv, RingTypes
<1>5. CallsMatch'
  BY <1>1, <1>3, CallsKept DEF QueueInv
<1>6. ASSUME NEW t \in Tasks, calling[t].op = "get"
      PROVE  getPtr'[calling[t].queue] = getPtr[calling[t].queue]
  <2>1. calling[t].queue \in Resources
    BY <1>6, CallShapes DEF QueueInv, RingTypes, AllTasks
  <2>2. calling[t].queue # q
    BY <1>1, <1>6 DEF Getting
  <2> QED
    BY <1>3, <2>1, <2>2
<1>7. ReadersInv'
  BY <1>1, <1>6, ReadersKept DEF QueueInv
<1> QED
  BY <1>3, <1>4, <1>5, <1>7 DEF QueueInv

LEMMA PutStoresQueue ==
    ASSUME QueueInv, RuleInv' /\ HeldInv',
           NEW q \in Resources, NEW m \in Messages, PutStores(q, m)
    PROVE  QueueInv'
<1>1. Enqueue(q, m) /\ calling' = calling
  BY DEF PutStores
<1>2. /\ BlockedInv'
      /\ \A t \in AllTasks : resource'[t] \in {resource[t], NoRes}
      /\ entries' \in [Resources -> [Indices -> Messages \union {Nothing}]]
      /\ putPtr' \in [Resources -> Indices]
      /\ getPtr' = getPtr
  BY <1>1, EnqueuePart
<1>3. RingTypes'
  BY <1>1, <1>2 DEF QueueInv, RingTypes
<1>4. CallsMatch'
  BY <1>1, <1>2, CallsKept DEF QueueInv
<1>5. ReadersInv'
  BY <1>1, <1>2, ReadersKept DEF QueueInv
<1> QED
  BY <1>2, <1>3, <1>4, <1>5 DEF QueueInv

(* A call that blocks.                                                     *)
LEMMA BlocksPart ==
    ASSUME QueueInv, NEW q \in Resources, NEW p, TaskRuns,
           AddTaskToBlocked(q, current), SetReasonForSleep(q, p),
           NEW c \in Gets \union Puts, c.queue = q,
           calling' = [calling EXCEPT ![current] = c],
           UNCHANGED ring
    PROVE  RingTypes' /\ BlockedInv' /\ CallsMatch'
<1>1. /\ current \in Tasks /\ current \in AllTasks
      /\ resource[current] = NoRes
  BY RunnerHoldsNothing DEF QueueInv
<1>2. Joined(q, current)
  BY <1>1 DEF Joined, AddTaskToBlocked, SetReasonForSleep
<1>3. BlockedInv'
  BY <1>1, <1>2, ListsJoined DEF QueueInv
<1>4. RingTypes'
  BY DEF QueueInv, RingTypes, ring, Calls
<1>5. /\ calling'[current] = c /\ resource'[current] = q
      /\ \A t \in AllTasks \ {current} :
            calling'[t] = calling[t] /\ resource'[t] = resource[t]
  BY <1>1, <1>2
     DEF Joined, QueueInv, RingTypes, RuleInv, Inv, TypeOK, TypeOfTCBs
<1>6. CallsMatch'
  BY <1>1, <1>5 DEF CallsMatch, QueueInv
<1> QED
  BY <1>3, <1>4, <1>6

LEMMA GetBlocksQueue ==
    ASSUME QueueInv, Careful, RuleInv' /\ HeldInv',
           NEW q \in Resources, NEW p, GetBlocks(q, p)
    PROVE  QueueInv'
<1> DEFINE c == [op |-> "get", queue |-> q, at |-> After(getPtr[q])]
<1>1. /\ TaskRuns /\ Getting(q) = {}
      /\ AddTaskToBlocked(q, current) /\ SetReasonForSleep(q, p)
      /\ calling' = [calling EXCEPT ![current] = c]
      /\ UNCHANGED ring
  BY DEF GetBlocks, InApplication, SoleReader, Careful
<1>2. After(getPtr[q]) \in Indices
  BY AfterFacts DEF QueueInv, RingTypes
<1>3. /\ c \in Gets /\ c.op = "get" /\ c.queue = q
      /\ c.at = After(getPtr[q])
  BY <1>2 DEF Gets
<1> HIDE DEF c
<1>4. RingTypes' /\ BlockedInv' /\ CallsMatch'
  BY <1>1, <1>3, BlocksPart
<1>5. current \in Tasks /\ current \in AllTasks
  BY <1>1, RunnerHoldsNothing DEF QueueInv
<1>6. /\ calling'[current] = c
      /\ \A t \in AllTasks \ {current} : calling'[t] = calling[t]
      /\ getPtr' = getPtr
  BY <1>1, <1>5 DEF QueueInv, RingTypes, ring
<1>7. ASSUME NEW r \in Resources, NEW t \in Getting(r)', NEW u \in Getting(r)'
      PROVE  t = u
  <2>1. CASE r = q
    BY <1>1, <1>6, <2>1 DEF Getting, AllTasks
  <2>2. CASE r # q
    <3>1. t \in Getting(r) /\ u \in Getting(r)
      BY <1>3, <1>6, <2>2 DEF Getting, AllTasks
    <3> QED
      BY <3>1 DEF QueueInv, ReadersInv
  <2> QED
    BY <2>1, <2>2
<1>8. ASSUME NEW t \in Tasks, calling'[t].op = "get"
      PROVE  calling'[t].at = After(getPtr'[calling'[t].queue])
  <2>1. CASE t = current
    BY <1>3, <1>6, <2>1
  <2>2. CASE t # current
    BY <1>6, <1>8, <2>2 DEF QueueInv, ReadersInv, AllTasks
  <2> QED
    BY <2>1, <2>2
<1>9. ReadersInv'
  BY <1>7, <1>8 DEF ReadersInv, After
<1> QED
  BY <1>4, <1>9 DEF QueueInv

LEMMA PutBlocksQueue ==
    ASSUME QueueInv, RuleInv' /\ HeldInv',
           NEW q \in Resources, NEW p, NEW m \in Messages, PutBlocks(q, p, m)
    PROVE  QueueInv'
<1> DEFINE c == [op |-> "put", queue |-> q, message |-> m]
<1>1. /\ TaskRuns
      /\ AddTaskToBlocked(q, current) /\ SetReasonForSleep(q, p)
      /\ calling' = [calling EXCEPT ![current] = c]
      /\ UNCHANGED ring
  BY DEF PutBlocks, InApplication
<1>2. c \in Puts /\ c.op = "put" /\ c.queue = q
  BY DEF Puts
<1> HIDE DEF c
<1>3. RingTypes' /\ BlockedInv' /\ CallsMatch'
  BY <1>1, <1>2, BlocksPart
<1>4. current \in AllTasks
  BY <1>1, RunnerHoldsNothing DEF QueueInv
<1>5. /\ calling'[current] = c
      /\ \A t \in AllTasks \ {current} : calling'[t] = calling[t]
      /\ getPtr' = getPtr
  BY <1>1, <1>4 DEF QueueInv, RingTypes, ring
<1>6. ReadersInv'
  BY <1>2, <1>5, ReadersKept DEF QueueInv, AllTasks
<1> QED
  BY <1>3, <1>6 DEF QueueInv

(* The running task has looked again, and is in no call any more.          *)
LEMMA LooksAgainPart ==
    ASSUME QueueInv, TaskRuns, calling' = [calling EXCEPT ![current] = NoCall],
           \A t \in AllTasks : resource'[t] \in {resource[t], NoRes}
    PROVE  /\ calling' \in [AllTasks -> Calls]
           /\ CallsMatch'
           /\ calling'[current].op = "none"
           /\ \A t \in AllTasks \ {current} : calling'[t] = calling[t]
<1>1. current \in AllTasks /\ resource[current] = NoRes
  BY RunnerHoldsNothing DEF QueueInv
<1>2. /\ calling'[current] = NoCall
      /\ \A t \in AllTasks \ {current} : calling'[t] = calling[t]
  BY <1>1 DEF QueueInv, RingTypes
<1>3. calling' \in [AllTasks -> Calls]
  BY DEF QueueInv, RingTypes, Calls
<1>4. CallsMatch'
  BY <1>1, <1>2, CallsKept DEF QueueInv
<1> QED
  BY <1>2, <1>3, <1>4 DEF NoCall

LEMMA GetLooksAgainQueue ==
    ASSUME QueueInv, RuleInv' /\ HeldInv', GetLooksAgain
    PROVE  QueueInv'
<1> DEFINE q == calling[current].queue
           at == calling[current].at
<1>1. /\ TaskRuns /\ calling[current].op = "get"
      /\ calling' = [calling EXCEPT ![current] = NoCall]
      /\ IF at # putPtr[q] THEN Dequeue(q, at)
                           ELSE UNCHANGED <<vars, ring, blocked>>
  BY DEF GetLooksAgain
<1>2. /\ q \in Resources /\ at \in Indices /\ current \in Getting(q)
      /\ current \in AllTasks
  BY <1>1, RunnerCalls, RunnerHoldsNothing DEF QueueInv
<1> HIDE DEF q, at
<1>3. /\ BlockedInv'
      /\ \A t \in AllTasks : resource'[t] \in {resource[t], NoRes}
      /\ entries' \in [Resources -> [Indices -> Messages \union {Nothing}]]
      /\ getPtr' \in [Resources -> Indices]
      /\ putPtr' \in [Resources -> Indices]
      /\ \A r \in Resources \ {q} : getPtr'[r] = getPtr[r]
  <2>1. CASE Dequeue(q, at)
    BY <1>2, <2>1, DequeuePart DEF QueueInv, RingTypes
  <2>2. CASE UNCHANGED <<vars, ring, blocked>>
    BY <2>2, ListsSame DEF QueueInv, RingTypes, ring, vars
  <2> QED
    BY <1>1, <2>1, <2>2
<1>4. /\ calling' \in [AllTasks -> Calls]
      /\ CallsMatch'
      /\ calling'[current].op = "none"
      /\ \A t \in AllTasks \ {current} : calling'[t] = calling[t]
  BY <1>1, <1>3, LooksAgainPart
<1>5. RingTypes'
  BY <1>3, <1>4 DEF RingTypes
<1>6. ASSUME NEW t \in Tasks, calling'[t].op = "get"
      PROVE  /\ calling'[t] = calling[t]
             /\ getPtr'[calling[t].queue] = getPtr[calling[t].queue]
  <2>1. t # current /\ t \in AllTasks /\ calling'[t] = calling[t]
    BY <1>4, <1>6 DEF AllTasks
  <2>2. calling[t].queue \in Resources
    BY <1>6, <2>1, CallShapes DEF QueueInv, RingTypes
  <2>3. calling[t].queue # q
    BY <1>2, <1>6, <2>1 DEF Getting, QueueInv, ReadersInv
  <2> QED
    BY <1>3, <2>1, <2>2, <2>3
<1>7. ReadersInv'
  BY <1>6, ReadersKept DEF QueueInv
<1> QED
  BY <1>3, <1>4, <1>5, <1>7 DEF QueueInv

LEMMA PutLooksAgainQueue ==
    ASSUME QueueInv, RuleInv' /\ HeldInv', PutLooksAgain
    PROVE  QueueInv'
<1> DEFINE q == calling[current].queue
           m == calling[current].message
<1>1. /\ TaskRuns /\ calling[current].op = "put"
      /\ calling' = [calling EXCEPT ![current] = NoCall]
      /\ Enqueue(q, m) \/ UNCHANGED <<vars, ring, blocked>>
  BY DEF PutLooksAgain
<1>2. q \in Resources /\ m \in Messages /\ current \in AllTasks
  BY <1>1, RunnerCalls, RunnerHoldsNothing DEF QueueInv
<1> HIDE DEF q, m
<1>3. /\ BlockedInv'
      /\ \A t \in AllTasks : resource'[t] \in {resource[t], NoRes}
      /\ entries' \in [Resources -> [Indices -> Messages \union {Nothing}]]
      /\ putPtr' \in [Resources -> Indices]
      /\ getPtr' = getPtr
  <2>1. CASE Enqueue(q, m)
    BY <1>2, <2>1, EnqueuePart
  <2>2. CASE UNCHANGED <<vars, ring, blocked>>
    BY <2>2, ListsSame DEF QueueInv, RingTypes, ring, vars
  <2> QED
    BY <1>1, <2>1, <2>2
<1>4. /\ calling' \in [AllTasks -> Calls]
      /\ CallsMatch'
      /\ calling'[current].op = "none"
      /\ \A t \in AllTasks \ {current} : calling'[t] = calling[t]
  BY <1>1, <1>3, LooksAgainPart
<1>5. RingTypes'
  BY <1>3, <1>4 DEF RingTypes, QueueInv
<1>6. ReadersInv'
  BY <1>3, <1>4, ReadersKept DEF QueueInv, AllTasks
<1> QED
  BY <1>3, <1>4, <1>5, <1>6 DEF QueueInv

LEMMA FlushFifoQueue ==
    ASSUME QueueInv, Careful, RuleInv' /\ HeldInv',
           NEW q \in Resources, FlushFifo(q)
    PROVE  QueueInv'
<1>1. /\ Getting(q) = {} /\ WakeAll(blocked[q])
      /\ getPtr' = [getPtr EXCEPT ![q] = 0]
      /\ putPtr' = [putPtr EXCEPT ![q] = 1]
      /\ blocked' = [blocked EXCEPT ![q] = << >>]
      /\ UNCHANGED <<entries, calling>>
  BY DEF FlushFifo, Careful
<1>2. 0 \in Indices /\ 1 \in Indices
  BY QueueAssumption DEF Indices
<1>3. RingTypes'
  BY <1>1, <1>2 DEF QueueInv, RingTypes
<1>4. BlockedInv'
  BY <1>1, ListsFlushed DEF QueueInv
<1>5. \A t \in AllTasks : resource'[t] \in {resource[t], NoRes}
  BY <1>1, WakeAllFlags DEF QueueInv, RuleInv
<1>6. CallsMatch'
  BY <1>1, <1>5, CallsKept DEF QueueInv
<1>7. ASSUME NEW t \in Tasks, calling[t].op = "get"
      PROVE  getPtr'[calling[t].queue] = getPtr[calling[t].queue]
  <2>1. calling[t].queue \in Resources
    BY <1>7, CallShapes DEF QueueInv, RingTypes, AllTasks
  <2>2. calling[t].queue # q
    BY <1>1, <1>7 DEF Getting
  <2> QED
    BY <1>1, <2>1, <2>2 DEF QueueInv, RingTypes
<1>8. ReadersInv'
  BY <1>1, <1>7, ReadersKept DEF QueueInv
<1> QED
  BY <1>3, <1>4, <1>6, <1>8 DEF QueueInv

LEMMA TickTimesOutQueue ==
    ASSUME QueueInv, RuleInv' /\ HeldInv', TickTimesOut
    PROVE  QueueInv'
<1>1. UNCHANGED <<ring, calling>>
  BY DEF TickTimesOut
<1>2. resource[cursor] \in Resources /\ Left(resource[cursor], cursor)
  BY TimeOutLists
<1>3. BlockedInv' /\ CallsMatch'
  BY <1>1, <1>2, ListsLeft, LeftCalls DEF QueueInv
<1>4. RingTypes' /\ ReadersInv'
  BY <1>1, ReadersKept DEF QueueInv, RingTypes, ring
<1> QED
  BY <1>3, <1>4 DEF QueueInv

LEMMA AloofQueue ==
    ASSUME QueueInv, RuleInv' /\ HeldInv',
           UNCHANGED <<queueVars, resource>>,
           \A t \in created : priority'[t] = priority[t]
    PROVE  QueueInv'
<1>1. BlockedInv' /\ CallsMatch'
  BY ListsSame, CallsKept DEF QueueInv, queueVars
<1>2. RingTypes' /\ ReadersInv'
  BY ReadersKept DEF QueueInv, RingTypes, ring, queueVars
<1> QED
  BY <1>1, <1>2 DEF QueueInv

LEMMA QueueNextInv ==
    ASSUME QueueInv, Careful, [QueueNext]_allVars
    PROVE  QueueInv'
<1>1. RuleInv' /\ HeldInv'
  BY SchedulerPart DEF Careful
<1>2. ASSUME NEW q \in Resources, GetTakes(q) \/ FlushFifo(q)
      PROVE  QueueInv'
  BY <1>1, <1>2, GetTakesQueue, FlushFifoQueue
<1>3. ASSUME NEW q \in Resources, NEW p \in Periods \ {0}, GetBlocks(q, p)
      PROVE  QueueInv'
  BY <1>1, <1>3, GetBlocksQueue
<1>4. ASSUME NEW q \in Resources, NEW m \in Messages,
             \/ PutStores(q, m)
             \/ \E p \in Periods \ {0} : PutBlocks(q, p, m)
      PROVE  QueueInv'
  BY <1>1, <1>4, PutStoresQueue, PutBlocksQueue
<1>5. CASE GetLooksAgain \/ PutLooksAgain \/ TickTimesOut
  BY <1>1, <1>5, GetLooksAgainQueue, PutLooksAgainQueue, TickTimesOutQueue
<1>6. CASE \/ ApplicationStep /\ UNCHANGED queueVars
           \/ KernelStep /\ UNCHANGED queueVars
           \/ UNCHANGED allVars
  BY <1>1, <1>6, AloofLists, AloofQueue DEF QueueInv, RuleInv
<1> QED
  BY <1>2, <1>3, <1>4, <1>5, <1>6 DEF QueueNext

LEMMA QueueInitInv == QueueInit => QueueInv
<1> SUFFICES ASSUME QueueInit PROVE QueueInv
  OBVIOUS
<1>1. RuleInv
  BY InitRules DEF QueueInit
<1>2. /\ flags = [t \in AllTasks |-> {}]
      /\ resource = [t \in AllTasks |-> NoRes]
      /\ entries = [q \in Resources |-> [i \in Indices |-> Nothing]]
      /\ getPtr = [q \in Resources |-> 0]
      /\ putPtr = [q \in Resources |-> 1]
      /\ blocked = [q \in Resources |-> << >>]
      /\ calling = [t \in AllTasks |-> NoCall]
  BY DEF QueueInit, Init
<1>3. HeldInv
  BY <1>2 DEF HeldInv, HeldBits
<1>4. RingTypes
  <2>1. 0 \in Indices /\ 1 \in Indices
    BY QueueAssumption DEF Indices
  <2>2. NoCall \in Calls
    BY DEF Calls
  <2> QED
    BY <1>2, <2>1, <2>2 DEF RingTypes
<1>5. BlockedInv
  <2>1. << >> \in Seq(AllTasks)
    OBVIOUS
  <2> QED
    BY <1>2, <2>1, NoResIsNone
       DEF BlockedInv, Listed, IsInjective, SortedByPrio
<1>6. CallsMatch
  BY <1>2 DEF CallsMatch
<1>7. ReadersInv
  <2>1. \A t \in Tasks : calling[t].op = "none"
    BY <1>2 DEF NoCall, AllTasks
  <2> QED
    BY <2>1 DEF ReadersInv, Getting
<1> QED
  BY <1>1, <1>3, <1>4, <1>5, <1>6, <1>7 DEF QueueInv

LEMMA QueueSpecInv ==
    ASSUME Careful
    PROVE  QueueSpec => []QueueInv
<1>1. QueueInv /\ [QueueNext]_allVars => QueueInv'
  BY QueueNextInv
<1> QED
  BY QueueInitInv, <1>1, PTL DEF QueueSpec

(* A task is on the blocked list of a queue exactly while its control      *)
(* block names that queue; it is then inside a get or a put on it and on   *)
(* the wait list, and the list is in priority order, any number of writers *)
(* and the one reader mixed in any way.                                    *)
THEOREM QueueBlockedMatchesTCB ==
    ASSUME Careful
    PROVE  QueueSpec => []BlockedMatchesTCB
<1>1. ASSUME QueueInv PROVE BlockedMatchesTCB
  <2> SUFFICES ASSUME NEW q \in Resources
               PROVE  /\ SortedByPrio(blocked[q], priority)
                      /\ IsInjective(blocked[q])
                      /\ Listed(blocked[q]) = { t \in created : resource[t] = q }
                      /\ Listed(blocked[q]) \subseteq Getting(q) \union Putting(q)
                      /\ Listed(blocked[q]) \subseteq Listed(wait)
    BY DEF BlockedMatchesTCB
  <2>1. /\ blocked[q] \in Seq(AllTasks) /\ IsInjective(blocked[q])
        /\ SortedByPrio(blocked[q], priority)
    BY <1>1 DEF QueueInv, BlockedInv
  <2>2. ASSUME NEW t \in AllTasks, resource[t] = q
        PROVE  /\ t \in created /\ t \in Listed(wait)
               /\ t \in Getting(q) \union Putting(q)
    <3>1. resource[t] # NoRes
      BY <2>2, NoResIsNone
    <3>2. SLEEP \in flags[t]
      BY <1>1, <3>1 DEF QueueInv, HeldInv
    <3>3. t \in created /\ t \in Listed(wait)
      BY <1>1, <3>2
         DEF QueueInv, RuleInv, ListRules, FlagsInv, FlagsTellList, CheckBits
    <3>4. t \in Getting(q) \union Putting(q)
      BY <1>1, <2>2, <3>1
         DEF QueueInv, CallsMatch, Gets, Puts, Getting, Putting
    <3> QED
      BY <3>3, <3>4
  <2>3. \A t \in AllTasks : t \in Listed(blocked[q]) <=> resource[t] = q
    BY <1>1 DEF QueueInv, BlockedInv
  <2>4. Listed(blocked[q]) \subseteq AllTasks /\ created \subseteq AllTasks
    BY <1>1, <2>1, ListedFacts, ListsTyped DEF QueueInv, RuleInv
  <2> QED
    BY <2>1, <2>2, <2>3, <2>4
<1> QED
  BY QueueSpecInv, <1>1, PTL

-----------------------------------------------------------------------------
(***************************************************************************)
(* Nobody is forgotten, where gets and puts do not block on the same queue.*)
(* Every step that takes from a ring or fills it also wakes a task of that *)
(* queue, if any is blocked; what has to be shown is that a woken task     *)
(* that looks again and goes away leaves nobody behind.                    *)
(***************************************************************************)

OneSide == \A q \in Resources : Getting(q) = {} \/ Putting(q) = {}

Heeded(q) ==
    \/ (Getting(q) \union Putting(q)) \ Listed(blocked[q]) # {}
    \/ /\ Getting(q) \intersect Listed(blocked[q]) # {} => IsEmpty(q)
       /\ Putting(q) \intersect Listed(blocked[q]) # {} => IsFull(q)

LEMMA HeededIs == NobodyForgotten <=> \A q \in Resources : Heeded(q)
BY DEF NobodyForgotten, Heeded

LEMMA HeededSame ==
    ASSUME NEW q, Heeded(q), blocked'[q] = blocked[q],
           getPtr'[q] = getPtr[q], putPtr'[q] = putPtr[q],
           Getting(q)' = Getting(q), Putting(q)' = Putting(q)
    PROVE  Heeded(q)'
BY DEF Heeded, IsEmpty, IsFull, After

LEMMA HeededAlone ==
    ASSUME NEW q, blocked'[q] = << >>
    PROVE  Heeded(q)'
BY DEF Heeded, Listed

(* Who is inside a call, when one task's call begins or ends.              *)
LEMMA CallersExcept ==
    ASSUME RingTypes, NEW t \in AllTasks, NEW c,
           calling' = [calling EXCEPT ![t] = c],
           NEW q, calling[t].op \in {"get", "put"} => calling[t].queue # q,
           c.op \in {"get", "put"} => c.queue # q
    PROVE  Getting(q)' = Getting(q) /\ Putting(q)' = Putting(q)
<1>1. /\ calling'[t] = c
      /\ \A u \in Tasks \ {t} : calling'[u] = calling[u]
  BY DEF RingTypes, AllTasks
<1> QED
  BY <1>1 DEF Getting, Putting

(* A task that is taken off a list is still to look again.                 *)
LEMMA HeededLeft ==
    ASSUME QueueInv, NEW q \in Resources, NEW t, Left(q, t),
           calling'[t] = calling[t]
    PROVE  Heeded(q)'
<1>1. /\ t \in AllTasks /\ resource[t] = q
      /\ t \notin Listed(blocked'[q])
  BY ListsLeft DEF QueueInv
<1>2. t \in Tasks /\ calling[t] \in Gets \union Puts /\ calling[t].queue = q
  BY <1>1, NoResIsNone DEF QueueInv, CallsMatch
<1>3. t \in (Getting(q) \union Putting(q))'
  BY <1>2 DEF Gets, Puts, Getting, Putting
<1> QED
  BY <1>1, <1>3 DEF Heeded

(* After vd_queue_unblockWaitingTasks, on its queue and on the others.     *)
LEMMA UnblockHeeds ==
    ASSUME QueueInv, NEW q \in Resources, UnblockWaitingTask(q),
           \A t \in AllTasks : resource[t] # NoRes => calling'[t] = calling[t]
    PROVE  /\ Heeded(q)'
           /\ \A r \in Resources \ {q} : blocked'[r] = blocked[r]
<1>1. CASE blocked[q] = << >>
  <2>1. blocked' = blocked
    BY <1>1, UnblockLists DEF QueueInv
  <2> QED
    BY <1>1, <2>1, HeededAlone
<1>2. CASE blocked[q] # << >>
  <2> DEFINE t == Head(blocked[q])
  <2>1. Left(q, t)
    BY <1>2, UnblockLists DEF QueueInv
  <2>2. /\ t \in AllTasks /\ resource[t] = q
        /\ \A r \in Resources \ {q} : blocked'[r] = blocked[r]
    BY <2>1, ListsLeft DEF QueueInv
  <2>3. calling'[t] = calling[t]
    BY <2>2, NoResIsNone
  <2> QED
    BY <2>1, <2>2, <2>3, HeededLeft
<1> QED
  BY <1>1, <1>2

LEMMA HeededByInterrupt ==
    ASSUME QueueInv, NobodyForgotten, OneSide, NEW q \in Resources,
           \/ GetTakes(q)
           \/ \E m \in Messages : PutStores(q, m)
    PROVE  NobodyForgotten' /\ OneSide'
<1>1. /\ UnblockWaitingTask(q) /\ calling' = calling
      /\ \A r \in Resources \ {q} :
            getPtr'[r] = getPtr[r] /\ putPtr'[r] = putPtr[r]
  BY DEF GetTakes, PutStores, Dequeue, Enqueue, QueueInv, RingTypes
<1>2. /\ Heeded(q)'
      /\ \A r \in Resources \ {q} : blocked'[r] = blocked[r]
  BY <1>1, UnblockHeeds
<1>3. \A r \in Resources : Getting(r)' = Getting(r) /\ Putting(r)' = Putting(r)
  BY <1>1 DEF Getting, Putting
<1>4. ASSUME NEW r \in Resources PROVE Heeded(r)'
  <2>1. CASE r = q
    BY <1>2, <2>1
  <2>2. CASE r # q
    BY <1>1, <1>2, <1>3, <2>2, HeededIs, HeededSame
  <2> QED
    BY <2>1, <2>2
<1>5. NobodyForgotten'
  BY <1>4 DEF NobodyForgotten, Heeded
<1> QED
  BY <1>3, <1>5 DEF OneSide

(* A call that blocks finds nobody of the other side.                      *)
LEMMA HeededBlocks ==
    ASSUME QueueInv, NobodyForgotten, OneSide, NEW q \in Resources,
           TaskRuns, calling[current] = NoCall,
           AddTaskToBlocked(q, current), UNCHANGED ring,
           NEW c, calling' = [calling EXCEPT ![current] = c], c.queue = q,
           \/ c.op = "get" /\ Putting(q) = {} /\ IsEmpty(q)
           \/ c.op = "put" /\ Getting(q) = {} /\ IsFull(q)
    PROVE  NobodyForgotten' /\ OneSide'
<1>1. current \in AllTasks /\ current \in Tasks
  BY RunnerHoldsNothing DEF QueueInv
<1>2. calling[current].op = "none"
  BY DEF NoCall
<1>3. /\ calling'[current] = c
      /\ \A t \in Tasks \ {current} : calling'[t] = calling[t]
  BY <1>1 DEF QueueInv, RingTypes, AllTasks
<1>4. ASSUME NEW r \in Resources, r # q
      PROVE  /\ Getting(r)' = Getting(r) /\ Putting(r)' = Putting(r)
             /\ blocked'[r] = blocked[r]
  <2>1. Getting(r)' = Getting(r) /\ Putting(r)' = Putting(r)
    BY <1>1, <1>2, <1>4, CallersExcept DEF QueueInv
  <2> QED
    BY <1>4, <2>1 DEF AddTaskToBlocked, QueueInv, BlockedInv
<1>5. /\ c.op = "get" => Putting(q)' = {} /\ IsEmpty(q)'
      /\ c.op = "put" => Getting(q)' = {} /\ IsFull(q)'
  <2>1. c.op = "get" => Putting(q)' = {}
    BY <1>1, <1>3 DEF Putting
  <2>2. c.op = "put" => Getting(q)' = {}
    BY <1>1, <1>3 DEF Getting
  <2> QED
    BY <2>1, <2>2 DEF IsEmpty, IsFull, After, ring
<1>6. Heeded(q)' /\ (Getting(q)' = {} \/ Putting(q)' = {})
  BY <1>5 DEF Heeded
<1>7. ASSUME NEW r \in Resources PROVE Heeded(r)'
  <2>1. CASE r = q
    BY <1>6, <2>1
  <2>2. CASE r # q
    BY <1>4, <2>2, HeededIs, HeededSame DEF ring
  <2> QED
    BY <2>1, <2>2
<1>8. NobodyForgotten'
  BY <1>7 DEF NobodyForgotten, Heeded
<1> QED
  BY <1>4, <1>6, <1>8 DEF OneSide

LEMMA HeededGetBlocks ==
    ASSUME QueueInv, "both_sides" \notin Careless, NobodyForgotten, OneSide,
           NEW q \in Resources, NEW p, GetBlocks(q, p)
    PROVE  NobodyForgotten' /\ OneSide'
<1> DEFINE c == [op |-> "get", queue |-> q, at |-> After(getPtr[q])]
<1>1. /\ TaskRuns /\ calling[current] = NoCall
      /\ AddTaskToBlocked(q, current) /\ UNCHANGED ring
      /\ calling' = [calling EXCEPT ![current] = c]
      /\ Putting(q) = {} /\ IsEmpty(q)
  BY DEF GetBlocks, InApplication, MayBlock
<1>2. c.op = "get" /\ c.queue = q
  OBVIOUS
<1> HIDE DEF c
<1> QED
  BY <1>1, <1>2, HeededBlocks

LEMMA HeededPutBlocks ==
    ASSUME QueueInv, "both_sides" \notin Careless, NobodyForgotten, OneSide,
           NEW q \in Resources, NEW p, NEW m, PutBlocks(q, p, m)
    PROVE  NobodyForgotten' /\ OneSide'
<1> DEFINE c == [op |-> "put", queue |-> q, message |-> m]
<1>1. /\ TaskRuns /\ calling[current] = NoCall
      /\ AddTaskToBlocked(q, current) /\ UNCHANGED ring
      /\ calling' = [calling EXCEPT ![current] = c]
      /\ Getting(q) = {} /\ IsFull(q)
  BY DEF PutBlocks, InApplication, MayBlock
<1>2. c.op = "put" /\ c.queue = q
  OBVIOUS
<1> HIDE DEF c
<1> QED
  BY <1>1, <1>2, HeededBlocks

(* A woken task looks again.                                               *)
LEMMA HeededLooksAgain ==
    ASSUME QueueInv, NobodyForgotten, OneSide, GetLooksAgain \/ PutLooksAgain
    PROVE  NobodyForgotten' /\ OneSide'
<1>1. /\ TaskRuns /\ calling[current].op \in {"get", "put"}
      /\ calling' = [calling EXCEPT ![current] = NoCall]
  BY DEF GetLooksAgain, PutLooksAgain
<1> PICK q \in Resources : q = calling[current].queue
  BY <1>1, RunnerCalls
<1>2. /\ current \in AllTasks
      /\ resource[current] = NoRes
      /\ calling[current].op = "get" =>
            /\ current \in Getting(q)
            /\ calling[current].at = After(getPtr[q])
      /\ calling[current].op = "put" => current \in Putting(q)
  BY <1>1, RunnerCalls, RunnerHoldsNothing DEF QueueInv
<1>3. /\ calling'[current] = NoCall
      /\ \A t \in AllTasks \ {current} : calling'[t] = calling[t]
  BY <1>1, <1>2 DEF QueueInv, RingTypes
<1>4. ASSUME NEW r \in Resources
      PROVE  /\ Getting(r)' \subseteq Getting(r) \ {current}
             /\ Putting(r)' \subseteq Putting(r) \ {current}
  <2>1. calling'[current].op = "none"
    BY <1>3 DEF NoCall
  <2> QED
    BY <1>3, <2>1 DEF Getting, Putting, AllTasks
<1>5. \/ UnblockWaitingTask(q)
      \/ /\ UNCHANGED <<ring, blocked>>
         /\ calling[current].op = "get" => IsEmpty(q)
         /\ calling[current].op = "put" => IsFull(q)
  BY <1>2 DEF GetLooksAgain, PutLooksAgain, Dequeue, Enqueue, IsEmpty
<1>6. \A r \in Resources \ {q} :
         getPtr'[r] = getPtr[r] /\ putPtr'[r] = putPtr[r]
  BY DEF GetLooksAgain, PutLooksAgain, Dequeue, Enqueue, QueueInv, RingTypes,
         ring
<1>7. Heeded(q)' /\ \A r \in Resources \ {q} : blocked'[r] = blocked[r]
  <2>1. CASE UnblockWaitingTask(q)
    BY <1>2, <1>3, <2>1, UnblockHeeds
  <2>2. CASE /\ UNCHANGED <<ring, blocked>>
             /\ calling[current].op = "get" /\ IsEmpty(q)
    <3>1. Getting(q)' = {}
      BY <1>2, <1>4, <2>2 DEF QueueInv, ReadersInv
    <3>2. Putting(q)' = {}
      BY <1>2, <1>4, <2>2 DEF OneSide
    <3> QED
      BY <2>2, <3>1, <3>2 DEF Heeded
  <2>3. CASE /\ UNCHANGED <<ring, blocked>>
             /\ calling[current].op = "put" /\ IsFull(q)
    <3>1. Getting(q)' = {}
      BY <1>2, <1>4, <2>3 DEF OneSide
    <3> QED
      BY <2>3, <3>1 DEF Heeded, IsFull, ring
  <2> QED
    BY <1>1, <1>5, <2>1, <2>2, <2>3
<1>8. ASSUME NEW r \in Resources PROVE Heeded(r)'
  <2>1. CASE r = q
    BY <1>7, <2>1
  <2>2. CASE r # q
    <3>1. Getting(r)' = Getting(r) /\ Putting(r)' = Putting(r)
      <4>1. calling[current].queue # r
        BY <2>2
      <4>2. NoCall.op \notin {"get", "put"}
        BY DEF NoCall
      <4>3. RingTypes
        BY DEF QueueInv
      <4> QED
        BY <1>1, <1>2, <4>1, <4>2, <4>3, CallersExcept
    <3> QED
      BY <1>6, <1>7, <2>2, <3>1, HeededIs, HeededSame
  <2> QED
    BY <2>1, <2>2
<1>9. NobodyForgotten'
  BY <1>8 DEF NobodyForgotten, Heeded
<1> QED
  BY <1>4, <1>9 DEF OneSide

LEMMA HeededFlush ==
    ASSUME QueueInv, NobodyForgotten, OneSide, NEW q \in Resources, FlushFifo(q)
    PROVE  NobodyForgotten' /\ OneSide'
<1>1. /\ blocked'[q] = << >> /\ calling' = calling
      /\ \A r \in Resources \ {q} :
            /\ blocked'[r] = blocked[r]
            /\ getPtr'[r] = getPtr[r] /\ putPtr'[r] = putPtr[r]
  BY DEF FlushFifo, QueueInv, RingTypes, BlockedInv
<1>2. \A r \in Resources : Getting(r)' = Getting(r) /\ Putting(r)' = Putting(r)
  BY <1>1 DEF Getting, Putting
<1>3. ASSUME NEW r \in Resources PROVE Heeded(r)'
  BY <1>1, <1>2, HeededAlone, HeededIs, HeededSame
<1>4. NobodyForgotten'
  BY <1>3 DEF NobodyForgotten, Heeded
<1> QED
  BY <1>2, <1>4 DEF OneSide

LEMMA HeededTimeOut ==
    ASSUME QueueInv, NobodyForgotten, OneSide, TickTimesOut
    PROVE  NobodyForgotten' /\ OneSide'
<1> PICK q \in Resources : q = resource[cursor] /\ Left(q, cursor)
  BY TimeOutLists
<1> PICK t : t = cursor
  OBVIOUS
<1>1. Left(q, t)
  OBVIOUS
<1>2. UNCHANGED <<ring, calling>>
  BY DEF TickTimesOut
<1>3. \A r \in Resources \ {q} : blocked'[r] = blocked[r]
  BY <1>1, ListsLeft DEF QueueInv
<1>4. \A r \in Resources : Getting(r)' = Getting(r) /\ Putting(r)' = Putting(r)
  BY <1>2 DEF Getting, Putting
<1>5. ASSUME NEW r \in Resources PROVE Heeded(r)'
  BY <1>1, <1>2, <1>3, <1>4, HeededLeft, HeededIs, HeededSame DEF ring
<1>6. NobodyForgotten'
  BY <1>5 DEF NobodyForgotten, Heeded
<1> QED
  BY <1>4, <1>6 DEF OneSide

LEMMA HeededNext ==
    ASSUME QueueInv, "both_sides" \notin Careless,
           NobodyForgotten, OneSide, [QueueNext]_allVars
    PROVE  NobodyForgotten' /\ OneSide'
<1>1. ASSUME NEW q \in Resources,
             \/ GetTakes(q)
             \/ \E m \in Messages : PutStores(q, m)
             \/ FlushFifo(q)
      PROVE  NobodyForgotten' /\ OneSide'
  BY <1>1, HeededByInterrupt, HeededFlush
<1>2. ASSUME NEW q \in Resources, NEW p \in Periods \ {0},
             \/ GetBlocks(q, p)
             \/ \E m \in Messages : PutBlocks(q, p, m)
      PROVE  NobodyForgotten' /\ OneSide'
  BY <1>2, HeededGetBlocks, HeededPutBlocks
<1>3. CASE GetLooksAgain \/ PutLooksAgain \/ TickTimesOut
  BY <1>3, HeededLooksAgain, HeededTimeOut
<1>4. CASE \/ ApplicationStep /\ UNCHANGED queueVars
           \/ KernelStep /\ UNCHANGED queueVars
           \/ UNCHANGED allVars
  <2>1. UNCHANGED queueVars
    BY <1>4 DEF allVars
  <2>2. OneSide'
    BY <2>1 DEF OneSide, Getting, Putting, queueVars
  <2>3. ASSUME NEW q \in Resources PROVE Heeded(q)'
    BY <2>1, HeededIs
       DEF Heeded, Getting, Putting, IsEmpty, IsFull, After, queueVars, ring
  <2> QED
    BY <2>2, <2>3 DEF NobodyForgotten, Heeded
<1> QED
  BY <1>1, <1>2, <1>3, <1>4 DEF QueueNext

(* On a queue where either one reader or any number of writers block, no   *)
(* call is forgotten: the get stays blocked on a queue with messages, or a *)
(* put on one with room, only while a woken task is still to look again    *)
(* (queue.c:192, queue.c:355), whatever time-outs and interrupts come      *)
(* between the two halves of the calls.  A flush may come while writers    *)
(* sleep, not while the reader does.                                       *)
THEOREM QueueNobodyForgotten ==
    ASSUME Careful, "both_sides" \notin Careless
    PROVE  QueueSpec => []NobodyForgotten
<1>1. QueueInit => NobodyForgotten /\ OneSide
  <2> SUFFICES ASSUME QueueInit PROVE NobodyForgotten /\ OneSide
    OBVIOUS
  <2>1. /\ blocked = [q \in Resources |-> << >>]
        /\ calling = [t \in AllTasks |-> NoCall]
    BY DEF QueueInit
  <2>2. \A t \in Tasks : calling[t].op = "none"
    BY <2>1 DEF NoCall, AllTasks
  <2>3. OneSide
    BY <2>2 DEF OneSide, Getting
  <2>4. ASSUME NEW q \in Resources PROVE Heeded(q)
    BY <2>1 DEF Heeded, Listed
  <2> QED
    BY <2>3, <2>4, HeededIs
<1>2. QueueInv /\ NobodyForgotten /\ OneSide /\ [QueueNext]_allVars
         => NobodyForgotten' /\ OneSide'
  BY HeededNext
<1> QED
  BY QueueSpecInv, <1>1, <1>2, PTL DEF QueueSpec

-----------------------------------------------------------------------------
(***************************************************************************)
(* The refinement: what the ring of pointers holds is a FIFO.  First the   *)
(* ring by itself, for entries e and pointers g and p; SMT handles the     *)
(* remainders once their ranges are known.                                 *)
(***************************************************************************)

Between(g, p) == IF g < p THEN p - g - 1 ELSE p - g - 1 + QueueLength

Spot(g, i) == IF g + i < QueueLength THEN g + i ELSE g + i - QueueLength

RingItems(e, g, p) == [i \in 1 .. Between(g, p) |-> e[Spot(g, i)]]

LEMMA RemainderIs ==
    ASSUME NEW x \in Int, -QueueLength <= x, x < 2 * QueueLength
    PROVE  x % QueueLength = IF x < 0 THEN x + QueueLength
                             ELSE IF x < QueueLength THEN x
                                                     ELSE x - QueueLength
<1>1. QueueLength \in Nat \ {0}
  BY QueueAssumption
<1> QED
  BY <1>1

LEMMA RemainderOfSum ==
    ASSUME NEW x \in Int, NEW y \in Int, 0 <= x + y, x + y < 2 * QueueLength
    PROVE  (x + y) % QueueLength = IF x + y < QueueLength
                                     THEN x + y
                                     ELSE x + y - QueueLength
<1>1. QueueLength \in Nat \ {0}
  BY QueueAssumption
<1> QED
  BY <1>1

LEMMA RingFacts ==
    ASSUME NEW g \in Indices, NEW p \in Indices
    PROVE  /\ Between(g, p) \in 0 .. QueueLength - 1
           /\ Between(g, p) = (p - g - 1) % QueueLength
           /\ \A i \in 1 .. Between(g, p) :
                 /\ Spot(g, i) \in Indices
                 /\ Spot(g, i) = (g + i) % QueueLength
<1>1. QueueLength \in Nat \ {0, 1}
  BY QueueAssumption
<1>2. Between(g, p) \in 0 .. QueueLength - 1
  BY <1>1 DEF Between, Indices
<1>3. Between(g, p) = (p - g - 1) % QueueLength
  <2>1. /\ p - g - 1 \in Int /\ -QueueLength <= p - g - 1
        /\ p - g - 1 < 2 * QueueLength /\ p - g - 1 < QueueLength
        /\ g < p <=> ~ (p - g - 1 < 0)
    BY <1>1 DEF Indices
  <2> QED
    BY <2>1, RemainderIs DEF Between
<1>4. ASSUME NEW i \in 1 .. Between(g, p)
      PROVE  /\ Spot(g, i) \in Indices
             /\ Spot(g, i) = (g + i) % QueueLength
  <2>1. /\ g + i \in Int /\ 0 <= g + i /\ g + i < 2 * QueueLength
        /\ -QueueLength <= g + i
    BY <1>1, <1>2 DEF Indices
  <2>2. Spot(g, i) = (g + i) % QueueLength
    <3>1. (g + i) % QueueLength =
            IF g + i < QueueLength THEN g + i ELSE g + i - QueueLength
      BY <1>1, <1>2, <2>1, RemainderOfSum DEF Indices
    <3>2. CASE g + i < QueueLength
      BY <3>1, <3>2, Zenon DEF Spot
    <3>3. CASE ~ (g + i < QueueLength)
      BY <3>1, <3>3, Zenon DEF Spot
    <3> QED
      BY <3>2, <3>3, Zenon
  <2> QED
    BY <1>1, <2>1, <2>2 DEF Spot, Indices
<1> QED
  BY <1>2, <1>3, <1>4

Contents == Messages \union {Nothing}

Rings == [Indices -> Contents]

SameBut(e, f, k) == \A i \in Indices \ {k} : f[i] = e[i]

LEMMA RingEntry ==
    ASSUME NEW e, NEW g, NEW p, NEW i \in 1 .. Between(g, p)
    PROVE  RingItems(e, g, p)[i] = e[Spot(g, i)]
BY DEF RingItems

LEMMA RingIsSeq ==
    ASSUME NEW e \in Rings,
           NEW g \in Indices, NEW p \in Indices
    PROVE  /\ RingItems(e, g, p) \in Seq(Contents)
           /\ Len(RingItems(e, g, p)) = Between(g, p)
<1>1. Between(g, p) \in Nat
  BY RingFacts
<1>2. \A i \in 1 .. Between(g, p) : e[Spot(g, i)] \in Contents
  BY RingFacts DEF Rings
<1> HIDE DEF Between
<1> QED
  BY <1>1, <1>2 DEF RingItems

(* Delivering the entry behind g.                                          *)
LEMMA RingTake ==
    ASSUME NEW e \in Rings,
           NEW g \in Indices, NEW p \in Indices, After(g) # p,
           NEW h, h = After(g), NEW f \in Rings,
           SameBut(e, f, h)
    PROVE  /\ RingItems(e, g, p) # << >>
           /\ RingItems(f, h, p) = Tail(RingItems(e, g, p))
<1> DEFINE n == Between(g, p)
<1>1. QueueLength \in Nat \ {0, 1}
  BY QueueAssumption
<1>2. h \in Indices /\ h = IF g = QueueLength - 1 THEN 0 ELSE g + 1
  BY AfterFacts
<1>3. n \in Nat /\ n # 0 /\ Between(h, p) = n - 1
  BY <1>1, <1>2 DEF Between, Indices
<1>4. f \in Rings
  OBVIOUS
<1>5. ASSUME NEW i \in 1 .. n - 1
      PROVE  /\ Spot(h, i) = Spot(g, i + 1) /\ Spot(h, i) # h
             /\ Spot(h, i) \in Indices
  <2>1. i < QueueLength
    BY <1>1, <1>3, RingFacts
  <2> QED
    BY <1>1, <1>2, <2>1 DEF Spot, Indices
<1> DEFINE s == RingItems(e, g, p)
           t == RingItems(f, h, p)
<1>6. /\ s \in Seq(Contents) /\ Len(s) = n
      /\ \A i \in 1 .. n : s[i] = e[Spot(g, i)]
  <2>1. s \in Seq(Contents) /\ Len(s) = n
    BY RingIsSeq
  <2>2. ASSUME NEW i \in 1 .. n PROVE s[i] = e[Spot(g, i)]
    BY RingEntry
  <2> QED
    BY <2>1, <2>2
<1>7. /\ t \in Seq(Contents) /\ Len(t) = n - 1
      /\ \A i \in 1 .. n - 1 : t[i] = f[Spot(h, i)]
  <2>1. t \in Seq(Contents) /\ Len(t) = Between(h, p)
    BY <1>2, <1>4, RingIsSeq, Zenon
  <2>2. ASSUME NEW i \in 1 .. Between(h, p) PROVE t[i] = f[Spot(h, i)]
    BY <2>2, RingEntry
  <2> HIDE DEF t, n
  <2> QED
    BY <1>3, <2>1, <2>2
<1>8. \A i \in 1 .. n - 1 : f[Spot(h, i)] = e[Spot(g, i + 1)]
  BY <1>5 DEF SameBut
<1> HIDE DEF s, t, n
<1>9. s # << >> /\ t = Tail(s)
  <2>1. s # << >>
    BY <1>3, <1>6
  <2>2. /\ Tail(s) \in Seq(Contents) /\ Len(Tail(s)) = n - 1
        /\ \A i \in 1 .. n - 1 : Tail(s)[i] = s[i + 1]
    BY <1>3, <1>6, <2>1
  <2>3. \A i \in 1 .. n - 1 : t[i] = s[i + 1]
    <3>1. \A i \in 1 .. n - 1 : i + 1 \in 1 .. n
      BY <1>3
    <3> QED
      BY <1>6, <1>7, <1>8, <3>1
  <2> QED
    BY <1>7, <2>1, <2>2, <2>3
<1> QED
  BY <1>9 DEF s, t

(* Filling the entry at p.                                                 *)
LEMMA RingPut ==
    ASSUME NEW e \in Rings, NEW x \in Contents,
           NEW g \in Indices, NEW p \in Indices, p # g,
           NEW r, r = After(p), NEW f \in Rings,
           f[p] = x, SameBut(e, f, p)
    PROVE  /\ Len(RingItems(e, g, p)) < QueueLength - 1
           /\ RingItems(f, g, r) = Append(RingItems(e, g, p), x)
<1> DEFINE n == Between(g, p)
<1>1. QueueLength \in Nat \ {0, 1}
  BY QueueAssumption
<1>2. r \in Indices /\ r = IF p = QueueLength - 1 THEN 0 ELSE p + 1
  BY AfterFacts
<1>3. n \in Nat /\ n < QueueLength - 1 /\ Between(g, r) = n + 1
  BY <1>1, <1>2 DEF Between, Indices
<1>4. f \in Rings
  OBVIOUS
<1>5. Spot(g, n + 1) = p
  BY <1>1 DEF Spot, Between, Indices
<1>6. ASSUME NEW i \in 1 .. n
      PROVE  Spot(g, i) # p /\ Spot(g, i) \in Indices
  BY <1>1, RingFacts DEF Spot, Between, Indices
<1> DEFINE s == RingItems(e, g, p)
           t == RingItems(f, g, r)
<1>7. /\ s \in Seq(Contents) /\ Len(s) = n
      /\ \A i \in 1 .. n : s[i] = e[Spot(g, i)]
  <2>1. s \in Seq(Contents) /\ Len(s) = n
    BY RingIsSeq
  <2>2. ASSUME NEW i \in 1 .. n PROVE s[i] = e[Spot(g, i)]
    BY RingEntry
  <2> QED
    BY <2>1, <2>2
<1>8. /\ t \in Seq(Contents) /\ Len(t) = n + 1
      /\ \A i \in 1 .. n + 1 : t[i] = f[Spot(g, i)]
  <2>1. t \in Seq(Contents) /\ Len(t) = Between(g, r)
    BY <1>2, <1>4, RingIsSeq, Zenon
  <2>2. ASSUME NEW i \in 1 .. Between(g, r) PROVE t[i] = f[Spot(g, i)]
    BY <2>2, RingEntry
  <2> HIDE DEF t, n
  <2> QED
    BY <1>3, <2>1, <2>2
<1>9. f[p] = x /\ \A i \in 1 .. n : f[Spot(g, i)] = e[Spot(g, i)]
  BY <1>6 DEF SameBut
<1> HIDE DEF s, t, n
<1>10. t = Append(s, x)
  <2>1. /\ Append(s, x) \in Seq(Contents) /\ Len(Append(s, x)) = n + 1
        /\ Append(s, x)[n + 1] = x
        /\ \A i \in 1 .. n : Append(s, x)[i] = s[i]
    BY <1>3, <1>7
  <2>2. t[n + 1] = x /\ \A i \in 1 .. n : t[i] = s[i]
    BY <1>3, <1>5, <1>7, <1>8, <1>9
  <2>3. \A i \in 1 .. n + 1 : t[i] = Append(s, x)[i]
    <3>1. \A i \in 1 .. n + 1 : i = n + 1 \/ i \in 1 .. n
      BY <1>3
    <3> QED
      BY <2>1, <2>2, <3>1
  <2> QED
    BY <1>8, <2>1, <2>3
<1> QED
  BY <1>3, <1>7, <1>10 DEF s, t

LEMMA RingEmpty ==
    ASSUME NEW e
    PROVE  RingItems(e, 0, 1) = << >>
<1>1. Between(0, 1) = 0
  BY DEF Between
<1> QED
  BY <1>1 DEF RingItems

-----------------------------------------------------------------------------
(* The messages of queue q, and those of all queues as the FIFO sees them. *)
StoredIn(q) == RingItems(entries[q], getPtr[q], putPtr[q])

LEMMA RingByRemainder ==
    ASSUME NEW e, NEW g \in Indices, NEW p \in Indices
    PROVE  RingItems(e, g, p) = [i \in 1 .. (p - g - 1) % QueueLength |->
                                    e[(g + i) % QueueLength]]
<1>1. Between(g, p) = (p - g - 1) % QueueLength
  BY RingFacts
<1>2. ASSUME NEW i \in 1 .. Between(g, p)
      PROVE  e[Spot(g, i)] = e[(g + i) % QueueLength]
  BY <1>2, RingFacts
<1> QED
  BY <1>1, <1>2, Zenon DEF RingItems

LEMMA ItemsStored ==
    ASSUME RingTypes
    PROVE  Items = [q \in Resources |-> StoredIn(q)]
<1>1. ASSUME NEW q \in Resources
      PROVE  [i \in 1 .. Count(q) |->
                 entries[q][(getPtr[q] + i) % QueueLength]] = StoredIn(q)
  BY RingByRemainder DEF RingTypes, StoredIn, Count
<1> QED
  BY <1>1, Zenon DEF Items

(* What the entries and pointers of one queue become is what its messages  *)
(* become.                                                                 *)
LEMMA ItemsChange ==
    ASSUME RingTypes, RingTypes', NEW q \in Resources, NEW list,
           StoredIn(q)' = list,
           \A r \in Resources \ {q} : /\ entries'[r] = entries[r]
                                      /\ getPtr'[r] = getPtr[r]
                                      /\ putPtr'[r] = putPtr[r]
    PROVE  Items' = [Items EXCEPT ![q] = list]
<1>1. Items = [r \in Resources |-> StoredIn(r)]
  BY ItemsStored
<1>2. Items' = [r \in Resources |-> StoredIn(r)']
  <2>1. ASSUME NEW r \in Resources
        PROVE  [i \in 1 .. Count(r)' |->
                   entries'[r][(getPtr'[r] + i) % QueueLength]] = StoredIn(r)'
    <3>1. getPtr'[r] \in Indices /\ putPtr'[r] \in Indices
      BY DEF RingTypes
    <3> QED
      BY <3>1, RingByRemainder, Zenon DEF StoredIn, Count
  <2> QED
    BY <2>1, Zenon DEF Items
<1>3. \A r \in Resources \ {q} : StoredIn(r)' = StoredIn(r)
  BY DEF StoredIn
<1> QED
  BY <1>1, <1>2, <1>3, Zenon

LEMMA DequeueIsGet ==
    ASSUME RingTypes, RingTypes', NEW q \in Resources, ~IsEmpty(q),
           Dequeue(q, After(getPtr[q]))
    PROVE  Fifo!Get(q)
<1>1. /\ getPtr' = [getPtr EXCEPT ![q] = After(getPtr[q])]
      /\ entries' = [entries EXCEPT ![q][After(getPtr[q])] = Nothing]
      /\ putPtr' = putPtr
  BY DEF Dequeue
<1>2. /\ entries[q] \in Rings
      /\ entries'[q] \in Rings
      /\ getPtr[q] \in Indices /\ putPtr[q] \in Indices
      /\ getPtr'[q] = After(getPtr[q]) /\ putPtr'[q] = putPtr[q]
      /\ After(getPtr[q]) # putPtr[q]
      /\ SameBut(entries[q], entries'[q], After(getPtr[q]))
  BY <1>1 DEF RingTypes, IsEmpty, Rings, Contents, SameBut
<1>3. /\ StoredIn(q) # << >>
      /\ StoredIn(q)' = Tail(StoredIn(q))
  <2>1. /\ RingItems(entries[q], getPtr[q], putPtr[q]) # << >>
        /\ RingItems(entries'[q], After(getPtr[q]), putPtr[q]) =
              Tail(RingItems(entries[q], getPtr[q], putPtr[q]))
    BY <1>2, RingTake
  <2> QED
    BY <1>2, <2>1, Zenon DEF StoredIn
<1>4. Items[q] = StoredIn(q)
  BY ItemsStored
<1>5. Items' = [Items EXCEPT ![q] = Tail(StoredIn(q))]
  BY <1>1, <1>3, ItemsChange DEF RingTypes
<1> QED
  BY <1>3, <1>4, <1>5 DEF Fifo!Get

LEMMA EnqueueIsPut ==
    ASSUME RingTypes, RingTypes', NEW q \in Resources, NEW m \in Messages,
           ~IsFull(q), Enqueue(q, m)
    PROVE  Fifo!Put(q, m)
<1>1. /\ entries' = [entries EXCEPT ![q][putPtr[q]] = m]
      /\ putPtr' = [putPtr EXCEPT ![q] = After(@)]
      /\ getPtr' = getPtr
  BY DEF Enqueue
<1>2. /\ entries[q] \in Rings
      /\ entries'[q] \in Rings
      /\ getPtr[q] \in Indices /\ putPtr[q] \in Indices
      /\ getPtr'[q] = getPtr[q] /\ putPtr'[q] = After(putPtr[q])
      /\ putPtr[q] # getPtr[q]
      /\ entries'[q][putPtr[q]] = m
      /\ SameBut(entries[q], entries'[q], putPtr[q])
  BY <1>1 DEF RingTypes, IsFull, Rings, Contents, SameBut
<1>3. /\ Len(StoredIn(q)) < QueueLength - 1
      /\ StoredIn(q)' = Append(StoredIn(q), m)
  <2>1. /\ Len(RingItems(entries[q], getPtr[q], putPtr[q])) < QueueLength - 1
        /\ RingItems(entries'[q], getPtr[q], After(putPtr[q])) =
              Append(RingItems(entries[q], getPtr[q], putPtr[q]), m)
    <3>1. m \in Contents
      BY DEF Contents
    <3> QED
      BY <1>2, <3>1, RingPut
  <2> QED
    BY <1>2, <2>1, Zenon DEF StoredIn
<1>4. Items[q] = StoredIn(q)
  BY ItemsStored
<1>5. Items' = [Items EXCEPT ![q] = Append(StoredIn(q), m)]
  BY <1>1, <1>3, ItemsChange DEF RingTypes
<1> QED
  BY <1>3, <1>4, <1>5 DEF Fifo!Put

LEMMA FlushIsFlush ==
    ASSUME RingTypes, RingTypes', NEW q \in Resources, FlushFifo(q)
    PROVE  Fifo!Flush(q)
<1>1. /\ getPtr' = [getPtr EXCEPT ![q] = 0]
      /\ putPtr' = [putPtr EXCEPT ![q] = 1]
      /\ entries' = entries
  BY DEF FlushFifo
<1>2. getPtr'[q] = 0 /\ putPtr'[q] = 1
  BY <1>1 DEF RingTypes
<1>3. StoredIn(q)' = << >>
  BY <1>2, RingEmpty DEF StoredIn
<1> QED
  BY <1>1, <1>3, ItemsChange DEF RingTypes, Fifo!Flush

LEMMA QueueIsFifo ==
    ASSUME QueueInv, QueueInv', [QueueNext]_allVars
    PROVE  [Fifo!Next]_Items
<1> USE DEF QueueInv
<1>1. ASSUME NEW q \in Resources, GetTakes(q)
      PROVE  Fifo!Next
  BY <1>1, DequeueIsGet DEF GetTakes, Fifo!Next
<1>2. ASSUME NEW q \in Resources, NEW m \in Messages, PutStores(q, m)
      PROVE  Fifo!Next
  BY <1>2, EnqueueIsPut DEF PutStores, Fifo!Next
<1>3. ASSUME NEW q \in Resources, FlushFifo(q)
      PROVE  Fifo!Next
  BY <1>3, FlushIsFlush DEF Fifo!Next
<1>4. ASSUME UNCHANGED ring PROVE UNCHANGED Items
  BY <1>4 DEF ring, Items, Count
<1>5. CASE GetLooksAgain
  <2> PICK q \in Resources : q = calling[current].queue
    BY <1>5, RunnerCalls DEF GetLooksAgain
  <2>1. calling[current].at = After(getPtr[q])
    BY <1>5, RunnerCalls DEF GetLooksAgain
  <2>2. \/ ~IsEmpty(q) /\ Dequeue(q, After(getPtr[q]))
        \/ UNCHANGED ring
    BY <1>5, <2>1 DEF GetLooksAgain, IsEmpty
  <2> QED
    BY <1>4, <2>2, DequeueIsGet DEF Fifo!Next
<1>6. CASE PutLooksAgain
  <2> PICK q \in Resources : q = calling[current].queue
    BY <1>6, RunnerCalls DEF PutLooksAgain
  <2> PICK m \in Messages : m = calling[current].message
    BY <1>6, RunnerCalls DEF PutLooksAgain
  <2>1. \/ ~IsFull(q) /\ Enqueue(q, m)
        \/ UNCHANGED ring
    BY <1>6 DEF PutLooksAgain
  <2> QED
    BY <1>4, <2>1, EnqueueIsPut DEF Fifo!Next
<1>7. CASE \/ \E q \in Resources, p \in Periods \ {0} :
                \/ GetBlocks(q, p)
                \/ \E m \in Messages : PutBlocks(q, p, m)
           \/ TickTimesOut
           \/ UNCHANGED queueVars
  BY <1>4, <1>7 DEF GetBlocks, PutBlocks, TickTimesOut, queueVars
<1> QED
  BY <1>1, <1>2, <1>3, <1>5, <1>6, <1>7 DEF QueueNext, allVars

(* With one reader at a time, and no flush while it sleeps, the ring with  *)
(* its two pointers is a FIFO of QueueLength - 1 messages: each get takes  *)
(* the oldest, also when it uses the position it computed before it slept  *)
(* (queue.c:196), each put appends, a flush empties it, and nothing else   *)
(* touches what is stored.  Without either rule it is not a FIFO.          *)
THEOREM QueueFifoKept ==
    ASSUME Careful
    PROVE  QueueSpec => FifoKept
<1>1. QueueInit => Fifo!Init
  <2> SUFFICES ASSUME QueueInit PROVE Items = [q \in Resources |-> << >>]
    BY DEF Fifo!Init
  <2>1. QueueInv
    BY QueueInitInv
  <2>2. \A q \in Resources : getPtr[q] = 0 /\ putPtr[q] = 1
    BY DEF QueueInit
  <2>3. \A q \in Resources : StoredIn(q) = << >>
    BY <2>2, RingEmpty DEF StoredIn
  <2> QED
    BY <2>1, <2>3, ItemsStored DEF QueueInv
<1>2. QueueInv /\ QueueInv' /\ [QueueNext]_allVars => [Fifo!Next]_Items
  BY QueueIsFifo
<1> QED
  BY QueueSpecInv, <1>1, <1>2, PTL DEF QueueSpec, FifoKept, Fifo!Spec

=============================================================================
