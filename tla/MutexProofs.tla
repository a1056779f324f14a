---------------------------- MODULE MutexProofs ----------------------------
(***************************************************************************)
(* Theorems about Mutex, for any tasks, mutexes, periods and bounds, when  *)
(* taskWake is not used on blocked tasks and no task locks a mutex while   *)
(* it holds one, or unlocks one twice (Careless = {}).  An interrupt may   *)
(* call the OS between two nodes of the tick's walk.                       *)
(***************************************************************************)
EXTENDS Mutex, SchedulerProofs

(***************************************************************************)
(* The strengthening.  A lock that blocks, an unlock that wakes and a      *)
(* time-out each combine several scheduler calls with a change of the      *)
(* holder's priority, so the scheduler's part (RuleInv and HeldInv) is     *)
(* proved again for them.  There it depends on the loans: whose priority   *)
(* changes, and to what.                                                   *)
(***************************************************************************)

MutexTypes ==
    /\ lock \in [Resources -> {0, 1}]
    /\ holder \in [Resources -> Tasks \union {NoTask}]
    /\ inherited \in [Resources -> Nat]
    /\ real \in [Resources -> Nat]
    /\ blocked \in [Resources -> Seq(AllTasks)]
    /\ calling \in [AllTasks -> Resources \union {NoRes}]
    /\ holds \in [Resources -> SUBSET Tasks]

(* Who holds a mutex holds no other one and waits for none.                *)
HoldersKnown ==
    /\ OneHolder
    /\ \A r \in Resources : \A t \in holds[r] :
          /\ holder[r] = t
          /\ t \in created /\ calling[t] = NoRes
          /\ \A s \in Resources : t \in holds[s] => s = r

WaitersMatch ==
    /\ \A r \in Resources : IsInjective(blocked[r])
    /\ \A r \in Resources, t \in AllTasks :
          t \in Listed(blocked[r]) <=> resource[t] = r
    /\ \A t \in AllTasks : resource[t] # NoRes => calling[t] = resource[t]
    /\ \A r \in Resources : SortedByPrio(blocked[r], priority)

(* What r has lent to the task that holds it.                              *)
Lent(r) == inherited[r] # DefaultPrio

LoanOf(r) ==
    IF Lent(r)
      THEN /\ holder[r] \in holds[r]
           /\ real[r] = BasePrio[holder[r]]
           /\ inherited[r] < real[r]
           /\ inherited[r] = priority[holder[r]]
           /\ blocked[r] # << >>
           /\ inherited[r] = priority[Head(blocked[r])]
      ELSE real[r] = DefaultPrio

LoansKnown ==
    /\ \A r \in Resources : LoanOf(r)
    /\ \A t \in created : priority[t] # BasePrio[t] =>
          \E r \in Resources : Lent(r) /\ t \in holds[r]

MutexInv ==
    /\ RuleInv
    /\ HeldInv
    /\ MutexTypes
    /\ HoldersKnown
    /\ WaitersMatch
    /\ LoansKnown

(* The rules kept.                                                         *)
Careful == Relaxed \subseteq {"isr_in_tick"} /\ Careless = {}

LEMMA CarefulGives ==
    ASSUME Careful
    PROVE  /\ RulesKept
           /\ "wake_blocked" \notin Relaxed
           /\ "relock" \notin Careless
           /\ "second_unlock" \notin Careless
           /\ "nested" \notin Careless
BY DEF Careful, RulesKept

LEMMA NoResIsNone ==
    ASSUME NEW r \in Resources
    PROVE  r # NoRes
BY ResourceAssumption

-----------------------------------------------------------------------------
(***************************************************************************)
(* The ready list, as a value: its tasks are S and it is in order under p. *)
(***************************************************************************)

ReadyList(s, S, p) ==
    /\ s \in Seq(AllTasks)
    /\ IsInjective(s)
    /\ Listed(s) = S
    /\ s # << >>
    /\ Last(s) = BG
    /\ SortedByPrio(s, p)

LEMMA ReadyIsList ==
    ASSUME RuleInv
    PROVE  ReadyList(ready, Listed(ready), priority)
BY ListsKnown DEF RuleInv, ListRules, ReadyList

(* A task is added.                                                        *)
LEMMA ReadyAdds ==
    ASSUME NEW p \in [AllTasks -> Nat], NEW s, NEW S, ReadyList(s, S, p),
           NEW t \in AllTasks \ S, p[t] < p[BG]
    PROVE  /\ ReadyList(InsertByPrio(s, t, p), S \union {t}, p)
           /\ Head(InsertByPrio(s, t, p)) \in {t, Head(s)}
<1>1. /\ s \in Seq(AllTasks) /\ IsInjective(s) /\ s # << >> /\ Last(s) = BG
      /\ SortedByPrio(s, p) /\ Listed(s) = S
  BY DEF ReadyList
<1>2. CanInsert(s, t, p)
  BY <1>1, Sentinel
<1>3. /\ InsertByPrio(s, t, p) \in Seq(AllTasks)
      /\ Listed(InsertByPrio(s, t, p)) = Listed(s) \union {t}
      /\ IsInjective(InsertByPrio(s, t, p))
      /\ InsertByPrio(s, t, p) # << >>
      /\ Last(InsertByPrio(s, t, p)) = BG
  BY <1>1, ReadyInsert
<1>4. SortedByPrio(InsertByPrio(s, t, p), p)
  BY <1>1, <1>2, SortedInsert
<1>5. Head(InsertByPrio(s, t, p)) \in {t, Head(s)}
  BY <1>1, <1>2, HeadOfInsert
<1> QED
  BY <1>1, <1>3, <1>4, <1>5 DEF ReadyList

(* The head leaves.                                                        *)
LEMMA ReadyDrops ==
    ASSUME NEW p, NEW s, NEW S, ReadyList(s, S, p), Head(s) # BG
    PROVE  /\ ReadyList(Tail(s), S \ {Head(s)}, p)
           /\ Head(s) \in S
<1>1. /\ s \in Seq(AllTasks) /\ IsInjective(s) /\ s # << >> /\ Last(s) = BG
      /\ SortedByPrio(s, p) /\ Listed(s) = S
  BY DEF ReadyList
<1>2. Tail(s) # << >>
  BY <1>1, TailNotEmpty
<1>3. /\ Head(s) \in Listed(s)
      /\ Tail(s) \in Seq(AllTasks)
      /\ Listed(Tail(s)) = Listed(s) \ {Head(s)}
      /\ IsInjective(Tail(s))
      /\ Last(Tail(s)) = BG
  BY <1>1, <1>2, TailFacts
<1>4. SortedByPrio(Tail(s), p)
  BY <1>1, SortedTail
<1> QED
  BY <1>1, <1>2, <1>3, <1>4 DEF ReadyList

(* The priority of one task changes to v.                                  *)
Reprioritised(p, t, v, q) ==
    /\ q \in [AllTasks -> Nat]
    /\ q[t] = v
    /\ \A x \in AllTasks \ {t} : q[x] = p[x]

LEMMA PriorityChanged ==
    ASSUME NEW p \in [AllTasks -> Nat], NEW t \in AllTasks, NEW v \in Nat
    PROVE  Reprioritised(p, t, v, [p EXCEPT ![t] = v])
BY DEF Reprioritised

(* A task is linked anew with another priority.  It is not linked ahead of *)
(* a more urgent head, and a head that is not touched stays the head       *)
(* unless the task is linked ahead of it.                                  *)
LEMMA ReadyRelinks ==
    ASSUME NEW p \in [AllTasks -> Nat], NEW s, NEW S, ReadyList(s, S, p),
           NEW t \in S, t # BG, NEW v, NEW q, Reprioritised(p, t, v, q),
           v < p[BG]
    PROVE  /\ ReadyList(InsertByPrio(Unlink(s, t), t, q), S, q)
           /\ t # Head(s) =>
                 Head(InsertByPrio(Unlink(s, t), t, q)) \in {t, Head(s)}
<1> DEFINE u == Unlink(s, t)
<1>1. /\ s \in Seq(AllTasks) /\ IsInjective(s) /\ s # << >> /\ Last(s) = BG
      /\ SortedByPrio(s, p) /\ Listed(s) = S /\ t \in Listed(s)
  BY DEF ReadyList
<1>2. S \subseteq AllTasks /\ t \in AllTasks
  BY <1>1, ListedFacts
<1>3. /\ u \in Seq(AllTasks) /\ IsInjective(u)
      /\ Listed(u) = S \ {t}
      /\ u # << >> /\ Last(u) = BG
  BY <1>1, UnlinkFacts
<1>4. SortedByPrio(u, p)
  BY <1>1, SortedUnlink
<1>5. t # Head(s) => Head(u) = Head(s)
  BY <1>1, HeadOfUnlink
<1> HIDE DEF u
<1>6. /\ q \in [AllTasks -> Nat] /\ q[t] = v
      /\ \A x \in AllTasks \ {t} : q[x] = p[x]
  BY DEF Reprioritised
<1>7. SortedByPrio(u, q)
  <2>1. \A x \in Listed(u) : p[x] = q[x]
    BY <1>2, <1>3, <1>6
  <2> QED
    BY <2>1, <1>3, <1>4, SortedSame
<1>8. ReadyList(u, S \ {t}, q)
  BY <1>3, <1>7 DEF ReadyList
<1>9. q[t] < q[BG] /\ t \in AllTasks \ (S \ {t})
  <2>1. BG \in AllTasks \ {t}
    BY DEF AllTasks
  <2> QED
    BY <2>1, <1>2, <1>6
<1>10. /\ ReadyList(InsertByPrio(u, t, q), (S \ {t}) \union {t}, q)
       /\ Head(InsertByPrio(u, t, q)) \in {t, Head(u)}
  BY <1>6, <1>8, <1>9, ReadyAdds
<1>11. (S \ {t}) \union {t} = S
  OBVIOUS
<1> QED
  BY <1>5, <1>10, <1>11 DEF u

(* A task that is not on the list does not matter to its order.            *)
LEMMA ReadyIgnores ==
    ASSUME NEW p, NEW s, NEW S, ReadyList(s, S, p),
           NEW t \in AllTasks \ S, NEW v, NEW q, Reprioritised(p, t, v, q)
    PROVE  ReadyList(s, S, q)
<1>1. /\ s \in Seq(AllTasks) /\ IsInjective(s) /\ s # << >> /\ Last(s) = BG
      /\ SortedByPrio(s, p) /\ Listed(s) = S
  BY DEF ReadyList
<1>2. \A x \in Listed(s) : p[x] = q[x]
  BY <1>1, ListedFacts DEF Reprioritised
<1>3. SortedByPrio(s, q)
  BY <1>1, <1>2, SortedSame
<1> QED
  BY <1>1, <1>3 DEF ReadyList

LEMMA ReadyHead ==
    ASSUME NEW p \in [AllTasks -> Nat], NEW s, NEW S, ReadyList(s, S, p)
    PROVE  /\ Head(s) \in S /\ S \subseteq AllTasks
           /\ \A t \in S : p[Head(s)] <= p[t]
BY HeadListed, HeadIsMostUrgent, ListedFacts DEF ReadyList

(* What makes the next lists right.                                        *)
NextLists(S) ==
    /\ fault = "none" /\ fault' = "none" /\ created' = created
    /\ ReadyList(ready', S, priority')
    /\ wait' \in Seq(AllTasks) /\ IsInjective(wait')
    /\ S \intersect Listed(wait') = {}
    /\ S \union Listed(wait') = created
    /\ AtEnd(wait', Suspended')
    /\ S \intersect Suspended' = {}
    /\ Suspended' \subseteq created

LEMMA NextListsHold ==
    ASSUME Inv, NEW S, NextLists(S)
    PROVE  /\ TypeOfLists' /\ ListsInv' /\ SoundLists'
           /\ SortedByPrio(ready', priority')
           /\ ready' \in Seq(AllTasks) /\ ready' # << >>
           /\ Listed(ready') = S /\ Head(ready') \in S
<1>1. /\ ready' \in Seq(AllTasks) /\ IsInjective(ready') /\ ready' # << >>
      /\ Last(ready') = BG /\ SortedByPrio(ready', priority')
      /\ Listed(ready') = S
  BY DEF NextLists, ReadyList
<1>2. TypeOfLists'
  <2>1. created \subseteq AllTasks
    BY ListsTyped
  <2>2. ready' \in Seq(created) /\ wait' \in Seq(created)
    BY <1>1, SeqOfListed DEF NextLists
  <2> QED
    BY <2>1, <2>2 DEF NextLists, TypeOfLists
<1>3. LinkedOnce' /\ SoundLists'
  BY <1>1 DEF NextLists, LinkedOnce, SoundLists
<1>4. ListsInv'
  BY <1>1, <1>3 DEF NextLists, ListsInv
<1>5. Head(ready') \in S
  BY <1>1, HeadListed
<1> QED
  BY <1>1, <1>2, <1>3, <1>4, <1>5

-----------------------------------------------------------------------------
(***************************************************************************)
(* Who holds, who waits and who runs.                                      *)
(***************************************************************************)

(* A task that is blocked waits at its own priority and holds nothing.     *)
LEMMA WaiterFacts ==
    ASSUME MutexInv, NEW t \in AllTasks, resource[t] # NoRes
    PROVE  /\ t \in created /\ t \in Tasks
           /\ t \in Listed(wait) /\ t \notin Listed(ready)
           /\ calling[t] = resource[t] /\ calling[t] # NoRes
           /\ \A r \in Resources : t \notin holds[r]
           /\ priority[t] = BasePrio[t]
           /\ priority[t] < DefaultPrio
           /\ priority[t] < priority[BG]
<1>1. SLEEP \in flags[t]
  BY DEF MutexInv, HeldInv
<1>2. t \in created
  BY <1>1 DEF MutexInv, RuleInv, ListRules, FlagsInv
<1>3. t \in Listed(wait)
  BY <1>1, <1>2
     DEF MutexInv, RuleInv, ListRules, FlagsInv, FlagsTellList, CheckBits
<1>4. t \notin Listed(ready) /\ t # BG
  BY <1>3, ListsKnown DEF MutexInv, RuleInv, ListRules
<1>5. calling[t] = resource[t]
  BY DEF MutexInv, WaitersMatch
<1>6. \A r \in Resources : t \notin holds[r]
  BY <1>5 DEF MutexInv, HoldersKnown
<1>7. priority[t] = BasePrio[t]
  BY <1>2, <1>6 DEF MutexInv, LoansKnown
<1>8. priority[t] < DefaultPrio
  BY <1>7, MutexAssumption
<1>9. priority[t] < priority[BG]
  BY <1>2, <1>4 DEF MutexInv, RuleInv, Inv, PrioritiesInv
<1> QED
  BY <1>2, <1>3, <1>4, <1>5, <1>6, <1>7, <1>8, <1>9 DEF AllTasks

(* A task that holds a mutex is blocked on none, and the loan of that      *)
(* mutex alone decides its priority.                                       *)
LEMMA HolderFacts ==
    ASSUME MutexInv, NEW r \in Resources, NEW h \in holds[r]
    PROVE  /\ h = holder[r] /\ h \in Tasks /\ h \in AllTasks /\ h # BG
           /\ h # NoTask
           /\ h \in created /\ lock[r] = 0 /\ holds[r] = {h}
           /\ calling[h] = NoRes /\ resource[h] = NoRes
           /\ \A s \in Resources : h \notin Listed(blocked[s])
           /\ \A s \in Resources : h \in holds[s] => s = r
           /\ priority[h] = IF Lent(r) THEN inherited[r] ELSE BasePrio[h]
           /\ priority[h] < priority[BG]
<1>1. h = holder[r] /\ h \in created /\ calling[h] = NoRes
  BY DEF MutexInv, HoldersKnown
<1>2. h \in Tasks
  BY DEF MutexInv, MutexTypes
<1>3. h \in AllTasks /\ h # BG /\ h # NoTask
  BY <1>2, TaskAssumption DEF AllTasks
<1>4. lock[r] = 0
  BY DEF MutexInv, HoldersKnown, OneHolder
<1>5. holds[r] = {h}
  BY <1>1, <1>3, <1>4 DEF MutexInv, HoldersKnown, OneHolder
<1>6. resource[h] = NoRes
  BY <1>1, <1>3 DEF MutexInv, WaitersMatch
<1>7. \A s \in Resources : h \notin Listed(blocked[s])
  BY <1>3, <1>6, NoResIsNone DEF MutexInv, WaitersMatch
<1>8. \A s \in Resources : h \in holds[s] => s = r
  BY DEF MutexInv, HoldersKnown
<1>9. priority[h] = IF Lent(r) THEN inherited[r] ELSE BasePrio[h]
  <2>1. CASE Lent(r)
    BY <1>1, <2>1 DEF MutexInv, LoansKnown, LoanOf
  <2>2. CASE ~Lent(r)
    BY <1>1, <1>8, <2>2 DEF MutexInv, LoansKnown
  <2> QED
    BY <2>1, <2>2
<1>10. priority[h] < priority[BG]
  BY <1>1, <1>3 DEF MutexInv, RuleInv, Inv, PrioritiesInv
<1> QED
  BY <1>1, <1>2, <1>3, <1>4, <1>5, <1>6, <1>7, <1>8, <1>9, <1>10

LEMMA RunnerFacts ==
    ASSUME MutexInv, TaskRuns
    PROVE  /\ current \in Tasks /\ current \in AllTasks /\ current \in created
           /\ current # BG /\ current # NoTask
           /\ current = Head(ready) /\ current \in Listed(ready)
           /\ current \notin Listed(wait)
           /\ flags[current] \intersect CheckBits = {}
           /\ resource[current] = NoRes /\ HeldBits(current) = {}
           /\ \A s \in Resources : current \notin Listed(blocked[s])
<1>1. /\ current = Head(ready) /\ current # BG
      /\ current \in Listed(ready) /\ current \notin Listed(wait)
      /\ current \in created /\ current \in Tasks
  BY RunningTask DEF MutexInv
<1>2. current \in AllTasks /\ current # NoTask
  BY <1>1, TaskAssumption DEF AllTasks
<1>3. resource[current] = NoRes /\ HeldBits(current) = {}
  BY <1>1, ReadyHoldsNothing DEF MutexInv
<1>4. \A s \in Resources : current \notin Listed(blocked[s])
  BY <1>2, <1>3, NoResIsNone DEF MutexInv, WaitersMatch
<1>5. flags[current] \intersect CheckBits = {}
  BY <1>1 DEF MutexInv, RuleInv, ListRules, FlagsInv, FlagsTellList
<1> QED
  BY <1>1, <1>2, <1>3, <1>4, <1>5

(* The tasks on a blocked list.                                            *)
LEMMA BlockedFacts ==
    ASSUME MutexInv, NEW r \in Resources
    PROVE  /\ blocked[r] \in Seq(AllTasks) /\ IsInjective(blocked[r])
           /\ SortedByPrio(blocked[r], priority)
           /\ priority \in [AllTasks -> Nat]
           /\ \A t \in Listed(blocked[r]) :
                 t \in AllTasks /\ resource[t] = r /\ resource[t] # NoRes
<1>1. blocked[r] \in Seq(AllTasks) /\ IsInjective(blocked[r])
  BY DEF MutexInv, MutexTypes, WaitersMatch
<1>2. Listed(blocked[r]) \subseteq AllTasks
  BY <1>1, ListedFacts
<1>3. priority \in [AllTasks -> Nat]
  BY DEF MutexInv, RuleInv, Inv, TypeOK, TypeOfTCBs
<1> QED
  BY <1>1, <1>2, <1>3, NoResIsNone DEF MutexInv, WaitersMatch

(* The most urgent waiter, first on its list, as an unlock takes it off.   *)
LEMMA FirstLeaves ==
    ASSUME MutexInv, NEW r \in Resources, blocked[r] # << >>
    PROVE  /\ Head(blocked[r]) \in AllTasks
           /\ Head(blocked[r]) \in Listed(blocked[r])
           /\ resource[Head(blocked[r])] = r
           /\ Tail(blocked[r]) \in Seq(AllTasks)
           /\ IsInjective(Tail(blocked[r]))
           /\ Listed(Tail(blocked[r])) = Listed(blocked[r]) \ {Head(blocked[r])}
           /\ SortedByPrio(Tail(blocked[r]), priority)
<1>1. /\ blocked[r] \in Seq(AllTasks) /\ IsInjective(blocked[r])
      /\ SortedByPrio(blocked[r], priority)
      /\ \A t \in Listed(blocked[r]) : t \in AllTasks /\ resource[t] = r
  BY BlockedFacts
<1>2. /\ Head(blocked[r]) \in Listed(blocked[r])
      /\ Tail(blocked[r]) \in Seq(AllTasks)
      /\ IsInjective(Tail(blocked[r]))
      /\ Listed(Tail(blocked[r])) = Listed(blocked[r]) \ {Head(blocked[r])}
  BY <1>1, TailFacts
<1>3. SortedByPrio(Tail(blocked[r]), priority)
  BY <1>1, SortedTail
<1> QED
  BY <1>1, <1>2, <1>3

(* The list that a locker joins.                                           *)
LEMMA LockerJoins ==
    ASSUME MutexInv, TaskRuns, NEW r \in Resources,
           CanInsert(blocked[r], current, priority),
           NEW s, s = InsertByPrio(blocked[r], current, priority)
    PROVE  /\ s \in Seq(AllTasks) /\ IsInjective(s)
           /\ Listed(s) = Listed(blocked[r]) \union {current}
           /\ SortedByPrio(s, priority)
           /\ s # << >> /\ Head(s) \in Listed(s) /\ Head(s) \in AllTasks
           /\ \A t \in Listed(s) : priority[Head(s)] <= priority[t]
<1>1. /\ blocked[r] \in Seq(AllTasks) /\ IsInjective(blocked[r])
      /\ SortedByPrio(blocked[r], priority)
      /\ priority \in [AllTasks -> Nat]
  BY BlockedFacts
<1>2. current \in AllTasks /\ current \notin Listed(blocked[r])
  BY RunnerFacts
<1>3. /\ s \in Seq(AllTasks) /\ IsInjective(s)
      /\ Listed(s) = Listed(blocked[r]) \union {current}
      /\ SortedByPrio(s, priority)
  BY <1>1, <1>2, JoinFacts
<1>4. s # << >>
  BY <1>3 DEF Listed
<1>5. Head(s) \in Listed(s) /\ Head(s) \in AllTasks
  BY <1>3, <1>4, HeadListed, HeadIsTask
<1>6. \A t \in Listed(s) : priority[Head(s)] <= priority[t]
  BY <1>1, <1>3, HeadIsMostUrgent
<1> QED
  BY <1>3, <1>4, <1>5, <1>6

(* Relinked moves a task that is on the list, and no other.                *)
LEMMA RelinkedFacts ==
    ASSUME MutexInv, NEW s, NEW S, ReadyList(s, S, priority),
           NEW t \in AllTasks, t # BG,
           t \in S <=> flags[t] \intersect CheckBits = {},
           NEW v, NEW q, Reprioritised(priority, t, v, q), v < priority[BG]
    PROVE  /\ ReadyList(Relinked(s, t, q), S, q)
           /\ t # Head(s) => Head(Relinked(s, t, q)) \in {t, Head(s)}
<1>1. priority \in [AllTasks -> Nat]
  BY DEF MutexInv, RuleInv, Inv, TypeOK, TypeOfTCBs
<1>2. CASE t \in S
  <2>1. Relinked(s, t, q) = InsertByPrio(Unlink(s, t), t, q)
    BY <1>2 DEF Relinked
  <2> QED
    BY <1>1, <1>2, <2>1, ReadyRelinks
<1>3. CASE t \notin S
  <2>1. Relinked(s, t, q) = s
    BY <1>3 DEF Relinked
  <2> QED
    BY <1>3, <2>1, ReadyIgnores
<1> QED
  BY <1>2, <1>3

-----------------------------------------------------------------------------
(***************************************************************************)
(* The scheduler's part of the three steps that combine its calls.         *)
(***************************************************************************)

LEMMA PrioritiesKept ==
    ASSUME Inv, NEW t \in created \ {BG}, NEW v,
           Reprioritised(priority, t, v, priority'), v < priority[BG],
           created' = created
    PROVE  PrioritiesInv'
<1>1. created \subseteq AllTasks /\ BG \in AllTasks /\ t \in AllTasks
  BY ListsTyped DEF AllTasks
<1>2. /\ priority'[t] = v
      /\ \A x \in AllTasks \ {t} : priority'[x] = priority[x]
  BY DEF Reprioritised
<1>3. priority'[BG] = BasePrio[BG] /\ priority[BG] = BasePrio[BG]
  BY <1>1, <1>2 DEF Inv, PrioritiesInv
<1> QED
  BY <1>1, <1>2, <1>3 DEF Inv, PrioritiesInv

(* Nothing but the lists, the control blocks and the switch changes.       *)
LEMMA InvHolds ==
    ASSUME Inv, NEW S, NextLists(S), PrioritiesInv', TypeOfTCBs',
           UNCHANGED <<current, late, started, tickCntr, inTick>>,
           next' \in AllTasks \union {NoTask}, pend' \in BOOLEAN,
           cursor' \in created \union {NoTask}
    PROVE  Inv'
<1>1. TypeOfLists' /\ ListsInv'
  BY NextListsHold
<1>2. TypeOfSwitch'
  BY DEF NextLists, Inv, TypeOK, TypeOfSwitch
<1>3. cursor' \in AllTasks \union {NoTask}
  BY ListsTyped
<1>4. TypeOfTick'
  BY <1>3 DEF Inv, TypeOK, TypeOfTick
<1>5. cursor' \in created' \union {NoTask}
  BY DEF NextLists
<1> QED
  BY <1>1, <1>2, <1>4, <1>5 DEF Inv, TypeOK

(* What a lock that blocks does.                                           *)
LEMMA LockBlocksDoes ==
    ASSUME MutexInv, Careful, NEW r \in Resources, NEW p, LockBlocks(r, p),
           NEW s, s = InsertByPrio(blocked[r], current, priority)
    PROVE  /\ TaskRuns /\ calling[current] = NoRes /\ lock[r] = 0
           /\ CanInsert(blocked[r], current, priority)
           /\ blocked' = [blocked EXCEPT ![r] = s]
           /\ \/ /\ ~Lends(r, s)
                 /\ UNCHANGED <<priority, lending>>
                 /\ ready' = Tail(ready)
              \/ /\ Lends(r, s)
                 /\ holder[r] \in holds[r] /\ holder[r] # current
                 /\ Reprioritised(priority, holder[r], priority[Head(s)], priority')
                 /\ priority[Head(s)] < priority[holder[r]]
                 /\ inherited' = [inherited EXCEPT ![r] = priority[Head(s)]]
                 /\ real' = [real EXCEPT ![r] =
                               IF @ = DefaultPrio THEN priority[holder[r]] ELSE @]
                 /\ ready' = Relinked(Tail(ready), holder[r], priority')
<1>1. /\ TaskRuns /\ calling[current] = NoRes /\ lock[r] = 0
      /\ BlockTask(r, current)
  BY DEF LockBlocks, InApplication
<1>2. /\ CanInsert(blocked[r], current, priority)
      /\ holder[r] # current
      /\ blocked' = [blocked EXCEPT ![r] = s]
  BY <1>1, CarefulGives DEF BlockTask
<1>3. CASE ~Lends(r, s)
  BY <1>1, <1>2, <1>3 DEF BlockTask
<1>4. CASE Lends(r, s)
  <2>1. /\ priority' = [priority EXCEPT ![holder[r]] = priority[Head(s)]]
        /\ inherited' = [inherited EXCEPT ![r] = priority[Head(s)]]
        /\ real' = [real EXCEPT ![r] =
                      IF @ = DefaultPrio THEN priority[holder[r]] ELSE @]
        /\ ready' = Relinked(Tail(ready), holder[r], priority')
    BY <1>1, <1>2, <1>4 DEF BlockTask
  <2>2. holder[r] # NoTask /\ priority[Head(s)] < priority[holder[r]]
    BY <1>4 DEF Lends
  <2>3. holder[r] \in holds[r]
    BY <1>1, <2>2 DEF MutexInv, HoldersKnown, OneHolder
  <2>4. holder[r] \in AllTasks
    BY <2>3, HolderFacts
  <2>5. Head(s) \in AllTasks
    BY <1>1, <1>2, LockerJoins
  <2>6. priority \in [AllTasks -> Nat]
    BY BlockedFacts
  <2>7. priority[Head(s)] \in Nat
    BY <2>5, <2>6
  <2>8. Reprioritised(priority, holder[r], priority[Head(s)], priority')
    BY <2>1, <2>4, <2>6, <2>7, PriorityChanged
  <2> QED
    BY <1>1, <1>2, <1>4, <2>1, <2>2, <2>3, <2>8
<1> QED
  BY <1>3, <1>4

(* The ready list after a lock that blocks: the caller left it, and the    *)
(* holder may have moved up.                                               *)
LEMMA LockBlocksLists ==
    ASSUME MutexInv, Careful, NEW r \in Resources, NEW p, LockBlocks(r, p)
    PROVE  /\ NextLists(Listed(ready) \ {current})
           /\ PrioritiesInv'
           /\ priority' \in [AllTasks -> Nat]
<1> DEFINE s == InsertByPrio(blocked[r], current, priority)
           F == flags[current] \union BitsOf["mutex"] \union {SLEEP}
           S == Listed(ready) \ {current}
<1>1. /\ TaskRuns /\ CanInsert(blocked[r], current, priority)
      /\ \/ /\ UNCHANGED priority
            /\ ready' = Tail(ready)
         \/ /\ holder[r] \in holds[r] /\ holder[r] # current
            /\ Reprioritised(priority, holder[r], priority[Head(s)], priority')
            /\ priority[Head(s)] < priority[holder[r]]
            /\ ready' = Relinked(Tail(ready), holder[r], priority')
  BY LockBlocksDoes
<1>2. /\ flags' = [flags EXCEPT ![current] = F]
      /\ wait' = <<Head(ready)>> \o wait
      /\ UNCHANGED <<created, fault>>
  <2>1. \A x : x \union (BitsOf["mutex"] \union {SLEEP}) =
               (x \union BitsOf["mutex"]) \union {SLEEP}
    OBVIOUS
  <2> QED
    BY <2>1 DEF LockBlocks
<1>3. Head(s) \in AllTasks
  BY <1>1, LockerJoins
<1> HIDE DEF s
<1>4. /\ current \in AllTasks /\ current # BG
      /\ current = Head(ready) /\ current \in Listed(ready)
      /\ current \notin Listed(wait)
      /\ flags[current] \intersect CheckBits = {}
  BY <1>1, RunnerFacts
<1>5. /\ ready \in Seq(AllTasks) /\ wait \in Seq(AllTasks)
      /\ IsInjective(wait)
      /\ Listed(ready) \intersect Listed(wait) = {}
      /\ Listed(ready) \union Listed(wait) = created
      /\ created \subseteq AllTasks
      /\ priority \in [AllTasks -> Nat]
  BY ListsKnown DEF MutexInv, RuleInv, ListRules
<1>6. fault = "none"
  BY <1>1 DEF TaskRuns
<1>7. ReadyList(Tail(ready), S, priority)
  BY <1>4, ReadyIsList, ReadyDrops DEF MutexInv
<1>8. /\ ReadyList(ready', S, priority')
      /\ PrioritiesInv'
      /\ priority' \in [AllTasks -> Nat]
  <2>1. CASE UNCHANGED priority /\ ready' = Tail(ready)
    <3>1. PrioritiesInv'
      BY <1>2, <2>1 DEF MutexInv, RuleInv, Inv, PrioritiesInv
    <3> QED
      BY <1>5, <1>7, <2>1, <3>1
  <2>2. CASE /\ holder[r] \in holds[r] /\ holder[r] # current
             /\ Reprioritised(priority, holder[r], priority[Head(s)], priority')
             /\ priority[Head(s)] < priority[holder[r]]
             /\ ready' = Relinked(Tail(ready), holder[r], priority')
    <3> DEFINE h == holder[r]
    <3>1. /\ h \in AllTasks /\ h # BG /\ h \in created
          /\ priority[h] < priority[BG]
      BY <2>2, HolderFacts
    <3>2. h \in S <=> flags[h] \intersect CheckBits = {}
      BY <1>5, <2>2, <3>1
         DEF MutexInv, RuleInv, ListRules, FlagsInv, FlagsTellList
    <3>3. priority[Head(s)] < priority[BG]
      <4>1. BG \in AllTasks
        BY DEF AllTasks
      <4> QED
        BY <1>3, <1>5, <2>2, <3>1, <4>1
    <3> HIDE DEF h
    <3>4. ReadyList(Relinked(Tail(ready), h, priority'), S, priority')
      <4>1. Reprioritised(priority, h, priority[Head(s)], priority')
        BY <2>2 DEF h
      <4> HIDE DEF S
      <4> QED
        BY <1>7, <3>1, <3>2, <3>3, <4>1, RelinkedFacts
    <3>5. PrioritiesInv'
      <4>1. Reprioritised(priority, h, priority[Head(s)], priority')
        BY <2>2 DEF h
      <4> QED
        BY <1>2, <3>1, <3>3, <4>1, PrioritiesKept DEF MutexInv, RuleInv
    <3>6. priority' \in [AllTasks -> Nat]
      BY <2>2 DEF Reprioritised
    <3> QED
      BY <2>2, <3>4, <3>5, <3>6 DEF h
  <2> QED
    BY <1>1, <2>1, <2>2
<1>9. /\ wait' \in Seq(AllTasks) /\ IsInjective(wait')
      /\ Listed(wait') = Listed(wait) \union {current}
  BY <1>2, <1>4, <1>5, PrependFacts
<1>10. Suspended' = Suspended /\ current \notin Suspended
  <2>1. SUSPENDED \notin F /\ SUSPENDED \notin flags[current]
    BY <1>4 DEF BitsOf, CheckBits, SLEEP, SUSPENDED
  <2> HIDE DEF F
  <2> QED
    BY <1>2, <1>4, <2>1
       DEF Suspended, MutexInv, RuleInv, Inv, TypeOK, TypeOfTCBs
<1>11. AtEnd(wait', Suspended')
  <2>1. AtEnd(wait, Suspended)
    BY ListsTyped DEF MutexInv, RuleInv
  <2> QED
    BY <1>2, <1>4, <1>5, <1>10, <2>1, AtEndPrepend
<1>12. /\ Listed(ready) \intersect Suspended = {}
       /\ Suspended \subseteq created
  BY DEF MutexInv, RuleInv, Inv, ListsInv
<1>13. S \intersect Listed(wait') = {} /\ S \union Listed(wait') = created
  BY <1>4, <1>5, <1>9
<1>14. S \intersect Suspended' = {}
  BY <1>10, <1>12
<1> HIDE DEF S, F
<1>15. NextLists(S)
  BY <1>2, <1>6, <1>8, <1>9, <1>10, <1>11, <1>12, <1>13, <1>14 DEF NextLists
<1> QED
  BY <1>8, <1>15 DEF S

LEMMA LockBlocksRules ==
    ASSUME MutexInv, Careful, NEW r \in Resources, NEW p \in Periods \ {0},
           LockBlocks(r, p)
    PROVE  RuleInv' /\ HeldInv'
<1> DEFINE B == BitsOf["mutex"]
           F == flags[current] \union B \union {SLEEP}
           S == Listed(ready) \ {current}
<1>1. /\ TaskRuns /\ OutlastsSwitch(p)
      /\ flags' = [flags EXCEPT ![current] = F]
      /\ resource' = [resource EXCEPT ![current] = r]
      /\ sleepCntr' = [sleepCntr EXCEPT ![current] = p]
      /\ wait' = <<Head(ready)>> \o wait
      /\ next' = Head(ready') /\ pend' = TRUE
      /\ UNCHANGED <<created, wakeReason, current, late, started, tickVars>>
  <2>1. \A x : x \union (B \union {SLEEP}) = (x \union B) \union {SLEEP}
    OBVIOUS
  <2> QED
    BY <2>1 DEF LockBlocks, InApplication, SwitchTo
<1>2. /\ current \in AllTasks /\ current \in created
      /\ current = Head(ready) /\ current \notin Listed(wait)
      /\ HeldBits(current) = {}
  BY <1>1, RunnerFacts
<1>3. /\ NextLists(S) /\ PrioritiesInv'
      /\ priority' \in [AllTasks -> Nat]
  BY LockBlocksLists
<1>4. /\ ListsInv' /\ SoundLists'
      /\ SortedByPrio(ready', priority')
      /\ ready' \in Seq(AllTasks) /\ ready' # << >>
      /\ Listed(ready') = S /\ Head(ready') \in S
  BY <1>3, NextListsHold DEF MutexInv, RuleInv
<1>5. p \in 0 .. CntMod - 1 /\ r # NoRes
  BY TickAssumption, NoResIsNone
<1>6. TypeOfTCBs'
  <2>1. F \subseteq CheckBits \union ResourceBits
    <3>1. flags[current] \subseteq CheckBits \union ResourceBits
      BY <1>2, FlagsOfTyped DEF MutexInv, RuleInv, Inv, TypeOK
    <3>2. B \subseteq ResourceBits /\ SLEEP \in CheckBits
      BY DEF BitsOf, ResourceBits, CheckBits
    <3> QED
      BY <3>1, <3>2
  <2> HIDE DEF F
  <2>2. flags' \in [AllTasks -> SUBSET (CheckBits \union ResourceBits)]
    BY <1>1, <2>1, FlagsTyped DEF MutexInv, RuleInv, Inv, TypeOK
  <2>3. sleepCntr' \in [AllTasks -> 0 .. CntMod - 1]
    BY <1>1, <1>5 DEF MutexInv, RuleInv, Inv, TypeOK, TypeOfTCBs
  <2>4. resource' \in [AllTasks -> Resources \union {NoRes}]
    BY <1>1 DEF MutexInv, RuleInv, Inv, TypeOK, TypeOfTCBs
  <2> QED
    BY <1>1, <1>3, <2>2, <2>3, <2>4
       DEF MutexInv, RuleInv, Inv, TypeOK, TypeOfTCBs
<1>7. Inv'
  <2>1. next' \in AllTasks \union {NoTask}
    BY <1>1, <1>4, HeadIsTask
  <2>2. cursor' \in created \union {NoTask}
    BY <1>1 DEF tickVars, MutexInv, RuleInv, Inv
  <2> HIDE DEF S
  <2> QED
    BY <1>1, <1>3, <1>6, <2>1, <2>2, InvHolds
       DEF tickVars, MutexInv, RuleInv
<1>8. ListRules'
  <2>1. Listed(wait') = Listed(wait) \union {current}
    BY <1>1, <1>2, PrependFacts, ListsKnown DEF MutexInv, RuleInv, ListRules
  <2>2. F \intersect CheckBits # {}
    BY DEF CheckBits
  <2> HIDE DEF F
  <2>3. FlagsInv'
    BY <1>1, <1>2, <1>4, <2>1, <2>2, FlagsFollow
       DEF MutexInv, RuleInv, ListRules
  <2> QED
    BY <1>4, <2>3 DEF ListRules
<1>9. /\ started /\ ~pend /\ ~inTick /\ late = 0
  BY <1>1, RunningTask DEF MutexInv
<1>10. SwitchInv'
  <2>1. current # Head(ready')
    BY <1>4
  <2> QED
    BY <1>1, <1>9, <2>1 DEF SwitchInv, tickVars
<1>11. OutlastInv'
  <2>1. sleepCntr'[current'] = p
    BY <1>1, <1>2 DEF MutexInv, RuleInv, Inv, TypeOK, TypeOfTCBs
  <2>2. ToVisit' = {}
    BY <1>1, <1>9 DEF ToVisit, tickVars
  <2>3. p > LateTicks
    BY <1>1 DEF OutlastsSwitch, Careful
  <2>4. p + late' > LateTicks
    BY <1>1, <1>5, <1>9, <2>3, TickAssumption
  <2> QED
    BY <2>1, <2>2, <2>4 DEF OutlastInv
<1>12. HeldInv'
  <2>1. KindOf[r] = "mutex"
    BY MutexAssumption
  <2>2. B \subseteq ResourceBits /\ SLEEP \notin ResourceBits
    BY DEF BitsOf, ResourceBits, SLEEP
  <2>3. F \intersect ResourceBits = BitsOf[KindOf[r]] /\ SLEEP \in F
    <3> HIDE DEF B
    <3>1. F \intersect ResourceBits = B
      BY <1>2, <2>2 DEF HeldBits
    <3> QED
      BY <2>1, <3>1 DEF B
  <2> HIDE DEF F
  <2> QED
    BY <1>1, <1>2, <1>5, <2>3, HeldFollows DEF MutexInv, RuleInv
<1> QED
  BY <1>7, <1>8, <1>10, <1>11, <1>12 DEF RuleInv

(* What an unlock that wakes a waiter does to the lists: the caller may    *)
(* move down, at its own priority, and the waiter is linked.               *)
LEMMA UnlockDoes ==
    ASSUME MutexInv, Careful, NEW r \in Resources, Unlock(r),
           blocked[r] # << >>, NEW w, w = Head(blocked[r])
    PROVE  /\ TaskRuns /\ current \in holds[r] /\ holder[r] = current
           /\ lock' = [lock EXCEPT ![r] = @ + 1]
           /\ holds' = [holds EXCEPT ![r] = @ \ {current}]
           /\ holder' = [holder EXCEPT ![r] = NoTask]
           /\ blocked' = [blocked EXCEPT ![r] = Tail(blocked[r])]
           /\ resource' = [resource EXCEPT ![w] = NoRes]
           /\ inherited' = [inherited EXCEPT ![r] = DefaultPrio]
           /\ real' = [real EXCEPT ![r] = DefaultPrio]
           /\ calling' = calling /\ created' = created
           /\ Reprioritised(priority, current, BasePrio[current], priority')
           /\ \/ /\ ~Lent(r) /\ priority' = priority
                 /\ ready' = InsertByPrio(ready, w, priority')
              \/ /\ Lent(r)
                 /\ ready' = InsertByPrio(Relinked(ready, current, priority'),
                                          w, priority')
<1>1. /\ TaskRuns /\ current \in holds[r] /\ holder[r] = current
      /\ UnblockTask(r, w)
      /\ lock' = [lock EXCEPT ![r] = @ + 1]
      /\ holds' = [holds EXCEPT ![r] = @ \ {current}]
      /\ calling' = calling
  BY CarefulGives DEF Unlock, InApplication
<1>2. /\ blocked' = [blocked EXCEPT ![r] = Tail(blocked[r])]
      /\ TakesBack(r)
      /\ holder' = [holder EXCEPT ![r] = NoTask]
      /\ resource' = [resource EXCEPT ![w] = NoRes]
      /\ created' = created
      /\ ready' = InsertByPrio(IF inherited[r] = DefaultPrio
                                 THEN ready
                                 ELSE Relinked(ready, current, priority'),
                               w, priority')
  BY <1>1 DEF UnblockTask, MutexInv, MutexTypes
<1>3. /\ inherited' = [inherited EXCEPT ![r] = DefaultPrio]
      /\ real' = [real EXCEPT ![r] = DefaultPrio]
      /\ priority' = IF Lent(r) THEN [priority EXCEPT ![current] = real[r]]
                                ELSE priority
  BY <1>2 DEF TakesBack, Lent
<1>4. /\ current \in AllTasks
      /\ priority[current] = IF Lent(r) THEN inherited[r] ELSE BasePrio[current]
  BY <1>1, HolderFacts
<1>5. priority \in [AllTasks -> Nat] /\ BasePrio[current] \in Nat
  BY <1>4, BlockedFacts, TaskAssumption
<1>6. Lent(r) => real[r] = BasePrio[current]
  BY <1>1 DEF MutexInv, LoansKnown, LoanOf
<1>7. Reprioritised(priority, current, BasePrio[current], priority')
  <2>1. CASE Lent(r)
    BY <1>3, <1>4, <1>5, <1>6, <2>1, PriorityChanged
  <2>2. CASE ~Lent(r)
    BY <1>3, <1>4, <1>5, <2>2 DEF Reprioritised
  <2> QED
    BY <2>1, <2>2
<1>8. CASE Lent(r)
  BY <1>1, <1>2, <1>3, <1>7, <1>8 DEF Lent
<1>9. CASE ~Lent(r)
  BY <1>1, <1>2, <1>3, <1>7, <1>9 DEF Lent
<1> QED
  BY <1>8, <1>9

LEMMA UnlockLists ==
    ASSUME MutexInv, Careful, NEW r \in Resources, Unlock(r),
           blocked[r] # << >>, NEW w, w = Head(blocked[r]),
           NEW F, SUSPENDED \notin F, flags' = [flags EXCEPT ![w] = F],
           wait' = Unlink(wait, w), fault' = fault
    PROVE  /\ NextLists(Listed(ready) \union {w})
           /\ PrioritiesInv'
           /\ priority' \in [AllTasks -> Nat]
<1> DEFINE S == Listed(ready)
<1>1. /\ TaskRuns /\ current \in holds[r] /\ created' = created
      /\ Reprioritised(priority, current, BasePrio[current], priority')
      /\ \/ /\ priority' = priority
            /\ ready' = InsertByPrio(ready, w, priority')
         \/ ready' = InsertByPrio(Relinked(ready, current, priority'),
                                  w, priority')
  BY UnlockDoes
<1>2. w \in AllTasks /\ resource[w] # NoRes
  BY FirstLeaves, NoResIsNone
<1>3. /\ w \in created /\ w \in Tasks
      /\ w \in Listed(wait) /\ w \notin S
      /\ priority[w] < priority[BG]
      /\ \A q \in Resources : w \notin holds[q]
  BY <1>2, WaiterFacts
<1>4. /\ current \in AllTasks /\ current # BG /\ current \in created
      /\ current \in S
      /\ flags[current] \intersect CheckBits = {}
  BY <1>1, RunnerFacts
<1>5. /\ ready \in Seq(AllTasks) /\ wait \in Seq(AllTasks)
      /\ IsInjective(wait)
      /\ S \intersect Listed(wait) = {}
      /\ S \union Listed(wait) = created
      /\ priority \in [AllTasks -> Nat]
  BY ListsKnown DEF MutexInv, RuleInv, ListRules
<1>6. priority' \in [AllTasks -> Nat]
  BY <1>1 DEF Reprioritised
<1>7. BasePrio[current] < priority[BG]
  <2>1. current \in Tasks
    BY <1>4 DEF AllTasks
  <2>2. priority[BG] = BasePrio[BG]
    BY DEF MutexInv, RuleInv, Inv, PrioritiesInv
  <2> QED
    BY <2>1, <2>2, TaskAssumption
<1>8. PrioritiesInv'
  BY <1>1, <1>4, <1>7, PrioritiesKept DEF MutexInv, RuleInv
<1>9. ReadyList(ready, S, priority)
  BY ReadyIsList DEF MutexInv
<1>10. ReadyList(Relinked(ready, current, priority'), S, priority')
  <2>1. current \in S <=> flags[current] \intersect CheckBits = {}
    BY <1>4
  <2> HIDE DEF S
  <2> QED
    BY <1>1, <1>4, <1>7, <1>9, <2>1, RelinkedFacts
<1>11. w \in AllTasks \ S /\ priority'[w] < priority'[BG]
  <2>1. w # current /\ BG \in AllTasks
    BY <1>1, <1>3 DEF AllTasks
  <2> QED
    BY <1>1, <1>2, <1>3, <1>4, <2>1 DEF Reprioritised
<1> HIDE DEF S
<1>12. ReadyList(ready', S \union {w}, priority')
  <2>1. CASE /\ priority' = priority
             /\ ready' = InsertByPrio(ready, w, priority')
    BY <1>5, <1>9, <1>11, <2>1, ReadyAdds
  <2>2. CASE ready' = InsertByPrio(Relinked(ready, current, priority'),
                                   w, priority')
    BY <1>6, <1>10, <1>11, <2>2, ReadyAdds
  <2> QED
    BY <1>1, <2>1, <2>2
<1>13. /\ wait' \in Seq(AllTasks) /\ IsInjective(wait')
       /\ Listed(wait') = Listed(wait) \ {w}
  BY <1>3, <1>5, UnlinkFacts
<1>14. Suspended' = Suspended \ {w}
  BY <1>2 DEF Suspended, MutexInv, RuleInv, Inv, TypeOK, TypeOfTCBs
<1>15. /\ S \intersect Suspended = {}
       /\ Suspended \subseteq created
       /\ AtEnd(wait, Suspended)
  BY DEF S, MutexInv, RuleInv, Inv, ListsInv
<1>16. AtEnd(wait', Suspended')
  <2>1. AtEnd(wait', Suspended)
    BY <1>3, <1>5, <1>15, AtEndUnlink
  <2>2. \A x \in Listed(wait') : x \in Suspended <=> x \in Suspended'
    BY <1>13, <1>14
  <2> QED
    BY <1>13, <2>1, <2>2, AtEndSame
<1>17. fault = "none"
  BY <1>1 DEF TaskRuns
<1>18. /\ (S \union {w}) \intersect Listed(wait') = {}
       /\ (S \union {w}) \union Listed(wait') = created
       /\ (S \union {w}) \intersect Suspended' = {}
       /\ Suspended' \subseteq created
  BY <1>3, <1>5, <1>13, <1>14, <1>15
<1>19. NextLists(S \union {w})
  BY <1>1, <1>12, <1>13, <1>16, <1>17, <1>18 DEF NextLists
<1> QED
  BY <1>6, <1>8, <1>19 DEF S

LEMMA UnlockRules ==
    ASSUME MutexInv, Careful, NEW r \in Resources, Unlock(r),
           blocked[r] # << >>
    PROVE  RuleInv' /\ HeldInv'
<1> DEFINE w == Head(blocked[r])
           F == (flags[w] \ BitsOf["mutex"]) \ CheckBits
           S == Listed(ready) \union {w}
<1>1. /\ TaskRuns /\ PreemptIfHeadChanged
      /\ flags' = [flags EXCEPT ![w] = F]
      /\ wakeReason' = [wakeReason EXCEPT ![w] = "mutex"]
      /\ resource' = [resource EXCEPT ![w] = NoRes]
      /\ sleepCntr' = [sleepCntr EXCEPT ![w] = 0]
      /\ wait' = Unlink(wait, w)
      /\ UNCHANGED <<created, tickVars, fault>>
  BY DEF Unlock, InApplication, UnblockTask
<1>2. w \in AllTasks /\ resource[w] = r /\ r # NoRes
  BY FirstLeaves, NoResIsNone
<1>3. w \in created /\ w \in Listed(wait)
  BY <1>2, WaiterFacts
<1>4. F \subseteq flags[w] /\ SUSPENDED \notin F /\ F \intersect CheckBits = {}
  BY DEF CheckBits
<1>5. F \intersect ResourceBits = {}
  <2>1. HeldBits(w) = BitsOf["mutex"]
    BY <1>2, MutexAssumption DEF MutexInv, HeldInv
  <2> QED
    BY <2>1 DEF HeldBits
<1> HIDE DEF F, w
<1>6. NextLists(S) /\ PrioritiesInv' /\ priority' \in [AllTasks -> Nat]
  BY <1>1, <1>4, UnlockLists DEF w
<1>7. /\ ListsInv' /\ SoundLists'
      /\ SortedByPrio(ready', priority')
      /\ ready' \in Seq(AllTasks) /\ ready' # << >>
      /\ Listed(ready') = S /\ Head(ready') \in S
  BY <1>6, NextListsHold DEF MutexInv, RuleInv
<1>8. /\ current \in Listed(ready) /\ current \notin Listed(wait)
      /\ started /\ ~pend /\ ~inTick
  BY <1>1, RunnerFacts, RunningTask DEF MutexInv
<1>9. TypeOfTCBs'
  <2>1. flags' \in [AllTasks -> SUBSET (CheckBits \union ResourceBits)]
    BY <1>1, <1>2, <1>4, FlagsOfTyped, FlagsTyped
       DEF MutexInv, RuleInv, Inv, TypeOK
  <2>2. 0 \in 0 .. CntMod - 1 /\ "mutex" \in Reasons
    BY TickAssumption DEF Reasons, Kinds
  <2>3. sleepCntr' \in [AllTasks -> 0 .. CntMod - 1]
    BY <1>1, <2>2 DEF MutexInv, RuleInv, Inv, TypeOK, TypeOfTCBs
  <2>4. resource' \in [AllTasks -> Resources \union {NoRes}]
    BY <1>1 DEF MutexInv, RuleInv, Inv, TypeOK, TypeOfTCBs
  <2>5. wakeReason' \in [AllTasks -> Reasons]
    BY <1>1, <2>2 DEF MutexInv, RuleInv, Inv, TypeOK, TypeOfTCBs
  <2> QED
    BY <1>6, <2>1, <2>3, <2>4, <2>5 DEF TypeOfTCBs
<1>10. UNCHANGED <<current, late, started>>
  BY <1>1 DEF PreemptIfHeadChanged
<1>11. Inv'
  <2>1. Head(ready') \in AllTasks
    BY <1>7, HeadIsTask
  <2>2. next' \in AllTasks \union {NoTask} /\ pend' \in BOOLEAN
    BY <1>1, <2>1 DEF PreemptIfHeadChanged, SwitchTo,
                      MutexInv, RuleInv, Inv, TypeOK, TypeOfSwitch
  <2>3. cursor' \in created \union {NoTask}
    BY <1>1 DEF tickVars, MutexInv, RuleInv, Inv
  <2> HIDE DEF S
  <2> QED
    BY <1>1, <1>6, <1>9, <1>10, <2>2, <2>3, InvHolds
       DEF tickVars, MutexInv, RuleInv
<1>12. ListRules'
  <2>1. Listed(wait') = Listed(wait) \ {w}
    BY <1>1, <1>3, UnlinkFacts, ListsKnown DEF MutexInv, RuleInv, ListRules
  <2>2. FlagsInv'
    BY <1>1, <1>3, <1>4, <1>7, <2>1, FlagsFollow
       DEF MutexInv, RuleInv, ListRules
  <2> QED
    BY <1>7, <2>2 DEF ListRules
<1>13. SwitchInv'
  <2>1. current \in Listed(ready')
    BY <1>7, <1>8
  <2> QED
    BY <1>1, <1>8, <2>1, PreemptSwitch DEF MutexInv, RuleInv
<1>14. OutlastInv'
  <2>1. current \in Listed(ready')
    BY <1>7, <1>8
  <2>2. Listed(ready') \intersect Listed(wait') = {}
    BY <1>6, <1>7 DEF NextLists
  <2> QED
    BY <1>10, <2>1, <2>2, OutlastReady
<1>15. HeldInv'
  BY <1>1, <1>2, <1>5, HeldFollows DEF MutexInv, RuleInv
<1> QED
  BY <1>11, <1>12, <1>13, <1>14, <1>15 DEF RuleInv

(* A task at least as urgent as the head becomes the head.                 *)
LEMMA InsertsAtHead ==
    ASSUME NEW S, NEW s \in Seq(S), s # << >>, NEW t \in S, NEW prio,
           prio[t] <= prio[Head(s)]
    PROVE  Head(InsertByPrio(s, t, prio)) = t
<1>1. InsertByPrio(s, t, prio) = InsertAt(s, 1, t)
  BY DEF InsertByPrio, InsertPoint, HeadInsert
<1>2. Inserted(S, s, 1, t, InsertAt(s, 1, t))
  <2>1. 1 \in 1 .. Len(s) + 1
    OBVIOUS
  <2> QED
    BY <2>1, InsertedAt
<1> QED
  BY <1>1, <1>2 DEF Inserted

(* What a time-out does.  No waiter that stays is more urgent than the one *)
(* whose priority was lent, so the holder gets its own priority back.      *)
LEMMA TimeoutDoes ==
    ASSUME MutexInv, TickTimesOut,
           NEW t, t = cursor, NEW r, r = resource[cursor]
    PROVE  /\ r \in Resources /\ t \in AllTasks /\ resource[t] = r
           /\ t \in Listed(wait) /\ t \in Listed(blocked[r])
           /\ blocked' = [blocked EXCEPT ![r] = Unlink(blocked[r], t)]
           /\ resource' = [resource EXCEPT ![t] = NoRes]
           /\ UNCHANGED <<lock, holder, calling, holds, created>>
           /\ \/ /\ priority[t] # inherited[r]
                 /\ UNCHANGED <<priority, lending, switchVars>>
                 /\ ready' = InsertByPrio(ready, t, priority)
              \/ /\ Lent(r) /\ priority[t] = inherited[r]
                 /\ holder[r] \in holds[r]
                 /\ inherited' = [inherited EXCEPT ![r] = DefaultPrio]
                 /\ real' = [real EXCEPT ![r] = DefaultPrio]
                 /\ Reprioritised(priority, holder[r], BasePrio[holder[r]],
                                  priority')
                 /\ ready' = InsertByPrio(Relinked(ready, holder[r], priority'),
                                          t, priority')
                 /\ LET own == Relinked(ready, holder[r], priority')
                    IN  IF /\ flags[holder[r]] \intersect CheckBits = {}
                           /\ Head(own) # current
                          THEN SwitchTo(Head(own))
                          ELSE UNCHANGED <<next, pend>>
                 /\ UNCHANGED <<current, late, started>>
<1>1. /\ t \in Listed(wait) /\ r # NoRes
      /\ BlockedTimeout(r, t)
      /\ resource' = [resource EXCEPT ![t] = NoRes]
      /\ UNCHANGED <<lock, holder, calling, holds, created>>
  BY DEF TickTimesOut
<1>2. t \in AllTasks
  BY <1>1, ListsKnown DEF MutexInv, RuleInv, ListRules
<1>3. r \in Resources
  BY <1>1, <1>2 DEF MutexInv, RuleInv, Inv, TypeOK, TypeOfTCBs
<1>4. t \in Listed(blocked[r])
  BY <1>2, <1>3 DEF MutexInv, WaitersMatch
<1>5. blocked' = [blocked EXCEPT ![r] = Unlink(blocked[r], t)]
  BY <1>1 DEF BlockedTimeout
<1>6. CASE priority[t] # inherited[r]
  BY <1>1, <1>2, <1>3, <1>4, <1>5, <1>6 DEF BlockedTimeout
<1>7. CASE priority[t] = inherited[r]
  <2> DEFINE h == holder[r]
             s == Unlink(blocked[r], t)
  <2>1. Lent(r)
    <3>1. priority[t] < DefaultPrio
      BY <1>1, <1>2, WaiterFacts
    <3>2. priority[t] \in Nat
      BY <1>2, <1>3, BlockedFacts
    <3> QED
      BY <1>7, <3>1, <3>2 DEF Lent, DefaultPrio
  <2>2. /\ h \in holds[r] /\ real[r] = BasePrio[h]
        /\ inherited[r] = priority[Head(blocked[r])]
    BY <1>3, <2>1 DEF MutexInv, LoansKnown, LoanOf
  <2>3. /\ blocked[r] \in Seq(AllTasks) /\ IsInjective(blocked[r])
        /\ SortedByPrio(blocked[r], priority)
        /\ priority \in [AllTasks -> Nat]
    BY <1>3, BlockedFacts
  <2>4. AfterTimeout(r, s) = DefaultPrio
    <3>1. s \in Seq(AllTasks) /\ Listed(s) \subseteq Listed(blocked[r])
      BY <1>4, <2>3, UnlinkFacts
    <3> HIDE DEF s
    <3>2. s # << >> => Head(s) \in Listed(blocked[r])
      BY <3>1, HeadListed
    <3>3. \A x \in Listed(blocked[r]) :
             priority[Head(blocked[r])] <= priority[x] /\ x \in AllTasks
      BY <2>3, HeadIsMostUrgent, ListedFacts
    <3>4. inherited[r] \in Nat
      BY <1>3 DEF MutexInv, MutexTypes
    <3>5. s # << >> => ~(priority[Head(s)] < inherited[r])
      BY <2>2, <2>3, <3>2, <3>3, <3>4
    <3> QED
      BY <3>5 DEF AfterTimeout
  <2>5. /\ inherited' = [inherited EXCEPT ![r] = DefaultPrio]
        /\ real' = [real EXCEPT ![r] = DefaultPrio]
        /\ priority' = [priority EXCEPT ![h] = BasePrio[h]]
        /\ ready' = InsertByPrio(Relinked(ready, h, priority'), t, priority')
        /\ LET own == Relinked(ready, h, priority')
           IN  IF flags[h] \intersect CheckBits = {} /\ Head(own) # current
                 THEN SwitchTo(Head(own))
                 ELSE UNCHANGED <<next, pend>>
        /\ UNCHANGED <<current, late, started>>
    BY <1>1, <1>7, <2>2, <2>4 DEF BlockedTimeout
  <2>6. Reprioritised(priority, h, BasePrio[h], priority')
    <3>1. h \in AllTasks
      BY <1>3, <2>2, HolderFacts
    <3>2. BasePrio[h] \in Nat
      BY <3>1, TaskAssumption
    <3> HIDE DEF h
    <3> QED
      BY <2>3, <2>5, <3>1, <3>2, PriorityChanged
  <2> QED
    BY <1>1, <1>2, <1>3, <1>4, <1>5, <1>7, <2>1, <2>2, <2>5, <2>6
<1> QED
  BY <1>6, <1>7

(* The holder moves down and the waiter that lent it its priority is ready *)
(* again.  The head of the ready list is then that waiter or the head that *)
(* was there before; and where the holder was that head, it is the waiter. *)
LEMMA LoanReturned ==
    ASSUME MutexInv, NEW r \in Resources, Lent(r), NEW h \in holds[r],
           NEW q, Reprioritised(priority, h, BasePrio[h], q),
           NEW own, own = Relinked(ready, h, q),
           NEW t \in AllTasks, resource[t] = r, priority[t] = inherited[r]
    PROVE  LET s == InsertByPrio(own, t, q)
           IN  /\ ReadyList(s, Listed(ready) \union {t}, q)
               /\ Head(s) \in {t, Head(ready)}
               /\ flags[h] \intersect CheckBits = {} =>
                     Head(s) = t \/ Head(own) = Head(ready)
<1> DEFINE S == Listed(ready)
           s == InsertByPrio(own, t, q)
<1>1. /\ priority \in [AllTasks -> Nat] /\ BasePrio \in [AllTasks -> Nat]
      /\ ReadyList(ready, S, priority)
      /\ BG \in AllTasks
  BY BlockedFacts, ReadyIsList, TaskAssumption DEF MutexInv, AllTasks
<1>2. /\ h \in AllTasks /\ h \in Tasks /\ h # BG /\ h \in created
      /\ h = holder[r] /\ priority[h] = inherited[r] /\ calling[h] = NoRes
  BY HolderFacts
<1>3. inherited[r] < BasePrio[h]
  BY <1>2 DEF MutexInv, LoansKnown, LoanOf
<1>4. h \in S <=> flags[h] \intersect CheckBits = {}
  <2>1. Listed(ready) \intersect Listed(wait) = {}
        /\ Listed(ready) \union Listed(wait) = created
    BY ListsKnown DEF MutexInv, RuleInv, ListRules
  <2> QED
    BY <1>2, <2>1 DEF MutexInv, RuleInv, ListRules, FlagsInv, FlagsTellList
<1>5. BasePrio[h] < priority[BG]
  <2>1. priority[BG] = BasePrio[BG]
    BY DEF MutexInv, RuleInv, Inv, PrioritiesInv
  <2> QED
    BY <1>2, <2>1, TaskAssumption
<1>6. /\ t \notin S /\ t \in Tasks /\ t # h
      /\ priority[t] < priority[BG]
  <2>1. resource[t] # NoRes
    BY NoResIsNone
  <2>2. calling[t] # NoRes
    BY <2>1, WaiterFacts
  <2> QED
    BY <1>2, <2>1, <2>2, WaiterFacts
<1>7. /\ q \in [AllTasks -> Nat] /\ q[h] = BasePrio[h]
      /\ \A x \in AllTasks \ {h} : q[x] = priority[x]
  BY DEF Reprioritised
<1> HIDE DEF S
<1>8. /\ ReadyList(own, S, q)
      /\ h # Head(ready) => Head(own) \in {h, Head(ready)}
  BY <1>1, <1>2, <1>4, <1>5, RelinkedFacts
<1>9. /\ Head(ready) \in S /\ S \subseteq AllTasks /\ Head(own) \in S
      /\ \A x \in S : priority[Head(ready)] <= priority[x]
      /\ \A x \in S : q[Head(own)] <= q[x]
  BY <1>1, <1>7, <1>8, ReadyHead
<1>10. /\ ReadyList(s, S \union {t}, q)
       /\ Head(s) \in {t, Head(own)}
  <2>1. t \in AllTasks \ S /\ q[t] < q[BG]
    BY <1>1, <1>2, <1>6, <1>7
  <2> QED
    BY <1>7, <1>8, <2>1, ReadyAdds
<1>11. CASE h \notin S
  <2>1. own = ready
    BY <1>4, <1>11 DEF Relinked
  <2> QED
    BY <1>4, <1>10, <1>11, <2>1 DEF S
<1>12. CASE h \in S /\ h # Head(ready)
  <2>1. Head(own) # h
    <3> SUFFICES ASSUME Head(own) = h PROVE FALSE
      OBVIOUS
    <3>1. q[h] <= q[Head(ready)]
      BY <1>9
    <3>2. q[Head(ready)] = priority[Head(ready)]
      BY <1>7, <1>9, <1>12
    <3>3. priority[Head(ready)] <= priority[h]
      BY <1>9, <1>12
    <3>4. priority[h] \in Nat /\ BasePrio[h] \in Nat
          /\ priority[Head(ready)] \in Nat
      BY <1>1, <1>2, <1>9
    <3> QED
      BY <1>2, <1>3, <1>7, <3>1, <3>2, <3>3, <3>4
  <2>2. Head(own) = Head(ready)
    BY <1>8, <1>12, <2>1
  <2> QED
    BY <1>10, <2>2 DEF S
<1>13. CASE h \in S /\ h = Head(ready)
  <2>1. q[t] <= q[Head(own)]
    <3>1. q[t] = priority[h] /\ priority[h] \in Nat
      BY <1>1, <1>2, <1>6, <1>7
    <3>2. priority[h] <= priority[Head(own)]
      BY <1>9, <1>13
    <3>3. priority[Head(own)] <= q[Head(own)]
      <4>1. Head(own) \in AllTasks
        BY <1>9
      <4>2. priority[Head(own)] \in Nat /\ BasePrio[h] \in Nat
        BY <1>1, <1>2, <4>1
      <4>3. CASE Head(own) = h
        BY <1>2, <1>3, <1>7, <4>2, <4>3
      <4>4. CASE Head(own) # h
        BY <1>7, <4>1, <4>2, <4>4
      <4> QED
        BY <4>3, <4>4
    <3>4. priority[Head(own)] \in Nat /\ q[Head(own)] \in Nat
      BY <1>1, <1>7, <1>9
    <3> QED
      BY <3>1, <3>2, <3>3, <3>4
  <2>2. Head(s) = t
    BY <1>8, <2>1, InsertsAtHead DEF ReadyList
  <2> QED
    BY <1>10, <2>2 DEF S
<1> QED
  BY <1>11, <1>12, <1>13

LEMMA TimeoutLists ==
    ASSUME MutexInv, TickTimesOut, NEW t, t = cursor,
           NEW F, SUSPENDED \notin F, flags' = [flags EXCEPT ![t] = F],
           wait' = Unlink(wait, t), UNCHANGED <<fault, created>>
    PROVE  /\ NextLists(Listed(ready) \union {t})
           /\ PrioritiesInv'
           /\ priority' \in [AllTasks -> Nat]
           /\ Head(ready') \in {t, Head(ready)}
           /\ UNCHANGED <<current, late, started>>
           /\ \/ UNCHANGED <<next, pend>>
              \/ /\ next' \in AllTasks /\ pend' = TRUE
                 /\ Head(ready') = t \/ Head(ready) # current
<1> PICK r \in Resources : r = resource[cursor]
  BY TimeoutDoes
<1> DEFINE S == Listed(ready)
           h == holder[r]
<1>1. /\ t \in AllTasks /\ resource[t] = r
      /\ t \in Listed(wait)
      /\ \/ /\ UNCHANGED <<priority, switchVars>>
            /\ ready' = InsertByPrio(ready, t, priority)
         \/ /\ Lent(r) /\ priority[t] = inherited[r]
            /\ h \in holds[r]
            /\ Reprioritised(priority, h, BasePrio[h], priority')
            /\ ready' = InsertByPrio(Relinked(ready, h, priority'), t, priority')
            /\ LET own == Relinked(ready, h, priority')
               IN  IF flags[h] \intersect CheckBits = {} /\ Head(own) # current
                     THEN SwitchTo(Head(own))
                     ELSE UNCHANGED <<next, pend>>
            /\ UNCHANGED <<current, late, started>>
  BY TimeoutDoes
<1>2. /\ t \in created /\ t \in Tasks /\ t \notin S
      /\ priority[t] < priority[BG]
  BY <1>1, NoResIsNone, WaiterFacts
<1>3. /\ ready \in Seq(AllTasks) /\ wait \in Seq(AllTasks)
      /\ IsInjective(wait)
      /\ S \intersect Listed(wait) = {}
      /\ S \union Listed(wait) = created
      /\ priority \in [AllTasks -> Nat]
  BY ListsKnown DEF MutexInv, RuleInv, ListRules
<1>4. ReadyList(ready, S, priority)
  BY ReadyIsList DEF MutexInv
<1>5. /\ ReadyList(ready', S \union {t}, priority')
      /\ PrioritiesInv'
      /\ priority' \in [AllTasks -> Nat]
      /\ Head(ready') \in {t, Head(ready)}
      /\ UNCHANGED <<current, late, started>>
      /\ \/ UNCHANGED <<next, pend>>
         \/ /\ next' \in AllTasks /\ pend' = TRUE
            /\ Head(ready') = t \/ Head(ready) # current
  <2>1. CASE /\ UNCHANGED <<priority, switchVars>>
             /\ ready' = InsertByPrio(ready, t, priority)
    <3>1. PrioritiesInv'
      BY <2>1 DEF MutexInv, RuleInv, Inv, PrioritiesInv
    <3> HIDE DEF S
    <3>2. /\ ReadyList(ready', S \union {t}, priority)
          /\ Head(ready') \in {t, Head(ready)}
      BY <1>1, <1>2, <1>3, <1>4, <2>1, ReadyAdds
    <3> QED
      BY <1>3, <2>1, <3>1, <3>2 DEF switchVars
  <2>2. CASE /\ Lent(r) /\ priority[t] = inherited[r]
             /\ h \in holds[r]
             /\ Reprioritised(priority, h, BasePrio[h], priority')
             /\ ready' = InsertByPrio(Relinked(ready, h, priority'), t, priority')
             /\ LET own == Relinked(ready, h, priority')
                IN  IF flags[h] \intersect CheckBits = {} /\ Head(own) # current
                      THEN SwitchTo(Head(own))
                      ELSE UNCHANGED <<next, pend>>
             /\ UNCHANGED <<current, late, started>>
    <3> HIDE DEF h
    <3> PICK own : own = Relinked(ready, h, priority')
      OBVIOUS
    <3>1. /\ ready' = InsertByPrio(own, t, priority')
          /\ IF flags[h] \intersect CheckBits = {} /\ Head(own) # current
               THEN next' = Head(own) /\ pend' = TRUE
               ELSE UNCHANGED <<next, pend>>
      BY <2>2 DEF SwitchTo
    <3>2. /\ ReadyList(ready', S \union {t}, priority')
          /\ Head(ready') \in {t, Head(ready)}
          /\ flags[h] \intersect CheckBits = {} =>
                Head(ready') = t \/ Head(own) = Head(ready)
      BY <1>1, <2>2, <3>1, LoanReturned
    <3>3. /\ h \in created /\ h # BG /\ h \in Tasks /\ h \in AllTasks
      BY <2>2, HolderFacts
    <3>4. BasePrio[h] < priority[BG]
      <4>1. priority[BG] = BasePrio[BG]
        BY DEF MutexInv, RuleInv, Inv, PrioritiesInv
      <4> QED
        BY <3>3, <4>1, TaskAssumption
    <3>5. PrioritiesInv'
      BY <2>2, <3>3, <3>4, PrioritiesKept DEF MutexInv, RuleInv
    <3>6. priority' \in [AllTasks -> Nat]
      BY <2>2 DEF Reprioritised
    <3>7. Head(own) \in AllTasks
      <4>1. h \in S <=> flags[h] \intersect CheckBits = {}
        BY <1>3, <3>3 DEF MutexInv, RuleInv, ListRules, FlagsInv, FlagsTellList
      <4> HIDE DEF S
      <4>2. ReadyList(own, S, priority')
        BY <1>4, <2>2, <3>3, <3>4, <4>1, RelinkedFacts
      <4> QED
        BY <4>2, HeadIsTask DEF ReadyList
    <3> QED
      BY <2>2, <3>1, <3>2, <3>5, <3>6, <3>7
  <2> QED
    BY <1>1, <2>1, <2>2
<1> HIDE DEF S, h
<1>6. /\ wait' \in Seq(AllTasks) /\ IsInjective(wait')
      /\ Listed(wait') = Listed(wait) \ {t}
  BY <1>1, <1>3, UnlinkFacts
<1>7. Suspended' = Suspended \ {t}
  BY <1>1 DEF Suspended, MutexInv, RuleInv, Inv, TypeOK, TypeOfTCBs
<1>8. /\ S \intersect Suspended = {}
      /\ Suspended \subseteq created
      /\ AtEnd(wait, Suspended)
  BY DEF S, MutexInv, RuleInv, Inv, ListsInv
<1>9. AtEnd(wait', Suspended')
  <2>1. AtEnd(wait', Suspended)
    BY <1>1, <1>3, <1>8, AtEndUnlink
  <2>2. \A x \in Listed(wait') : x \in Suspended <=> x \in Suspended'
    BY <1>6, <1>7
  <2> QED
    BY <1>6, <2>1, <2>2, AtEndSame
<1>10. fault = "none"
  BY DEF TickTimesOut, Visiting
<1>11. /\ (S \union {t}) \intersect Listed(wait') = {}
       /\ (S \union {t}) \union Listed(wait') = created
       /\ (S \union {t}) \intersect Suspended' = {}
       /\ Suspended' \subseteq created
  BY <1>1, <1>2, <1>3, <1>6, <1>7, <1>8
<1>12. NextLists(S \union {t})
  BY <1>5, <1>6, <1>9, <1>10, <1>11 DEF NextLists
<1> QED
  BY <1>5, <1>12 DEF S

LEMMA TimeoutRules ==
    ASSUME MutexInv, TickTimesOut
    PROVE  RuleInv' /\ HeldInv'
<1> DEFINE t == cursor
           F == flags[t] \ ({SLEEP} \union ResourceBits)
           S == Listed(ready) \union {t}
<1>1. /\ Visiting /\ t \in Listed(wait) /\ SUSPENDED \notin flags[t]
      /\ sleepCntr[t] = 1
      /\ flags' = [flags EXCEPT ![t] = F]
      /\ wakeReason' = [wakeReason EXCEPT ![t] = "timeout"]
      /\ resource' = [resource EXCEPT ![t] = NoRes]
      /\ sleepCntr' = [sleepCntr EXCEPT ![t] = 0]
      /\ wait' = Unlink(wait, t)
      /\ cursor' = CursorNext
      /\ UNCHANGED <<created, tickCntr, inTick, fault>>
  BY DEF TickTimesOut
<1>2. fault = "none" /\ inTick /\ started
  BY <1>1 DEF Visiting, MutexInv, RuleInv, SwitchInv
<1>3. F \subseteq flags[t] /\ SUSPENDED \notin F
      /\ F \intersect CheckBits = {} /\ F \intersect ResourceBits = {}
  BY <1>1 DEF CheckBits
<1>4. t \in AllTasks /\ t \in created /\ t \notin Listed(ready)
  BY <1>1, ListsKnown DEF MutexInv, RuleInv, ListRules
<1>5. /\ ToVisit' = ToVisit \ {t}
      /\ t \in ToVisit
  BY <1>1, VisitGoesOn DEF MutexInv, RuleInv, ListRules
<1>6. pend => t # current
  <2> SUFFICES ASSUME pend, t = current PROVE FALSE
    OBVIOUS
  <2>1. 1 + late > LateTicks + 1
    BY <1>1, <1>5 DEF MutexInv, RuleInv, OutlastInv
  <2>2. late \in 0 .. LateTicks
    BY DEF MutexInv, RuleInv, Inv, TypeOK, TypeOfSwitch
  <2> QED
    BY <2>1, <2>2, TickAssumption
<1>7. cursor' \in created \union {NoTask}
  BY <1>1, <1>2, CursorNextCreated DEF MutexInv, RuleInv
<1>8. /\ NextLists(S)
      /\ PrioritiesInv'
      /\ priority' \in [AllTasks -> Nat]
      /\ Head(ready') \in {t, Head(ready)}
      /\ UNCHANGED <<current, late, started>>
      /\ \/ UNCHANGED <<next, pend>>
         \/ /\ next' \in AllTasks /\ pend' = TRUE
            /\ Head(ready') = t \/ Head(ready) # current
  <2> HIDE DEF F
  <2> QED
    BY <1>1, <1>3, TimeoutLists
<1> HIDE DEF F, t
<1>9. /\ ListsInv' /\ SoundLists'
      /\ SortedByPrio(ready', priority')
      /\ Listed(ready') = S
  BY <1>8, NextListsHold DEF MutexInv, RuleInv
<1>10. TypeOfTCBs'
  <2>1. flags' \in [AllTasks -> SUBSET (CheckBits \union ResourceBits)]
    BY <1>1, <1>3, <1>4, FlagsOfTyped, FlagsTyped
       DEF MutexInv, RuleInv, Inv, TypeOK
  <2>2. 0 \in 0 .. CntMod - 1 /\ "timeout" \in Reasons
    BY TickAssumption DEF Reasons
  <2>3. sleepCntr' \in [AllTasks -> 0 .. CntMod - 1]
    BY <1>1, <2>2 DEF MutexInv, RuleInv, Inv, TypeOK, TypeOfTCBs
  <2>4. resource' \in [AllTasks -> Resources \union {NoRes}]
    BY <1>1 DEF MutexInv, RuleInv, Inv, TypeOK, TypeOfTCBs
  <2>5. wakeReason' \in [AllTasks -> Reasons]
    BY <1>1, <2>2 DEF MutexInv, RuleInv, Inv, TypeOK, TypeOfTCBs
  <2> QED
    BY <1>8, <2>1, <2>3, <2>4, <2>5 DEF TypeOfTCBs
<1>11. Inv'
  <2>1. next' \in AllTasks \union {NoTask} /\ pend' \in BOOLEAN
    BY <1>8 DEF MutexInv, RuleInv, Inv, TypeOK, TypeOfSwitch
  <2> HIDE DEF S
  <2> QED
    BY <1>1, <1>7, <1>8, <1>10, <2>1, InvHolds DEF MutexInv, RuleInv
<1>12. Listed(wait') = Listed(wait) \ {t}
  BY <1>1, UnlinkFacts, ListsKnown DEF MutexInv, RuleInv, ListRules
<1>13. ListRules'
  <2>1. FlagsInv'
    BY <1>1, <1>3, <1>4, <1>9, <1>12, FlagsFollow
       DEF MutexInv, RuleInv, ListRules
  <2> QED
    BY <1>9, <2>1 DEF ListRules
<1>14. ~pend => current \in Listed(ready)
  BY <1>2 DEF MutexInv, RuleInv, SwitchInv
<1>15. SwitchInv'
  <2>1. pend' => Head(ready') # current
    <3>1. CASE pend
      BY <1>6, <1>8, <3>1 DEF MutexInv, RuleInv, SwitchInv
    <3>2. CASE ~pend
      <4>1. t # current
        BY <1>4, <1>14, <3>2
      <4> QED
        BY <1>8, <3>2, <4>1
    <3> QED
      BY <3>1, <3>2
  <2>2. ~pend' => ~pend
    BY <1>8 DEF MutexInv, RuleInv, Inv, TypeOK, TypeOfSwitch
  <2>3. ~pend => current \in Listed(ready') /\ late = 0
    BY <1>9, <1>14 DEF MutexInv, RuleInv, SwitchInv
  <2> QED
    BY <1>1, <1>2, <1>8, <2>1, <2>2, <2>3 DEF SwitchInv
<1>16. OutlastInv'
  <2>1. CASE ~pend
    <3>1. current \notin Listed(wait')
      BY <1>12, <1>14, <2>1, ListsKnown DEF MutexInv, RuleInv, ListRules
    <3> QED
      BY <1>8, <3>1, OutlastReady
  <2>2. CASE pend
    <3>1. current \in Listed(wait) =>
             /\ sleepCntr'[current] = sleepCntr[current]
             /\ flags'[current] = flags[current]
      <4>1. current \in Listed(wait) => current \in AllTasks
        BY ListsKnown DEF MutexInv, RuleInv, ListRules
      <4> QED
        BY <1>1, <1>6, <2>2, <4>1 DEF MutexInv, RuleInv, Inv, TypeOK, TypeOfTCBs
    <3> QED
      BY <1>5, <1>8, <1>12, <2>2, <3>1, OutlastSame DEF MutexInv, RuleInv
  <2> QED
    BY <2>1, <2>2
<1>17. HeldInv'
  BY <1>1, <1>3, <1>4, HeldFollows DEF MutexInv, RuleInv
<1> QED
  BY <1>11, <1>13, <1>15, <1>16, <1>17 DEF RuleInv

-----------------------------------------------------------------------------
(***************************************************************************)
(* The mutexes' part, step by step.                                        *)
(***************************************************************************)

MutexPart == MutexTypes /\ HoldersKnown /\ WaitersMatch /\ LoansKnown

(* Only the priority of a task that holds r changes, so no waiter moves.   *)
OnlyHolderChanges(r) ==
    \A x \in AllTasks \ holds[r] : priority'[x] = priority[x]

LEMMA WaitersKeepPriority ==
    ASSUME MutexInv, NEW r \in Resources, OnlyHolderChanges(r),
           NEW q \in Resources, NEW x \in Listed(blocked[q])
    PROVE  priority'[x] = priority[x]
<1>1. x \in AllTasks /\ resource[x] # NoRes
  BY BlockedFacts
<1>2. x \notin holds[r]
  BY <1>1, WaiterFacts
<1> QED
  BY <1>1, <1>2 DEF OnlyHolderChanges

(* The loans of the other mutexes stay what they are.                      *)
LEMMA OtherLoans ==
    ASSUME MutexInv, NEW r \in Resources, OnlyHolderChanges(r),
           NEW q \in Resources, q # r,
           /\ holder'[q] = holder[q] /\ holds'[q] = holds[q]
           /\ inherited'[q] = inherited[q] /\ real'[q] = real[q]
           /\ blocked'[q] = blocked[q]
    PROVE  LoanOf(q)'
<1>1. LoanOf(q)
  BY DEF MutexInv, LoansKnown
<1>2. CASE ~Lent(q)
  BY <1>1, <1>2 DEF LoanOf, Lent
<1>3. CASE Lent(q)
  <2>1. holder[q] \in holds[q] /\ blocked[q] # << >>
    BY <1>1, <1>3 DEF LoanOf
  <2>2. holder[q] \in AllTasks /\ holder[q] \notin holds[r]
    BY <2>1, HolderFacts
  <2>3. priority'[holder[q]] = priority[holder[q]]
    BY <2>2 DEF OnlyHolderChanges
  <2>4. priority'[Head(blocked[q])] = priority[Head(blocked[q])]
    BY <2>1, FirstLeaves, WaitersKeepPriority
  <2> QED
    BY <1>1, <1>3, <2>3, <2>4 DEF LoanOf, Lent
<1> QED
  BY <1>2, <1>3

(* A step that neither joins nor leaves a blocked list.                    *)
LEMMA WaitersStay ==
    ASSUME MutexInv, UNCHANGED <<blocked, resource>>,
           \A t \in AllTasks : resource[t] # NoRes => calling'[t] = calling[t],
           \A t \in created : priority'[t] = priority[t]
    PROVE  WaitersMatch'
<1>1. ASSUME NEW r \in Resources
      PROVE  SortedByPrio(blocked[r], priority')
  <2>1. blocked[r] \in Seq(AllTasks) /\ SortedByPrio(blocked[r], priority)
    BY BlockedFacts
  <2>2. ASSUME NEW x \in Listed(blocked[r])
        PROVE  priority[x] = priority'[x]
    <3>1. x \in AllTasks /\ resource[x] # NoRes
      BY BlockedFacts
    <3> QED
      BY <3>1, WaiterFacts
  <2> QED
    BY <2>1, <2>2, SortedSame
<1> QED
  BY <1>1 DEF MutexInv, WaitersMatch

(* A waiter leaves.                                                        *)
LEMMA WaiterLeaves ==
    ASSUME MutexInv, NEW r \in Resources, OnlyHolderChanges(r),
           NEW t \in AllTasks, resource[t] = r,
           NEW s \in Seq(AllTasks), IsInjective(s),
           Listed(s) = Listed(blocked[r]) \ {t}, SortedByPrio(s, priority),
           blocked' = [blocked EXCEPT ![r] = s],
           resource' = [resource EXCEPT ![t] = NoRes],
           calling' = calling
    PROVE  WaitersMatch'
<1>1. /\ resource'[t] = NoRes
      /\ \A x \in AllTasks \ {t} : resource'[x] = resource[x]
  BY DEF MutexInv, RuleInv, Inv, TypeOK, TypeOfTCBs
<1>2. /\ blocked'[r] = s
      /\ \A q \in Resources \ {r} : blocked'[q] = blocked[q]
  BY DEF MutexInv, MutexTypes
<1>3. \A q \in Resources : IsInjective(blocked'[q])
  BY <1>2 DEF MutexInv, WaitersMatch
<1>4. ASSUME NEW q \in Resources, NEW x \in AllTasks
      PROVE  x \in Listed(blocked'[q]) <=> resource'[x] = q
  <2>1. x \in Listed(blocked[q]) <=> resource[x] = q
    BY DEF MutexInv, WaitersMatch
  <2>2. q # NoRes
    BY NoResIsNone
  <2> QED
    BY <1>1, <1>2, <2>1, <2>2
<1>5. \A x \in AllTasks : resource'[x] # NoRes => calling'[x] = resource'[x]
  BY <1>1 DEF MutexInv, WaitersMatch
<1>6. ASSUME NEW q \in Resources
      PROVE  SortedByPrio(blocked'[q], priority')
  <2>1. /\ blocked'[q] \in Seq(AllTasks)
        /\ SortedByPrio(blocked'[q], priority)
        /\ Listed(blocked'[q]) \subseteq Listed(blocked[q])
    <3>1. CASE q = r
      BY <1>2, <3>1
    <3>2. CASE q # r
      BY <1>2, <3>2, BlockedFacts
    <3> QED
      BY <3>1, <3>2
  <2>2. \A x \in Listed(blocked'[q]) : priority[x] = priority'[x]
    BY <2>1, WaitersKeepPriority
  <2> QED
    BY <2>1, <2>2, SortedSame
<1> QED
  BY <1>3, <1>4, <1>5, <1>6 DEF WaitersMatch

(* A step that leaves the mutexes alone; the caller of lock may have       *)
(* looked again in vain.                                                   *)
LEMMA AloofStep ==
    ASSUME MutexInv, UNCHANGED <<lock, holder, lending, blocked, holds, resource>>,
           calling' \in [AllTasks -> Resources \union {NoRes}],
           \A t \in AllTasks : \/ calling'[t] = calling[t]
                               \/ calling'[t] = NoRes /\ resource[t] = NoRes,
           created \subseteq created',
           \A t \in created : priority'[t] = priority[t],
           \A t \in created' \ created : priority'[t] = BasePrio[t]
    PROVE  MutexPart'
<1>1. MutexTypes'
  BY DEF MutexInv, MutexTypes, lending
<1>2. HoldersKnown'
  <2>1. OneHolder'
    BY DEF MutexInv, HoldersKnown, OneHolder
  <2>2. ASSUME NEW r \in Resources, NEW t \in holds[r]
        PROVE  /\ holder[r] = t
               /\ t \in created' /\ calling'[t] = NoRes
               /\ \A s \in Resources : t \in holds[s] => s = r
    BY HolderFacts
  <2> QED
    BY <2>1, <2>2 DEF HoldersKnown
<1>3. WaitersMatch'
  BY WaitersStay
<1>4. ASSUME NEW r \in Resources
      PROVE  LoanOf(r)'
  <2>1. LoanOf(r)
    BY DEF MutexInv, LoansKnown
  <2>2. CASE ~Lent(r)
    BY <2>1, <2>2 DEF LoanOf, Lent, lending
  <2>3. CASE Lent(r)
    <3>1. holder[r] \in holds[r] /\ blocked[r] # << >>
      BY <2>1, <2>3 DEF LoanOf
    <3>2. holder[r] \in created
      BY <3>1, HolderFacts
    <3>3. Head(blocked[r]) \in created
      <4>1. Head(blocked[r]) \in AllTasks /\ resource[Head(blocked[r])] # NoRes
        BY <3>1, FirstLeaves, NoResIsNone
      <4> QED
        BY <4>1, WaiterFacts
    <3> QED
      BY <2>1, <2>3, <3>2, <3>3 DEF LoanOf, Lent, lending
  <2> QED
    BY <2>2, <2>3
<1>5. ASSUME NEW t \in created', priority'[t] # BasePrio[t]
      PROVE  \E r \in Resources : Lent(r)' /\ t \in holds'[r]
  <2>1. t \in created /\ priority[t] # BasePrio[t]
    BY <1>5
  <2> QED
    BY <2>1 DEF MutexInv, LoansKnown, Lent, lending
<1> QED
  BY <1>1, <1>2, <1>3, <1>4, <1>5 DEF MutexPart, LoansKnown

(* A task is told MUTEX_SUCCESS.                                           *)
LEMMA Granted ==
    ASSUME MutexInv, TaskRuns, NEW r \in Resources, lock[r] = 1,
           \A s \in Resources : current \notin holds[s],
           lock' = [lock EXCEPT ![r] = 0],
           holder' = [holder EXCEPT ![r] = current],
           holds' = [holds EXCEPT ![r] = @ \union {current}],
           calling' = [calling EXCEPT ![current] = NoRes],
           UNCHANGED <<vars, lending, blocked>>
    PROVE  MutexPart'
<1>1. /\ current \in Tasks /\ current \in AllTasks /\ current \in created
      /\ resource[current] = NoRes /\ current # NoTask
  BY RunnerFacts
<1>2. holds[r] = {}
  BY DEF MutexInv, HoldersKnown, OneHolder
<1>3. /\ UNCHANGED <<created, resource, priority, inherited, real>>
  BY DEF vars, listVars, lending
<1>4. /\ lock'[r] = 0 /\ holder'[r] = current /\ holds'[r] = {current}
      /\ calling'[current] = NoRes
      /\ \A s \in Resources \ {r} : /\ lock'[s] = lock[s]
                                    /\ holder'[s] = holder[s]
                                    /\ holds'[s] = holds[s]
      /\ \A t \in AllTasks \ {current} : calling'[t] = calling[t]
  BY <1>1, <1>2 DEF MutexInv, MutexTypes
<1>5. MutexTypes'
  BY <1>1, <1>3 DEF MutexInv, MutexTypes
<1>6. OneHolder'
  <2> SUFFICES ASSUME NEW s \in Resources
               PROVE  /\ lock'[s] = 0 /\ holder'[s] # NoTask =>
                            holds'[s] = {holder'[s]}
                      /\ lock'[s] # 0 => holds'[s] = {} /\ lock'[s] = 1
    BY DEF OneHolder
  <2>1. CASE s = r
    BY <1>4, <2>1
  <2>2. CASE s # r
    BY <1>4, <2>2 DEF MutexInv, HoldersKnown, OneHolder
  <2> QED
    BY <2>1, <2>2
<1>7. ASSUME NEW s \in Resources, NEW t \in holds'[s]
      PROVE  /\ holder'[s] = t
             /\ t \in created' /\ calling'[t] = NoRes
             /\ \A q \in Resources : t \in holds'[q] => q = s
  <2>1. CASE s = r
    BY <1>1, <1>3, <1>4, <1>7, <2>1
  <2>2. CASE s # r
    <3>1. t \in holds[s]
      BY <1>4, <1>7, <2>2
    <3>2. /\ t = holder[s] /\ t \in created /\ t \in AllTasks
          /\ calling[t] = NoRes
          /\ \A q \in Resources : t \in holds[q] => q = s
      BY <3>1, HolderFacts
    <3>3. t # current
      BY <3>1
    <3> QED
      BY <1>3, <1>4, <2>2, <3>2, <3>3
  <2> QED
    BY <2>1, <2>2
<1>8. WaitersMatch'
  BY <1>1, <1>3, <1>4, WaitersStay
<1>9. ASSUME NEW s \in Resources
      PROVE  LoanOf(s)'
  <2>1. LoanOf(s)
    BY DEF MutexInv, LoansKnown
  <2>2. CASE s = r
    BY <1>2, <1>3, <2>1, <2>2 DEF LoanOf, Lent
  <2>3. CASE s # r
    BY <1>3, <1>4, <2>1, <2>3 DEF LoanOf, Lent
  <2> QED
    BY <2>2, <2>3
<1>10. ASSUME NEW t \in created', priority'[t] # BasePrio[t]
       PROVE  \E s \in Resources : Lent(s)' /\ t \in holds'[s]
  <2>1. PICK s \in Resources : Lent(s) /\ t \in holds[s]
    BY <1>3, <1>10 DEF MutexInv, LoansKnown
  <2>2. s # r
    BY <1>2, <2>1
  <2> QED
    BY <1>3, <1>4, <2>1, <2>2 DEF Lent
<1> QED
  BY <1>5, <1>6, <1>7, <1>8, <1>9, <1>10
     DEF MutexPart, HoldersKnown, LoansKnown

LEMMA LockTakesMutex ==
    ASSUME MutexInv, Careful, NEW r \in Resources, LockTakes(r)
    PROVE  MutexPart'
<1>1. /\ TaskRuns /\ calling[current] = NoRes /\ lock[r] # 0
      /\ ~HoldsAnother(r)
      /\ lock' = [lock EXCEPT ![r] = @ - 1]
      /\ holder' = [holder EXCEPT ![r] = current]
      /\ holds' = [holds EXCEPT ![r] = @ \union {current}]
      /\ UNCHANGED <<vars, lending, blocked, calling>>
  BY CarefulGives DEF LockTakes, InApplication
<1>2. lock[r] = 1 /\ holds[r] = {}
  BY <1>1 DEF MutexInv, HoldersKnown, OneHolder
<1>3. \A s \in Resources : current \notin holds[s]
  BY <1>1, <1>2 DEF HoldsAnother
<1>4. lock' = [lock EXCEPT ![r] = 0]
  BY <1>1, <1>2
<1>5. calling' = [calling EXCEPT ![current] = NoRes]
  BY <1>1 DEF MutexInv, MutexTypes
<1> QED
  BY <1>1, <1>2, <1>3, <1>4, <1>5, Granted

LEMMA LockLooksAgainMutex ==
    ASSUME MutexInv, LockLooksAgain
    PROVE  MutexPart'
<1>1. /\ TaskRuns /\ calling[current] # NoRes
      /\ calling' = [calling EXCEPT ![current] = NoRes]
      /\ UNCHANGED <<vars, lending, blocked>>
  BY DEF LockLooksAgain
<1>2. current \in AllTasks /\ resource[current] = NoRes
  BY <1>1, RunnerFacts
<1> PICK r \in Resources : r = calling[current]
  BY <1>1, <1>2 DEF MutexInv, MutexTypes
<1>3. \A s \in Resources : current \notin holds[s]
  BY <1>1, HolderFacts
<1>4. CASE lock[r] = 1
  <2>1. /\ lock' = [lock EXCEPT ![r] = 0]
        /\ holder' = [holder EXCEPT ![r] = current]
        /\ holds' = [holds EXCEPT ![r] = @ \union {current}]
    BY <1>4 DEF LockLooksAgain
  <2> QED
    BY <1>1, <1>3, <1>4, <2>1, Granted
<1>5. CASE lock[r] # 1
  <2>1. UNCHANGED <<lock, holder, holds>>
    BY <1>5 DEF LockLooksAgain
  <2>2. UNCHANGED <<resource, created, priority>>
    BY <1>1 DEF vars, listVars
  <2>3. calling' \in [AllTasks -> Resources \union {NoRes}]
    BY <1>1 DEF MutexInv, MutexTypes
  <2>4. \A t \in AllTasks : \/ calling'[t] = calling[t]
                            \/ calling'[t] = NoRes /\ resource[t] = NoRes
    BY <1>1, <1>2 DEF MutexInv, MutexTypes
  <2> QED
    BY <1>1, <2>1, <2>2, <2>3, <2>4, AloofStep
<1> QED
  BY <1>4, <1>5

(* The holder is lent the priority of the most urgent waiter, or that is   *)
(* what it runs at, or its own is no less urgent.                          *)
LEMMA LockBlocksMutex ==
    ASSUME MutexInv, Careful, NEW r \in Resources, NEW p, LockBlocks(r, p)
    PROVE  MutexPart'
<1> PICK s : s = InsertByPrio(blocked[r], current, priority)
  OBVIOUS
<1>1. /\ TaskRuns /\ calling[current] = NoRes /\ lock[r] = 0
      /\ CanInsert(blocked[r], current, priority)
      /\ blocked' = [blocked EXCEPT ![r] = s]
      /\ \/ ~Lends(r, s) /\ UNCHANGED <<priority, lending>>
         \/ /\ Lends(r, s) /\ holder[r] \in holds[r]
            /\ Reprioritised(priority, holder[r], priority[Head(s)], priority')
            /\ priority[Head(s)] < priority[holder[r]]
            /\ inherited' = [inherited EXCEPT ![r] = priority[Head(s)]]
            /\ real' = [real EXCEPT ![r] =
                          IF @ = DefaultPrio THEN priority[holder[r]] ELSE @]
  BY LockBlocksDoes
<1>2. /\ resource' = [resource EXCEPT ![current] = r]
      /\ calling' = [calling EXCEPT ![current] = r]
      /\ UNCHANGED <<created, lock, holder, holds>>
      /\ ~HoldsAnother(r) /\ holder[r] # current
  BY CarefulGives DEF LockBlocks, BlockTask
<1>3. /\ s \in Seq(AllTasks) /\ IsInjective(s)
      /\ Listed(s) = Listed(blocked[r]) \union {current}
      /\ SortedByPrio(s, priority)
      /\ s # << >> /\ Head(s) \in Listed(s) /\ Head(s) \in AllTasks
      /\ \A t \in Listed(s) : priority[Head(s)] <= priority[t]
  BY <1>1, LockerJoins
<1>4. /\ current \in AllTasks /\ resource[current] = NoRes
      /\ \A q \in Resources : current \notin Listed(blocked[q])
  BY <1>1, RunnerFacts
<1>5. \A q \in Resources : current \notin holds[q]
  <2>1. current \notin holds[r]
    BY <1>2, HolderFacts
  <2> QED
    BY <1>2, <2>1 DEF HoldsAnother
<1>6. OnlyHolderChanges(r)
  BY <1>1 DEF OnlyHolderChanges, Reprioritised
<1>7. /\ priority \in [AllTasks -> Nat]
      /\ priority'[current] = priority[current]
  BY <1>4, <1>5, <1>6, BlockedFacts DEF OnlyHolderChanges
<1>8. /\ resource'[current] = r /\ calling'[current] = r
      /\ \A x \in AllTasks \ {current} :
            resource'[x] = resource[x] /\ calling'[x] = calling[x]
  BY <1>2, <1>4
     DEF MutexInv, MutexTypes, RuleInv, Inv, TypeOK, TypeOfTCBs
<1>9. /\ blocked'[r] = s
      /\ \A q \in Resources \ {r} : blocked'[q] = blocked[q]
  BY <1>1 DEF MutexInv, MutexTypes
<1>10. MutexTypes'
  <2>1. blocked' \in [Resources -> Seq(AllTasks)]
    BY <1>1, <1>3 DEF MutexInv, MutexTypes
  <2>2. calling' \in [AllTasks -> Resources \union {NoRes}]
    BY <1>2 DEF MutexInv, MutexTypes
  <2>3. inherited' \in [Resources -> Nat] /\ real' \in [Resources -> Nat]
    <3>1. CASE UNCHANGED lending
      BY <3>1 DEF lending, MutexInv, MutexTypes
    <3>2. CASE /\ holder[r] \in holds[r]
               /\ inherited' = [inherited EXCEPT ![r] = priority[Head(s)]]
               /\ real' = [real EXCEPT ![r] =
                             IF @ = DefaultPrio THEN priority[holder[r]] ELSE @]
      <4>1. holder[r] \in AllTasks
        BY <3>2, HolderFacts
      <4>2. priority[holder[r]] \in Nat /\ priority[Head(s)] \in Nat
        BY <4>1, <1>3, <1>7
      <4> QED
        BY <3>2, <4>2 DEF MutexInv, MutexTypes
    <3> QED
      BY <1>1, <3>1, <3>2
  <2> QED
    BY <1>2, <2>1, <2>2, <2>3 DEF MutexInv, MutexTypes
<1>11. HoldersKnown'
  <2>1. OneHolder'
    BY <1>2 DEF MutexInv, HoldersKnown, OneHolder
  <2>2. ASSUME NEW q \in Resources, NEW t \in holds[q]
        PROVE  /\ holder[q] = t
               /\ t \in created /\ calling'[t] = NoRes
               /\ \A x \in Resources : t \in holds[x] => x = q
    <3>1. /\ holder[q] = t /\ t \in created /\ t \in AllTasks
          /\ calling[t] = NoRes
          /\ \A x \in Resources : t \in holds[x] => x = q
      BY HolderFacts
    <3>2. t # current
      BY <1>5
    <3> QED
      BY <1>8, <3>1, <3>2
  <2> QED
    BY <1>2, <2>1, <2>2 DEF HoldersKnown
<1>12. WaitersMatch'
  <2>1. \A q \in Resources : IsInjective(blocked'[q])
    BY <1>3, <1>9 DEF MutexInv, WaitersMatch
  <2>2. ASSUME NEW q \in Resources, NEW x \in AllTasks
        PROVE  x \in Listed(blocked'[q]) <=> resource'[x] = q
    <3>1. x \in Listed(blocked[q]) <=> resource[x] = q
      BY DEF MutexInv, WaitersMatch
    <3>2. q # NoRes
      BY NoResIsNone
    <3> QED
      BY <1>3, <1>4, <1>8, <1>9, <3>1, <3>2
  <2>3. \A x \in AllTasks : resource'[x] # NoRes => calling'[x] = resource'[x]
    BY <1>8 DEF MutexInv, WaitersMatch
  <2>4. ASSUME NEW q \in Resources
        PROVE  SortedByPrio(blocked'[q], priority')
    <3>1. /\ blocked'[q] \in Seq(AllTasks)
          /\ SortedByPrio(blocked'[q], priority)
          /\ Listed(blocked'[q]) \subseteq Listed(blocked[q]) \union {current}
      <4>1. CASE q = r
        BY <1>3, <1>9, <4>1
      <4>2. CASE q # r
        BY <1>9, <4>2, BlockedFacts
      <4> QED
        BY <4>1, <4>2
    <3>2. \A x \in Listed(blocked'[q]) : priority[x] = priority'[x]
      BY <1>6, <1>7, <3>1, WaitersKeepPriority
    <3> QED
      BY <3>1, <3>2, SortedSame
  <2> QED
    BY <2>1, <2>2, <2>3, <2>4 DEF WaitersMatch
<1>13. priority'[Head(s)] = priority[Head(s)]
  BY <1>3, <1>6, <1>7, WaitersKeepPriority
<1>14. LoanOf(r)
  BY DEF MutexInv, LoansKnown
<1>15. CASE ~Lends(r, s)
  <2>1. UNCHANGED <<priority, inherited, real>>
    BY <1>1, <1>15 DEF lending
  <2>2. LoanOf(r)'
    <3>1. CASE ~Lent(r)
      BY <1>14, <2>1, <3>1 DEF LoanOf, Lent
    <3>2. CASE Lent(r)
      <4>1. /\ holder[r] \in holds[r]
            /\ real[r] = BasePrio[holder[r]]
            /\ inherited[r] < real[r]
            /\ inherited[r] = priority[holder[r]]
            /\ blocked[r] # << >>
            /\ inherited[r] = priority[Head(blocked[r])]
        BY <1>14, <3>2 DEF LoanOf
      <4>2. holder[r] # NoTask
        BY <4>1, HolderFacts
      <4>3. Head(blocked[r]) \in Listed(s)
        BY <1>3, <4>1, FirstLeaves
      <4>4. priority[Head(s)] <= inherited[r]
        BY <1>3, <4>1, <4>3
      <4>5. \/ priority[Head(s)] = inherited[r]
            \/ ~(priority[Head(s)] < inherited[r])
        BY <1>15, <4>1, <4>2 DEF Lends
      <4>6. priority[Head(s)] \in Nat /\ inherited[r] \in Nat
        BY <1>3, <1>7 DEF MutexInv, MutexTypes
      <4>7. priority[Head(s)] = inherited[r]
        BY <4>4, <4>5, <4>6
      <4> QED
        BY <1>2, <1>3, <1>9, <2>1, <3>2, <4>1, <4>7 DEF LoanOf, Lent
    <3> QED
      BY <3>1, <3>2
  <2>3. ASSUME NEW q \in Resources, q # r
        PROVE  LoanOf(q)'
    BY <1>2, <1>6, <1>9, <2>1, <2>3, OtherLoans
  <2>4. LoansKnown'
    BY <1>2, <2>1, <2>2, <2>3 DEF MutexInv, LoansKnown, Lent
  <2> QED
    BY <1>10, <1>11, <1>12, <2>4 DEF MutexPart
<1>16. CASE Lends(r, s)
  <2> PICK h : h = holder[r]
    OBVIOUS
  <2>1. /\ h \in holds[r]
        /\ Reprioritised(priority, h, priority[Head(s)], priority')
        /\ priority[Head(s)] < priority[h]
        /\ inherited' = [inherited EXCEPT ![r] = priority[Head(s)]]
        /\ real' = [real EXCEPT ![r] =
                      IF @ = DefaultPrio THEN priority[h] ELSE @]
    BY <1>1, <1>16
  <2>2. /\ h \in AllTasks /\ h \in Tasks /\ holds[r] = {h}
        /\ priority[h] = IF Lent(r) THEN inherited[r] ELSE BasePrio[h]
    BY <2>1, HolderFacts
  <2>3. /\ BasePrio[h] < DefaultPrio /\ BasePrio[h] \in Nat
        /\ DefaultPrio \in Nat
    BY <2>2, MutexAssumption, TaskAssumption DEF DefaultPrio
  <2>4. /\ inherited'[r] = priority[Head(s)]
        /\ real'[r] = IF real[r] = DefaultPrio THEN priority[h] ELSE real[r]
        /\ \A q \in Resources \ {r} :
              inherited'[q] = inherited[q] /\ real'[q] = real[q]
    BY <2>1 DEF MutexInv, MutexTypes
  <2>5. /\ priority[Head(s)] \in Nat /\ priority[h] \in Nat
        /\ inherited[r] \in Nat
    BY <1>3, <1>7, <2>2 DEF MutexInv, MutexTypes
  <2>6. /\ real'[r] = BasePrio[h]
        /\ priority[h] <= BasePrio[h]
    <3>1. CASE Lent(r)
      <4>1. real[r] = BasePrio[h] /\ inherited[r] < real[r]
        BY <1>14, <3>1 DEF LoanOf
      <4> QED
        BY <2>2, <2>3, <2>4, <2>5, <3>1, <4>1
    <3>2. CASE ~Lent(r)
      BY <1>14, <2>2, <2>3, <2>4, <3>2 DEF LoanOf
    <3> QED
      BY <3>1, <3>2
  <2>7. inherited'[r] < real'[r] /\ Lent(r)'
    BY <2>1, <2>3, <2>4, <2>5, <2>6 DEF Lent
  <2>8. priority'[h] = priority[Head(s)]
    BY <2>1 DEF Reprioritised
  <2>9. LoanOf(r)'
    BY <1>2, <1>3, <1>9, <1>13, <2>1, <2>4, <2>6, <2>7, <2>8 DEF LoanOf
  <2>10. ASSUME NEW q \in Resources, q # r
         PROVE  LoanOf(q)'
    BY <1>2, <1>6, <1>9, <2>4, <2>10, OtherLoans
  <2>11. ASSUME NEW t \in created, priority'[t] # BasePrio[t]
         PROVE  \E q \in Resources : Lent(q)' /\ t \in holds[q]
    <3>1. CASE t = h
      BY <2>1, <2>7, <3>1
    <3>2. CASE t # h
      <4>1. t \in AllTasks
        BY ListsTyped DEF MutexInv, RuleInv
      <4>2. priority'[t] = priority[t]
        BY <2>1, <3>2, <4>1 DEF Reprioritised
      <4>3. PICK q \in Resources : Lent(q) /\ t \in holds[q]
        BY <2>11, <4>2 DEF MutexInv, LoansKnown
      <4>4. q # r
        BY <2>2, <3>2, <4>3
      <4> QED
        BY <2>4, <4>3, <4>4 DEF Lent
    <3> QED
      BY <3>1, <3>2
  <2>12. LoansKnown'
    BY <1>2, <2>9, <2>10, <2>11 DEF LoansKnown
  <2> QED
    BY <1>10, <1>11, <1>12, <2>12 DEF MutexPart
<1> QED
  BY <1>15, <1>16

(* Without a waiter nothing is lent.                                       *)
LEMMA UnlockAloneMutex ==
    ASSUME MutexInv, Careful, NEW r \in Resources, Unlock(r),
           blocked[r] = << >>
    PROVE  MutexPart'
<1>1. /\ current \in holds[r]
      /\ lock' = [lock EXCEPT ![r] = @ + 1]
      /\ holds' = [holds EXCEPT ![r] = @ \ {current}]
      /\ UNCHANGED <<vars, holder, lending, blocked, calling>>
  BY CarefulGives DEF Unlock
<1>2. UNCHANGED <<resource, created, priority, inherited, real>>
  BY <1>1 DEF vars, listVars, lending
<1>3. lock[r] = 0 /\ holds[r] = {current}
  BY <1>1, HolderFacts
<1>4. ~Lent(r)
  BY DEF MutexInv, LoansKnown, LoanOf
<1>5. /\ lock'[r] = 1 /\ holds'[r] = {}
      /\ \A s \in Resources \ {r} : lock'[s] = lock[s] /\ holds'[s] = holds[s]
  BY <1>1, <1>3 DEF MutexInv, MutexTypes
<1>6. MutexTypes'
  <2>1. lock' \in [Resources -> {0, 1}]
    BY <1>1, <1>3 DEF MutexInv, MutexTypes
  <2> QED
    BY <1>1, <1>2, <2>1 DEF MutexInv, MutexTypes
<1>7. HoldersKnown'
  <2>1. OneHolder'
    BY <1>1, <1>5 DEF MutexInv, HoldersKnown, OneHolder
  <2>2. \A s \in Resources : holds'[s] \subseteq holds[s]
    BY <1>5
  <2> QED
    BY <1>1, <1>2, <2>1, <2>2 DEF MutexInv, HoldersKnown
<1>8. WaitersMatch'
  BY <1>1, <1>2, WaitersStay
<1>9. ASSUME NEW s \in Resources
      PROVE  LoanOf(s)'
  <2>1. LoanOf(s)
    BY DEF MutexInv, LoansKnown
  <2>2. CASE s = r
    BY <1>2, <1>4, <2>1, <2>2 DEF LoanOf, Lent
  <2>3. CASE s # r
    BY <1>1, <1>2, <1>5, <2>1, <2>3 DEF LoanOf, Lent
  <2> QED
    BY <2>2, <2>3
<1>10. ASSUME NEW t \in created', priority'[t] # BasePrio[t]
       PROVE  \E s \in Resources : Lent(s)' /\ t \in holds'[s]
  <2>1. PICK s \in Resources : Lent(s) /\ t \in holds[s]
    BY <1>2, <1>10 DEF MutexInv, LoansKnown
  <2>2. s # r
    BY <1>4, <2>1
  <2> QED
    BY <1>2, <1>5, <2>1, <2>2 DEF Lent
<1> QED
  BY <1>6, <1>7, <1>8, <1>9, <1>10 DEF MutexPart, LoansKnown

(* The loan of r ends and its holder runs at its own priority again.       *)
LEMMA LoanEnds ==
    ASSUME MutexInv, NEW r \in Resources, NEW h \in holds[r],
           Reprioritised(priority, h, BasePrio[h], priority'),
           created' = created,
           inherited' = [inherited EXCEPT ![r] = DefaultPrio],
           real' = [real EXCEPT ![r] = DefaultPrio],
           \A q \in Resources \ {r} :
              /\ holder'[q] = holder[q] /\ holds'[q] = holds[q]
              /\ blocked'[q] = blocked[q]
    PROVE  LoansKnown' /\ OnlyHolderChanges(r)
<1>1. h \in AllTasks /\ holds[r] = {h}
  BY HolderFacts
<1>2. /\ priority'[h] = BasePrio[h]
      /\ \A x \in AllTasks \ {h} : priority'[x] = priority[x]
  BY DEF Reprioritised
<1>3. OnlyHolderChanges(r)
  BY <1>1, <1>2 DEF OnlyHolderChanges
<1>4. /\ inherited'[r] = DefaultPrio /\ real'[r] = DefaultPrio
      /\ \A q \in Resources \ {r} :
            inherited'[q] = inherited[q] /\ real'[q] = real[q]
  BY DEF MutexInv, MutexTypes
<1>5. LoanOf(r)'
  BY <1>4 DEF LoanOf, Lent
<1>6. ASSUME NEW q \in Resources, q # r
      PROVE  LoanOf(q)'
  BY <1>3, <1>4, <1>6, OtherLoans
<1>7. ASSUME NEW t \in created', priority'[t] # BasePrio[t]
      PROVE  \E q \in Resources : Lent(q)' /\ t \in holds'[q]
  <2>1. t \in AllTasks /\ t # h
    BY <1>2, <1>7, ListsTyped DEF MutexInv, RuleInv
  <2>2. PICK q \in Resources : Lent(q) /\ t \in holds[q]
    BY <1>2, <1>7, <2>1 DEF MutexInv, LoansKnown
  <2>3. q # r
    BY <1>1, <2>1, <2>2
  <2> QED
    BY <1>4, <2>2, <2>3 DEF Lent
<1> QED
  BY <1>3, <1>5, <1>6, <1>7 DEF LoansKnown

LEMMA UnlockWakesMutex ==
    ASSUME MutexInv, Careful, NEW r \in Resources, Unlock(r),
           blocked[r] # << >>
    PROVE  MutexPart'
<1> PICK w : w = Head(blocked[r])
  OBVIOUS
<1> PICK s : s = Tail(blocked[r])
  OBVIOUS
<1>1. /\ current \in holds[r] /\ TaskRuns
      /\ lock' = [lock EXCEPT ![r] = @ + 1]
      /\ holds' = [holds EXCEPT ![r] = @ \ {current}]
      /\ holder' = [holder EXCEPT ![r] = NoTask]
      /\ blocked' = [blocked EXCEPT ![r] = s]
      /\ resource' = [resource EXCEPT ![w] = NoRes]
      /\ inherited' = [inherited EXCEPT ![r] = DefaultPrio]
      /\ real' = [real EXCEPT ![r] = DefaultPrio]
      /\ calling' = calling /\ created' = created
      /\ Reprioritised(priority, current, BasePrio[current], priority')
  BY UnlockDoes
<1>2. /\ w \in AllTasks /\ resource[w] = r
      /\ s \in Seq(AllTasks) /\ IsInjective(s)
      /\ Listed(s) = Listed(blocked[r]) \ {w}
      /\ SortedByPrio(s, priority)
  BY FirstLeaves
<1>3. lock[r] = 0 /\ holds[r] = {current}
  BY <1>1, HolderFacts
<1>4. /\ lock'[r] = 1 /\ holds'[r] = {}
      /\ \A q \in Resources \ {r} :
            /\ lock'[q] = lock[q] /\ holds'[q] = holds[q]
            /\ holder'[q] = holder[q] /\ blocked'[q] = blocked[q]
  BY <1>1, <1>3 DEF MutexInv, MutexTypes
<1>5. LoansKnown' /\ OnlyHolderChanges(r)
  BY <1>1, <1>4, LoanEnds
<1>6. WaitersMatch'
  BY <1>1, <1>2, <1>5, WaiterLeaves
<1>7. HoldersKnown'
  <2>1. OneHolder'
    <3> SUFFICES ASSUME NEW q \in Resources
                 PROVE  /\ lock'[q] = 0 /\ holder'[q] # NoTask =>
                              holds'[q] = {holder'[q]}
                        /\ lock'[q] # 0 => holds'[q] = {} /\ lock'[q] = 1
      BY DEF OneHolder
    <3>1. CASE q = r
      BY <1>4, <3>1
    <3>2. CASE q # r
      BY <1>4, <3>2 DEF MutexInv, HoldersKnown, OneHolder
    <3> QED
      BY <3>1, <3>2
  <2>2. ASSUME NEW q \in Resources, NEW t \in holds'[q]
        PROVE  /\ holder'[q] = t
               /\ t \in created' /\ calling'[t] = NoRes
               /\ \A x \in Resources : t \in holds'[x] => x = q
    <3>1. q # r /\ t \in holds[q]
      BY <1>4, <2>2
    <3> QED
      BY <1>1, <1>4, <3>1, HolderFacts
  <2> QED
    BY <2>1, <2>2 DEF HoldersKnown
<1>8. MutexTypes'
  <2>1. lock' \in [Resources -> {0, 1}]
    BY <1>1, <1>3 DEF MutexInv, MutexTypes
  <2>2. blocked' \in [Resources -> Seq(AllTasks)]
    BY <1>1, <1>2 DEF MutexInv, MutexTypes
  <2>3. DefaultPrio \in Nat
    BY DEF DefaultPrio
  <2>4. /\ holder' \in [Resources -> Tasks \union {NoTask}]
        /\ inherited' \in [Resources -> Nat]
        /\ real' \in [Resources -> Nat]
        /\ calling' \in [AllTasks -> Resources \union {NoRes}]
        /\ holds' \in [Resources -> SUBSET Tasks]
    BY <1>1, <2>3 DEF MutexInv, MutexTypes
  <2> QED
    BY <2>1, <2>2, <2>4 DEF MutexTypes
<1> QED
  BY <1>5, <1>6, <1>7, <1>8 DEF MutexPart

(* The waiter that goes is the one that lent the holder its priority, and  *)
(* the loan ends, or it is not the first and the loan stays.               *)
LEMMA TickTimesOutMutex ==
    ASSUME MutexInv, TickTimesOut
    PROVE  MutexPart'
<1> PICK t : t = cursor
  OBVIOUS
<1> PICK r : r = resource[cursor]
  OBVIOUS
<1> PICK s : s = Unlink(blocked[r], t)
  OBVIOUS
<1>1. /\ r \in Resources /\ t \in AllTasks /\ resource[t] = r
      /\ t \in Listed(blocked[r])
      /\ blocked' = [blocked EXCEPT ![r] = s]
      /\ resource' = [resource EXCEPT ![t] = NoRes]
      /\ UNCHANGED <<lock, holder, calling, holds, created>>
      /\ \/ priority[t] # inherited[r] /\ UNCHANGED <<priority, lending>>
         \/ /\ Lent(r) /\ holder[r] \in holds[r]
            /\ inherited' = [inherited EXCEPT ![r] = DefaultPrio]
            /\ real' = [real EXCEPT ![r] = DefaultPrio]
            /\ Reprioritised(priority, holder[r], BasePrio[holder[r]], priority')
  BY TimeoutDoes
<1>2. /\ blocked[r] \in Seq(AllTasks) /\ IsInjective(blocked[r])
      /\ SortedByPrio(blocked[r], priority)
  BY <1>1, BlockedFacts
<1>3. /\ s \in Seq(AllTasks) /\ IsInjective(s)
      /\ Listed(s) = Listed(blocked[r]) \ {t}
  BY <1>1, <1>2, UnlinkFacts
<1>4. SortedByPrio(s, priority)
  BY <1>1, <1>2, SortedUnlink
<1>5. /\ blocked'[r] = s
      /\ \A q \in Resources \ {r} : blocked'[q] = blocked[q]
  BY <1>1 DEF MutexInv, MutexTypes
<1>6. LoansKnown' /\ OnlyHolderChanges(r)
  <2>1. CASE priority[t] # inherited[r] /\ UNCHANGED <<priority, lending>>
    <3>1. UNCHANGED <<priority, inherited, real>>
      BY <2>1 DEF lending
    <3>2. OnlyHolderChanges(r)
      BY <3>1 DEF OnlyHolderChanges
    <3>3. LoanOf(r)'
      <4>1. LoanOf(r)
        BY <1>1 DEF MutexInv, LoansKnown
      <4>2. CASE ~Lent(r)
        BY <3>1, <4>1, <4>2 DEF LoanOf, Lent
      <4>3. CASE Lent(r)
        <5>1. /\ blocked[r] # << >>
              /\ inherited[r] = priority[Head(blocked[r])]
          BY <4>1, <4>3 DEF LoanOf
        <5>2. t # Head(blocked[r])
          BY <2>1, <5>1
        <5>3. Head(s) = Head(blocked[r])
          BY <1>1, <1>2, <5>2, HeadOfUnlink
        <5>4. s # << >>
          <6>1. Head(blocked[r]) \in Listed(s)
            BY <1>2, <1>3, <5>1, <5>2, HeadListed
          <6> QED
            BY <6>1 DEF Listed
        <5> QED
          BY <1>1, <1>5, <3>1, <4>1, <4>3, <5>3, <5>4 DEF LoanOf, Lent
      <4> QED
        BY <4>2, <4>3
    <3>4. ASSUME NEW q \in Resources, q # r
          PROVE  LoanOf(q)'
      BY <1>1, <1>5, <3>1, <3>2, <3>4, OtherLoans
    <3>5. LoansKnown'
      BY <1>1, <3>1, <3>3, <3>4 DEF MutexInv, LoansKnown, Lent
    <3> QED
      BY <3>2, <3>5
  <2>2. CASE /\ holder[r] \in holds[r]
             /\ inherited' = [inherited EXCEPT ![r] = DefaultPrio]
             /\ real' = [real EXCEPT ![r] = DefaultPrio]
             /\ Reprioritised(priority, holder[r], BasePrio[holder[r]],
                              priority')
    BY <1>1, <1>5, <2>2, LoanEnds
  <2> QED
    BY <1>1, <2>1, <2>2
<1>7. WaitersMatch'
  BY <1>1, <1>3, <1>4, <1>6, WaiterLeaves
<1>8. HoldersKnown'
  BY <1>1 DEF MutexInv, HoldersKnown, OneHolder
<1>9. MutexTypes'
  <2>1. blocked' \in [Resources -> Seq(AllTasks)]
    BY <1>1, <1>3 DEF MutexInv, MutexTypes
  <2>2. inherited' \in [Resources -> Nat] /\ real' \in [Resources -> Nat]
    <3>1. DefaultPrio \in Nat
      BY DEF DefaultPrio
    <3> QED
      BY <1>1, <3>1 DEF lending, MutexInv, MutexTypes
  <2> QED
    BY <1>1, <2>1, <2>2 DEF MutexInv, MutexTypes
<1> QED
  BY <1>6, <1>7, <1>8, <1>9 DEF MutexPart

-----------------------------------------------------------------------------
(* Every step preserves the strengthening.                                 *)

MutexAloof ==
    \/ ApplicationStep /\ calling[current] = NoRes /\ UNCHANGED mutexVars
    \/ KernelStep /\ UNCHANGED mutexVars
    \/ UNCHANGED allVars

LEMMA AloofIsNext ==
    ASSUME MutexAloof
    PROVE  [Next]_vars
<1>1. CASE ApplicationStep
  BY <1>1 DEF ApplicationStep, Next, NonTick
<1>2. CASE KernelStep
  BY <1>2 DEF KernelStep, Next, NonTick, TickVisit
<1> QED
  BY <1>1, <1>2 DEF MutexAloof, allVars

LEMMA AloofMutex ==
    ASSUME MutexInv, MutexAloof
    PROVE  MutexPart'
<1>1. UNCHANGED <<lock, holder, lending, blocked, holds, calling>>
  BY DEF MutexAloof, mutexVars, allVars
<1>2. resource' = resource
  <2>1. CASE TickWakes /\ resource[cursor] = NoRes
    <3>1. cursor \in AllTasks
      BY <2>1, ListsKnown DEF TickWakes, MutexInv, RuleInv, ListRules
    <3>2. HeldBits(cursor) = {}
      BY <2>1, <3>1 DEF MutexInv, HeldInv
    <3> QED
      BY <2>1, <3>2 DEF TickWakes, TaskSleepTimeoutHandler
  <2>2. ASSUME NEW t \in Tasks, TaskWake(t), resource[t] = NoRes
        PROVE  resource' = resource
    BY <2>2 DEF TaskWake
  <2>3. CASE ApplicationStep \/ UNCHANGED allVars
    BY <2>3 DEF ApplicationStep, TaskSleep, TaskSleepSetFreq, TaskSuspend,
                allVars, vars
  <2>4. CASE \/ \E t \in Tasks : CreateTask(t)
             \/ Start \/ Dispatch
             \/ \E t \in Tasks : WrongListUnlinked(t)
             \/ TickStart \/ TickMeetsSuspended \/ TickCountsDown
             \/ TickMislinks \/ TickEnd
    BY <2>4 DEF CreateTask, Start, Dispatch, WrongListUnlinked, TickStart,
                TickMeetsSuspended, TickCountsDown, TickMislinks, TickEnd
  <2> QED
    BY <2>1, <2>2, <2>3, <2>4 DEF MutexAloof, KernelStep
<1>3. \/ UNCHANGED <<priority, created>>
      \/ \E t \in Tasks : CreateTask(t)
  <2>1. CASE ApplicationStep \/ UNCHANGED allVars
    BY <2>1 DEF ApplicationStep, TaskSleep, TaskSleepSetFreq, TaskSuspend,
                GoToSleep, SetNextReadyTaskToRun, listVars, allVars, vars
  <2>2. CASE KernelStep
    BY <2>2 DEF KernelStep, Start, Dispatch, TaskWake, MakeReady,
                WrongListUnlinked, TickStart, TickMeetsSuspended,
                TickCountsDown, TickWakes, TickMislinks, TickEnd, listVars
  <2> QED
    BY <2>1, <2>2 DEF MutexAloof
<1>4. /\ created \subseteq created'
      /\ \A t \in created : priority'[t] = priority[t]
      /\ \A t \in created' \ created : priority'[t] = BasePrio[t]
  <2>1. CASE UNCHANGED <<priority, created>>
    BY <2>1
  <2>2. ASSUME NEW t \in Tasks, CreateTask(t)
        PROVE  /\ created \subseteq created'
               /\ \A x \in created : priority'[x] = priority[x]
               /\ \A x \in created' \ created : priority'[x] = BasePrio[x]
    <3>1. /\ created' = created \union {t} /\ t \notin created
          /\ priority' = [priority EXCEPT ![t] = BasePrio[t]]
      BY <2>2 DEF CreateTask
    <3>2. priority \in [AllTasks -> Nat] /\ t \in AllTasks
      BY DEF AllTasks, MutexInv, RuleInv, Inv, TypeOK, TypeOfTCBs
    <3>3. created \subseteq AllTasks
      BY ListsTyped DEF MutexInv, RuleInv
    <3> QED
      BY <3>1, <3>2, <3>3
  <2> QED
    BY <1>3, <2>1, <2>2
<1>5. calling' \in [AllTasks -> Resources \union {NoRes}]
  BY <1>1 DEF MutexInv, MutexTypes
<1> QED
  BY <1>1, <1>2, <1>4, <1>5, AloofStep

LEMMA MutexNextInv ==
    ASSUME MutexInv, Careful, [MutexNext]_allVars
    PROVE  MutexInv'
<1>1. ASSUME NEW r \in Resources, LockTakes(r)
      PROVE  RuleInv' /\ HeldInv' /\ MutexPart'
  <2>1. UNCHANGED vars
    BY <1>1 DEF LockTakes
  <2> QED
    BY <1>1, <2>1, CarefulGives, NextRules, HeldNext, LockTakesMutex
       DEF MutexInv
<1>2. ASSUME NEW r \in Resources, NEW p \in Periods \ {0}, LockBlocks(r, p)
      PROVE  RuleInv' /\ HeldInv' /\ MutexPart'
  BY <1>2, LockBlocksRules, LockBlocksMutex
<1>3. ASSUME NEW r \in Resources, Unlock(r)
      PROVE  RuleInv' /\ HeldInv' /\ MutexPart'
  <2>1. CASE blocked[r] = << >>
    <3>1. UNCHANGED vars
      BY <1>3, <2>1 DEF Unlock
    <3> QED
      BY <1>3, <2>1, <3>1, CarefulGives, NextRules, HeldNext,
         UnlockAloneMutex DEF MutexInv
  <2>2. CASE blocked[r] # << >>
    BY <1>3, <2>2, UnlockRules, UnlockWakesMutex
  <2> QED
    BY <2>1, <2>2
<1>4. CASE LockLooksAgain
  <2>1. UNCHANGED vars
    BY <1>4 DEF LockLooksAgain
  <2> QED
    BY <1>4, <2>1, CarefulGives, NextRules, HeldNext, LockLooksAgainMutex
       DEF MutexInv, MutexPart
<1>5. CASE TickTimesOut
  BY <1>5, TimeoutRules, TickTimesOutMutex DEF MutexInv, MutexPart
<1>6. CASE MutexAloof
  <2>1. [Next]_vars
    BY <1>6, AloofIsNext
  <2> QED
    BY <1>6, <2>1, CarefulGives, NextRules, HeldNext, AloofMutex
       DEF MutexInv, MutexPart
<1> QED
  BY <1>1, <1>2, <1>3, <1>4, <1>5, <1>6
     DEF MutexNext, MutexAloof, MutexInv, MutexPart

LEMMA MutexInitInv == MutexInit => MutexInv
<1> SUFFICES ASSUME MutexInit PROVE MutexInv
  OBVIOUS
<1>1. RuleInv
  BY InitRules DEF MutexInit
<1>2. /\ flags = [t \in AllTasks |-> {}]
      /\ resource = [t \in AllTasks |-> NoRes]
      /\ lock \in [Resources -> InitValues]
      /\ holder = [r \in Resources |-> NoTask]
      /\ inherited = [r \in Resources |-> DefaultPrio]
      /\ real = [r \in Resources |-> DefaultPrio]
      /\ blocked = [r \in Resources |-> << >>]
      /\ calling = [t \in AllTasks |-> NoRes]
      /\ holds = [r \in Resources |-> {}]
  BY DEF MutexInit, Init
<1>3. HeldInv
  BY <1>2 DEF HeldInv, HeldBits
<1>4. MutexTypes
  <2>1. lock \in [Resources -> {0, 1}]
    <3>1. InitValues \subseteq {0, 1}
      BY MutexAssumption
    <3> QED
      BY <1>2, <3>1
  <2>2. << >> \in Seq(AllTasks) /\ DefaultPrio \in Nat
    BY DEF DefaultPrio
  <2>3. blocked \in [Resources -> Seq(AllTasks)]
    BY <1>2, <2>2
  <2>4. /\ holder \in [Resources -> Tasks \union {NoTask}]
        /\ inherited \in [Resources -> Nat]
        /\ real \in [Resources -> Nat]
        /\ calling \in [AllTasks -> Resources \union {NoRes}]
        /\ holds \in [Resources -> SUBSET Tasks]
    BY <1>2, <2>2
  <2> QED
    BY <2>1, <2>3, <2>4 DEF MutexTypes
<1>5. HoldersKnown
  BY <1>2, <1>4 DEF HoldersKnown, OneHolder, MutexTypes
<1>6. WaitersMatch
  BY <1>2, NoResIsNone DEF WaitersMatch, Listed, IsInjective, SortedByPrio
<1>7. LoansKnown
  <2>1. \A r \in Resources : LoanOf(r)
    BY <1>2 DEF LoanOf, Lent
  <2>2. \A t \in created : priority[t] = BasePrio[t]
    <3>1. BG \in AllTasks
      BY DEF AllTasks
    <3> QED
      BY <3>1 DEF MutexInit, Init
  <2> QED
    BY <2>1, <2>2 DEF LoansKnown
<1> QED
  BY <1>1, <1>3, <1>4, <1>5, <1>6, <1>7 DEF MutexInv

LEMMA MutexSpecInv ==
    ASSUME Careful
    PROVE  MutexSpec => []MutexInv
<1>1. MutexInv /\ [MutexNext]_allVars => MutexInv'
  BY MutexNextInv
<1> QED
  BY MutexInitInv, <1>1, PTL DEF MutexSpec

-----------------------------------------------------------------------------
(* At most one task has been given the mutex, it is the one the mutex      *)
(* names, and an available mutex is held by nobody (mutex.c:212), whatever *)
(* tasks lock, wait, time out and unlock, in any order.                    *)
THEOREM MutexOneHolder ==
    ASSUME Careful
    PROVE  MutexSpec => []OneHolder
<1>1. MutexInv => OneHolder
  BY DEF MutexInv, HoldersKnown
<1> QED
  BY MutexSpecInv, <1>1, PTL

(* A task runs at a priority that is not its own only while it holds a     *)
(* mutex that remembers both priorities, and then at that of the most      *)
(* urgent waiter (mutex.c:335): what an unlock or a time-out restores is   *)
(* always the right priority.                                              *)
THEOREM MutexLoansAreTracked ==
    ASSUME Careful
    PROVE  MutexSpec => []LoansAreTracked
<1>1. MutexInv => LoansAreTracked
  <2> SUFFICES ASSUME MutexInv, NEW t \in created \ {BG},
                      priority[t] # BasePrio[t]
               PROVE  \E r \in Resources :
                         /\ holds[r] = {t} /\ holder[r] = t
                         /\ real[r] = BasePrio[t]
                         /\ inherited[r] = priority[t]
                         /\ blocked[r] # << >>
                         /\ priority[Head(blocked[r])] = priority[t]
    BY DEF LoansAreTracked
  <2>1. PICK r \in Resources : Lent(r) /\ t \in holds[r]
    BY DEF MutexInv, LoansKnown
  <2>2. holder[r] = t /\ holds[r] = {t}
    BY <2>1, HolderFacts
  <2> QED
    BY <2>1, <2>2 DEF MutexInv, LoansKnown, LoanOf
<1> QED
  BY MutexSpecInv, <1>1, PTL

(* The blocked list of a mutex is in priority order, its tasks are those   *)
(* whose control blocks name the mutex, and each of them is on the wait    *)
(* list and inside u1_OSmutex_lock: an unlock never wakes a task that      *)
(* waits for something else, and a priority that is lent or restored       *)
(* disturbs no blocked list (mutex.c:373).                                 *)
THEOREM MutexBlockedMatchesTCB ==
    ASSUME Careful
    PROVE  MutexSpec => []BlockedMatchesTCB
<1>1. MutexInv => BlockedMatchesTCB
  <2> SUFFICES ASSUME MutexInv, NEW r \in Resources
               PROVE  /\ SortedByPrio(blocked[r], priority)
                      /\ IsInjective(blocked[r])
                      /\ Listed(blocked[r]) = { t \in created : resource[t] = r }
                      /\ \A t \in Listed(blocked[r]) :
                            calling[t] = r /\ t \in Listed(wait)
    BY DEF BlockedMatchesTCB
  <2>1. /\ SortedByPrio(blocked[r], priority) /\ IsInjective(blocked[r])
        /\ \A t \in Listed(blocked[r]) :
              t \in AllTasks /\ resource[t] = r /\ resource[t] # NoRes
    BY BlockedFacts
  <2>2. \A t \in AllTasks : t \in Listed(blocked[r]) <=> resource[t] = r
    BY DEF MutexInv, WaitersMatch
  <2>3. created \subseteq AllTasks
    BY ListsTyped DEF MutexInv, RuleInv
  <2>4. \A t \in Listed(blocked[r]) :
           t \in created /\ calling[t] = r /\ t \in Listed(wait)
    BY <2>1, WaiterFacts
  <2> QED
    BY <2>1, <2>2, <2>3, <2>4
<1> QED
  BY MutexSpecInv, <1>1, PTL

-----------------------------------------------------------------------------
(* A mutex that is available while tasks wait has a task that was woken    *)
(* for it and has not looked yet.                                          *)
LEMMA ReleasesNext ==
    ASSUME MutexInv, MutexInv', Careful, NoReleaseLost, [MutexNext]_allVars
    PROVE  NoReleaseLost'
<1>1. ASSUME NEW q \in Resources,
             blocked'[q] # << >> => blocked[q] # << >>,
             lock'[q] # 0 => lock[q] # 0,
             Listed(blocked'[q]) \subseteq Listed(blocked[q]),
             \A t \in Tasks : calling[t] = q => calling'[t] = q,
             blocked'[q] # << >> /\ lock'[q] # 0
      PROVE  \E t \in Tasks : calling'[t] = q /\ t \notin Listed(blocked'[q])
  BY <1>1 DEF NoReleaseLost
<1> SUFFICES ASSUME NEW q \in Resources, blocked'[q] # << >>, lock'[q] # 0
             PROVE  \E t \in Tasks :
                       calling'[t] = q /\ t \notin Listed(blocked'[q])
  BY DEF NoReleaseLost
<1>2. Tasks \subseteq AllTasks /\ q # NoRes
  BY NoResIsNone DEF AllTasks
<1>3. ASSUME NEW r \in Resources, LockTakes(r)
      PROVE  \E t \in Tasks : calling'[t] = q /\ t \notin Listed(blocked'[q])
  <2>1. /\ lock[r] # 0 /\ lock' = [lock EXCEPT ![r] = @ - 1]
        /\ UNCHANGED <<blocked, calling>>
    BY <1>3 DEF LockTakes
  <2>2. lock'[q] # 0 => lock[q] # 0
    BY <2>1 DEF MutexInv, MutexTypes
  <2> QED
    BY <1>1, <2>1, <2>2
<1>4. ASSUME NEW r \in Resources, NEW p \in Periods \ {0}, LockBlocks(r, p)
      PROVE  \E t \in Tasks : calling'[t] = q /\ t \notin Listed(blocked'[q])
  <2>1. /\ calling[current] = NoRes /\ lock[r] = 0 /\ lock' = lock
        /\ calling' = [calling EXCEPT ![current] = r]
        /\ \E s : blocked' = [blocked EXCEPT ![r] = s]
    BY <1>4 DEF LockBlocks, InApplication, BlockTask
  <2>2. q # r
    BY <2>1
  <2>3. blocked'[q] = blocked[q]
    BY <2>1, <2>2 DEF MutexInv, MutexTypes
  <2>4. \A t \in Tasks : calling[t] = q => calling'[t] = q
    BY <1>2, <2>1 DEF MutexInv, MutexTypes
  <2> QED
    BY <1>1, <2>1, <2>3, <2>4
<1>5. ASSUME NEW r \in Resources, Unlock(r)
      PROVE  \E t \in Tasks : calling'[t] = q /\ t \notin Listed(blocked'[q])
  <2>1. /\ lock' = [lock EXCEPT ![r] = @ + 1] /\ calling' = calling
        /\ \/ blocked[r] = << >> /\ blocked' = blocked
           \/ /\ blocked[r] # << >>
              /\ blocked' = [blocked EXCEPT ![r] = Tail(@)]
    BY <1>5 DEF Unlock, UnblockTask
  <2>2. CASE q # r
    <3>1. lock'[q] = lock[q] /\ blocked'[q] = blocked[q]
      BY <2>1, <2>2 DEF MutexInv, MutexTypes
    <3> QED
      BY <1>1, <2>1, <3>1
  <2>3. CASE q = r
    <3>1. blocked[r] # << >> /\ blocked'[r] = Tail(blocked[r])
      BY <2>1, <2>3 DEF MutexInv, MutexTypes
    <3> PICK w : w = Head(blocked[r])
      OBVIOUS
    <3>2. /\ w \in AllTasks /\ resource[w] = r
          /\ w \notin Listed(blocked'[r])
      BY <3>1, FirstLeaves
    <3>3. w \in Tasks /\ calling[w] = r
      BY <1>2, <2>3, <3>2, WaiterFacts
    <3> QED
      BY <2>1, <2>3, <3>2, <3>3
  <2> QED
    BY <2>2, <2>3
<1>6. CASE LockLooksAgain
  <2>1. /\ calling[current] # NoRes
        /\ IF lock[calling[current]] = 1
             THEN lock' = [lock EXCEPT ![calling[current]] = 0]
             ELSE lock' = lock
        /\ calling' = [calling EXCEPT ![current] = NoRes]
        /\ blocked' = blocked
    BY <1>6 DEF LockLooksAgain
  <2>2. calling[current] # q
    BY <2>1 DEF MutexInv, MutexTypes
  <2>3. lock'[q] # 0 => lock[q] # 0
    BY <2>1 DEF MutexInv, MutexTypes
  <2>4. \A t \in Tasks : calling[t] = q => calling'[t] = q
    BY <1>2, <2>1, <2>2 DEF MutexInv, MutexTypes
  <2> QED
    BY <1>1, <2>1, <2>3, <2>4
<1>7. CASE TickTimesOut
  <2> PICK r : r = resource[cursor]
    OBVIOUS
  <2> PICK s : s = Unlink(blocked[r], cursor)
    OBVIOUS
  <2>1. /\ r \in Resources /\ cursor \in Listed(blocked[r])
        /\ blocked' = [blocked EXCEPT ![r] = s]
        /\ UNCHANGED <<lock, calling>>
    BY <1>7, TimeoutDoes
  <2>2. s \in Seq(AllTasks) /\ Listed(s) \subseteq Listed(blocked[r])
    BY <2>1, BlockedFacts, UnlinkFacts
  <2>3. CASE q # r
    <3>1. blocked'[q] = blocked[q]
      BY <2>1, <2>3 DEF MutexInv, MutexTypes
    <3> QED
      BY <1>1, <2>1, <3>1
  <2>4. CASE q = r
    <3>1. blocked'[q] = s /\ blocked[q] # << >>
      BY <2>1, <2>4 DEF MutexInv, MutexTypes, Listed
    <3> QED
      BY <1>1, <2>1, <2>2, <2>4, <3>1
  <2> QED
    BY <2>3, <2>4
<1>8. CASE MutexAloof
  <2>1. UNCHANGED <<lock, blocked, calling>>
    BY <1>8 DEF MutexAloof, mutexVars, allVars
  <2> QED
    BY <1>1, <2>1
<1> QED
  BY <1>3, <1>4, <1>5, <1>6, <1>7, <1>8 DEF MutexNext, MutexAloof

(* A released mutex is not forgotten: while tasks are blocked on it, one   *)
(* that was woken is still to look at it, although another task may lock   *)
(* the mutex first and a waiter's time may run out (mutex.c:138).          *)
THEOREM MutexNoReleaseLost ==
    ASSUME Careful
    PROVE  MutexSpec => []NoReleaseLost
<1>1. MutexInit => NoReleaseLost
  BY DEF MutexInit, NoReleaseLost
<1>2. MutexInv /\ MutexInv' /\ NoReleaseLost /\ [MutexNext]_allVars
         => NoReleaseLost'
  BY ReleasesNext
<1> QED
  BY MutexSpecInv, <1>1, <1>2, PTL DEF MutexSpec

-----------------------------------------------------------------------------
(* Only a lock that blocks makes a blocked list longer.                    *)
LEMMA ListGrows ==
    ASSUME MutexInv, Careful, [MutexNext]_allVars,
           NEW r \in Resources, Len(blocked'[r]) > Len(blocked[r])
    PROVE  \E p \in Periods \ {0} : LockBlocks(r, p)
<1>1. blocked \in [Resources -> Seq(AllTasks)] /\ Len(blocked[r]) \in Nat
  BY DEF MutexInv, MutexTypes
<1>2. blocked'[r] # blocked[r]
  BY <1>1
<1>3. ASSUME NEW q \in Resources, NEW s, Len(s) < Len(blocked[q]),
             blocked' = [blocked EXCEPT ![q] = s], s \in Seq(AllTasks)
      PROVE  FALSE
  BY <1>1, <1>3
<1>4. ASSUME NEW q \in Resources, Unlock(q)
      PROVE  FALSE
  <2>1. \/ blocked' = blocked
        \/ /\ blocked[q] # << >>
           /\ blocked' = [blocked EXCEPT ![q] = Tail(blocked[q])]
    BY <1>1, <1>4 DEF Unlock, UnblockTask
  <2>2. blocked[q] # << >> =>
           /\ Tail(blocked[q]) \in Seq(AllTasks)
           /\ Len(Tail(blocked[q])) < Len(blocked[q])
    BY <1>1
  <2> QED
    BY <1>2, <1>3, <2>1, <2>2
<1>5. CASE TickTimesOut
  <2> PICK q : q = resource[cursor]
    OBVIOUS
  <2>1. /\ q \in Resources /\ cursor \in Listed(blocked[q])
        /\ blocked' = [blocked EXCEPT ![q] = Unlink(blocked[q], cursor)]
    BY <1>5, TimeoutDoes
  <2>2. Position(blocked[q], cursor) \in 1 .. Len(blocked[q])
    BY <1>1, <2>1, PositionFacts
  <2>3. /\ Unlink(blocked[q], cursor) \in Seq(AllTasks)
        /\ Len(Unlink(blocked[q], cursor)) = Len(blocked[q]) - 1
    BY <1>1, <2>1, <2>2, RemoveAtIndex DEF Unlink
  <2> QED
    BY <1>1, <1>3, <2>1, <2>3
<1>6. ASSUME NEW q \in Resources, NEW p \in Periods \ {0}, LockBlocks(q, p)
      PROVE  LockBlocks(r, p)
  <2>1. \E s : blocked' = [blocked EXCEPT ![q] = s]
    BY <1>6 DEF LockBlocks, BlockTask
  <2>2. q = r
    BY <1>1, <1>2, <2>1
  <2> QED
    BY <1>6, <2>2
<1>7. \/ blocked' = blocked
      \/ TickTimesOut
      \/ \E q \in Resources :
            Unlock(q) \/ \E p \in Periods \ {0} : LockBlocks(q, p)
  BY DEF MutexNext, LockTakes, LockLooksAgain, mutexVars, allVars
<1> QED
  BY <1>2, <1>4, <1>5, <1>6, <1>7

LEMMA LendsEnough ==
    ASSUME MutexInv, MutexInv', Careful,
           NEW r \in Resources, NEW p, LockBlocks(r, p), holder[r] # NoTask
    PROVE  priority'[holder[r]] <= priority'[Head(blocked'[r])]
<1> PICK s : s = InsertByPrio(blocked[r], current, priority)
  OBVIOUS
<1>1. /\ TaskRuns /\ calling[current] = NoRes /\ lock[r] = 0
      /\ CanInsert(blocked[r], current, priority)
      /\ blocked' = [blocked EXCEPT ![r] = s]
      /\ \/ ~Lends(r, s) /\ UNCHANGED <<priority, lending>>
         \/ /\ Lends(r, s)
            /\ Reprioritised(priority, holder[r], priority[Head(s)], priority')
            /\ inherited' = [inherited EXCEPT ![r] = priority[Head(s)]]
  BY LockBlocksDoes
<1>2. /\ s \in Seq(AllTasks) /\ s # << >>
      /\ Listed(s) = Listed(blocked[r]) \union {current}
      /\ Head(s) \in Listed(s) /\ Head(s) \in AllTasks
  BY <1>1, LockerJoins
<1>3. holder[r] \in holds[r] /\ holder[r] \in AllTasks
  <2>1. holder[r] \in holds[r]
    BY <1>1 DEF MutexInv, HoldersKnown, OneHolder
  <2> QED
    BY <2>1, HolderFacts
<1>4. blocked'[r] = s
  BY <1>1 DEF MutexInv, MutexTypes
<1>5. priority \in [AllTasks -> Nat] /\ priority' \in [AllTasks -> Nat]
  BY DEF MutexInv, RuleInv, Inv, TypeOK, TypeOfTCBs
<1>6. CASE Lent(r)'
  <2>1. /\ inherited'[r] = priority'[holder'[r]]
        /\ inherited'[r] = priority'[Head(blocked'[r])]
    BY <1>6 DEF MutexInv, LoansKnown, LoanOf
  <2>2. holder' = holder
    BY DEF LockBlocks
  <2>3. priority'[holder[r]] = priority'[Head(blocked'[r])]
    BY <2>1, <2>2
  <2>4. priority'[Head(blocked'[r])] \in Nat
    BY <1>2, <1>4, <1>5
  <2> QED
    BY <2>3, <2>4
<1>7. CASE ~Lent(r)'
  <2>1. priority[Head(s)] < DefaultPrio
    <3>1. CASE Head(s) \in Listed(blocked[r])
      <4>1. resource[Head(s)] # NoRes
        BY <3>1, BlockedFacts
      <4> QED
        BY <1>2, <4>1, WaiterFacts
    <3>2. CASE Head(s) = current
      <4>1. current \in created /\ current \in AllTasks
        BY <1>1, RunnerFacts
      <4>2. \A q \in Resources : current \notin holds[q]
        <5>1. ~HoldsAnother(r) /\ holder[r] # current
          BY CarefulGives DEF LockBlocks, BlockTask
        <5>2. current \notin holds[r]
          BY <5>1, HolderFacts
        <5> QED
          BY <5>1, <5>2 DEF HoldsAnother
      <4>3. priority[current] = BasePrio[current]
        BY <4>1, <4>2 DEF MutexInv, LoansKnown
      <4> QED
        BY <3>2, <4>1, <4>3, MutexAssumption
    <3> QED
      BY <1>2, <3>1, <3>2
  <2>2. priority[Head(s)] \in Nat /\ priority[holder[r]] \in Nat
    BY <1>2, <1>3, <1>5
  <2>3. priority[Head(s)] # DefaultPrio
    BY <2>1, <2>2 DEF DefaultPrio
  <2>4. ~Lends(r, s)
    <3> SUFFICES ASSUME Lends(r, s) PROVE FALSE
      OBVIOUS
    <3>1. inherited'[r] = priority[Head(s)]
      BY <1>1 DEF MutexInv, MutexTypes
    <3> QED
      BY <1>7, <2>3, <3>1 DEF Lent
  <2>5. UNCHANGED <<priority, inherited>>
    BY <1>1, <2>4 DEF lending
  <2>6. inherited[r] = DefaultPrio
    BY <1>7, <2>5 DEF Lent
  <2>7. ~(priority[Head(s)] < priority[holder[r]])
    BY <2>3, <2>4, <2>6 DEF Lends
  <2> QED
    BY <1>4, <2>2, <2>5, <2>7
<1> QED
  BY <1>6, <1>7

(* A task that blocks leaves the holder at least as urgent as the most     *)
(* urgent waiter, even if others wait already and one has lent its         *)
(* priority before (mutex.c:306).                                          *)
THEOREM MutexBlockingLends ==
    ASSUME Careful
    PROVE  MutexSpec => BlockingLends
<1>1. MutexInv /\ MutexInv' /\ [MutexNext]_allVars =>
         [\A r \in Resources :
             Len(blocked'[r]) > Len(blocked[r]) /\ holder[r] # NoTask =>
                 priority'[holder[r]] <= priority'[Head(blocked'[r])]]_allVars
  BY ListGrows, LendsEnough
<1> QED
  BY MutexSpecInv, <1>1, PTL DEF MutexSpec, BlockingLends

=============================================================================
