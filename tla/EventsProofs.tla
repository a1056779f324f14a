---------------------------- MODULE EventsProofs ----------------------------
(***************************************************************************)
(* Theorems about Events, for any tasks, mailboxes, flags objects, events, *)
(* mails and bounds, when the usage rules of flags.c are kept and one task *)
(* at a time blocks on a mailbox, a sender or a receiver.  An interrupt    *)
(* may call the OS between two nodes of the tick's walk.                   *)
(***************************************************************************)
EXTENDS Events, SchedulerProofs

(* The rules kept.  That a taskWake is not used on a blocked task is the   *)
(* assumptions' part.                                                      *)
Considerate ==
    /\ RulesKept
    /\ FlagRules = {}
    /\ "second_waiter" \notin MailRules /\ "task_zero" \notin MailRules

LEMMA NoResIsNone ==
    ASSUME NEW r \in Resources
    PROVE  r # NoRes
BY ResourceAssumption

LEMMA NoTaskIsNone ==
    ASSUME NEW t \in AllTasks
    PROVE  t # NoTask
BY TaskAssumption

-----------------------------------------------------------------------------
(***************************************************************************)
(* The scheduler while a post serves the entries of a table.  Served is    *)
(* given by recursion, so it is shown first that there is such a function, *)
(* and then what its values are by looking at the least number of entries  *)
(* for which that would be wrong.                                          *)
(***************************************************************************)

ServedBy(f, table, reason, n) ==
    f = [i \in 0 .. n |->
           IF i = 0
             THEN SchedulerState
             ELSE IF i \in DOMAIN table
                    THEN Serve(f[i - 1], table[i], reason)
                    ELSE f[i - 1]]

LEMMA ServedExists ==
    ASSUME NEW table, NEW reason, NEW n \in 0 .. MaxPending
    PROVE  \E f : ServedBy(f, table, reason, n)
<1> DEFINE T == { i \in 0 .. MaxPending : ~ \E f : ServedBy(f, table, reason, i) }
<1> SUFFICES ASSUME T # {} PROVE FALSE
  OBVIOUS
<1>1. PICK k \in T : \A i \in T : k <= i
  <2>1. T \in SUBSET Nat
    BY FlagAssumption
  <2> HIDE DEF T
  <2> QED
    BY <2>1, LeastNatural
<1>2. k \in 0 .. MaxPending /\ MaxPending \in Nat
  BY FlagAssumption
<1>3. CASE k = 0
  <2> DEFINE f == [i \in 0 .. 0 |-> SchedulerState]
  <2>1. ServedBy(f, table, reason, 0)
    BY DEF ServedBy
  <2> QED
    BY <1>3, <2>1
<1>4. CASE k # 0
  <2>1. k - 1 \in 0 .. MaxPending /\ k - 1 \notin T
    BY <1>1, <1>2, <1>4
  <2>2. PICK f : ServedBy(f, table, reason, k - 1)
    BY <2>1
  <2> DEFINE g == [i \in 0 .. k |->
                     IF i = k
                       THEN IF k \in DOMAIN table
                              THEN Serve(f[k - 1], table[k], reason)
                              ELSE f[k - 1]
                       ELSE f[i]]
  <2>3. \A i \in 0 .. k - 1 : g[i] = f[i]
    BY <1>2
  <2>4. ASSUME NEW i \in 0 .. k
        PROVE  g[i] = IF i = 0
                 THEN SchedulerState
                 ELSE IF i \in DOMAIN table
                        THEN Serve(g[i - 1], table[i], reason)
                        ELSE g[i - 1]
    <3>1. CASE i = k
      <4>1. k - 1 \in 0 .. k - 1
        BY <1>2, <1>4
      <4>2. g[k - 1] = f[k - 1]
        BY <2>3, <4>1
      <4>3. g[k] = IF k \in DOMAIN table
                     THEN Serve(f[k - 1], table[k], reason)
                     ELSE f[k - 1]
        BY <1>2
      <4> HIDE DEF g
      <4> QED
        BY <1>4, <3>1, <4>2, <4>3, Zenon
    <3>2. CASE i # k
      <4>1. i \in 0 .. k - 1 /\ (i # 0 => i - 1 \in 0 .. k - 1)
        BY <1>2, <3>2
      <4> HIDE DEF g
      <4>2. f[i] = IF i = 0
                     THEN SchedulerState
                     ELSE IF i \in DOMAIN table
                            THEN Serve(f[i - 1], table[i], reason)
                            ELSE f[i - 1]
        BY <2>2, <4>1, Zenon DEF ServedBy
      <4> QED
        BY <2>3, <4>1, <4>2, Zenon
    <3> QED
      BY <3>1, <3>2
  <2>5. ServedBy(g, table, reason, k)
    <3> DEFINE h == [i \in 0 .. k |->
           IF i = 0
             THEN SchedulerState
             ELSE IF i \in DOMAIN table
                    THEN Serve(g[i - 1], table[i], reason)
                    ELSE g[i - 1]]
    <3>1. /\ g = [i \in 0 .. k |-> g[i]]
          /\ \A i \in 0 .. k : g[i] = h[i]
      BY <2>4, Zenon
    <3> HIDE DEF g
    <3>2. g = h
      <4> HIDE DEF h
      <4>1. h = [i \in 0 .. k |-> h[i]]
        BY Zenon DEF h
      <4> QED
        BY <3>1, <4>1, Zenon
    <3> QED
      BY <3>2, Zenon DEF ServedBy
  <2> QED
    BY <1>2, <2>5
<1> QED
  BY <1>3, <1>4

LEMMA ServedIs ==
    ASSUME NEW table, NEW reason
    PROVE  /\ Served(table, reason)[0] = SchedulerState
           /\ \A n \in 1 .. MaxPending :
                 Served(table, reason)[n] =
                    IF n \in DOMAIN table
                      THEN Serve(Served(table, reason)[n - 1], table[n], reason)
                      ELSE Served(table, reason)[n - 1]
<1>1. MaxPending \in Nat /\ MaxPending \in 0 .. MaxPending
  BY FlagAssumption
<1>2. \E f : ServedBy(f, table, reason, MaxPending)
  BY <1>1, ServedExists
<1>3. ServedBy(Served(table, reason), table, reason, MaxPending)
  BY <1>2, Zenon DEF ServedBy, Served
<1> DEFINE f == Served(table, reason)
<1> HIDE DEF f
<1>4. \A n \in 0 .. MaxPending :
         f[n] = IF n = 0
                  THEN SchedulerState
                  ELSE IF n \in DOMAIN table
                         THEN Serve(f[n - 1], table[n], reason)
                         ELSE f[n - 1]
  <2>1. ServedBy(f, table, reason, MaxPending)
    BY <1>3 DEF f
  <2> QED
    BY <2>1, Zenon DEF ServedBy
<1>5. /\ 0 \in 0 .. MaxPending
      /\ \A n \in 1 .. MaxPending : n \in 0 .. MaxPending /\ n # 0
  BY <1>1
<1> QED
  BY <1>4, <1>5, Zenon DEF f

(* The state when the tasks in woken have been served.                     *)
StateOf(woken, reason, rd, wt, why) ==
    [ready |-> rd, wait |-> wt,
     flags |-> [t \in AllTasks |->
                  IF t \in woken THEN flags[t] \ (reason \union CheckBits)
                                 ELSE flags[t]],
     sleepCntr |-> [t \in AllTasks |->
                      IF t \in woken THEN 0 ELSE sleepCntr[t]],
     resource |-> [t \in AllTasks |->
                     IF t \in woken THEN NoRes ELSE resource[t]],
     wakeReason |-> why, fault |-> "none"]

(* Waking a task and setting its reason, on a record of the variables.     *)
StateWith(rd, wt, fl, cnt, res, why) ==
    [ready |-> rd, wait |-> wt, flags |-> fl, sleepCntr |-> cnt,
     resource |-> res, wakeReason |-> why, fault |-> "none"]

(* g is f but for its value at t.                                          *)
Becomes(f, g, t, v) == g = [f EXCEPT ![t] = v]

LEMMA WokenIs ==
    ASSUME NEW rd, NEW wt, NEW fl, NEW cnt, NEW res, NEW why, NEW t,
           NEW fl2, NEW cnt2, fl[t] \intersect CheckBits # {},
           Becomes(fl, fl2, t, fl[t] \ CheckBits), Becomes(cnt, cnt2, t, 0)
    PROVE  Woken(StateWith(rd, wt, fl, cnt, res, why), t) =
              StateWith(InsertByPrio(rd, t, priority), Unlink(wt, t),
                        fl2, cnt2, res, why)
<1>1. Woken(StateWith(rd, wt, fl, cnt, res, why), t) =
         StateWith(InsertByPrio(rd, t, priority), Unlink(wt, t),
                   [fl EXCEPT ![t] = fl[t] \ CheckBits],
                   [cnt EXCEPT ![t] = 0], res, why)
  BY DEF Woken, Asleep, StateWith
<1> QED
  BY <1>1, Zenon DEF Becomes

LEMMA ReasonSetIs ==
    ASSUME NEW rd, NEW wt, NEW fl, NEW cnt, NEW res, NEW why, NEW t,
           NEW reason, NEW fl2, NEW res2, NEW why2,
           Becomes(fl, fl2, t, fl[t] \ reason), Becomes(res, res2, t, NoRes),
           Becomes(why, why2, t, "flags")
    PROVE  ReasonSet(StateWith(rd, wt, fl, cnt, res, why), t, reason) =
              StateWith(rd, wt, fl2, cnt, res2, why2)
<1> DEFINE s == StateWith(rd, wt, fl, cnt, res, why)
           s1 == [s EXCEPT !.resource[t] = NoRes]
           s2 == [s1 EXCEPT !.flags[t] = @ \ reason]
           s3 == [s2 EXCEPT !.wakeReason[t] = "flags"]
<1>1. ReasonSet(s, t, reason) = s3
  BY DEF ReasonSet
<1>2. s1 = StateWith(rd, wt, fl, cnt, res2, why)
  <2>1. s1 = StateWith(rd, wt, fl, cnt, [res EXCEPT ![t] = NoRes], why)
    BY DEF StateWith
  <2> QED
    BY <2>1, Zenon DEF Becomes
<1> HIDE DEF s1
<1>3. s2 = StateWith(rd, wt, fl2, cnt, res2, why)
  <2>1. s2 = StateWith(rd, wt, [fl EXCEPT ![t] = fl[t] \ reason], cnt, res2, why)
    BY <1>2 DEF StateWith
  <2> QED
    BY <2>1, Zenon DEF Becomes
<1> HIDE DEF s2
<1>4. s3 = StateWith(rd, wt, fl2, cnt, res2, why2)
  <2>1. s3 = StateWith(rd, wt, fl2, cnt, res2, [why EXCEPT ![t] = "flags"])
    BY <1>3 DEF StateWith
  <2> QED
    BY <2>1, Zenon DEF Becomes
<1> QED
  BY <1>1, <1>4

(* The entry is that of t, and what is known of it.                        *)
EntryOf(entry, t, reason) ==
    /\ entry.tcb = t
    /\ resource[t] = NoRes /\ flags[t] \intersect CheckBits # {}
    /\ entry.type = "any" \/ reason \intersect CheckBits = {}

LEMMA ServeOne ==
    ASSUME NEW woken, NEW t \in AllTasks \ woken,
           NEW reason, NEW entry, EntryOf(entry, t, reason),
           NEW rd, NEW wt, NEW why
    PROVE  Serve(StateOf(woken, reason, rd, wt, why), entry, reason) =
              StateOf(woken \union {t}, reason, InsertByPrio(rd, t, priority),
                      Unlink(wt, t), [why EXCEPT ![t] = "flags"])
<1> PICK s : s = StateOf(woken, reason, rd, wt, why)
  OBVIOUS
<1> PICK fl : fl = [x \in AllTasks |->
                      IF x \in woken THEN flags[x] \ (reason \union CheckBits)
                                     ELSE flags[x]]
  OBVIOUS
<1> PICK fl2 : fl2 = [x \in AllTasks |->
                        IF x \in woken \union {t}
                          THEN flags[x] \ (reason \union CheckBits)
                          ELSE flags[x]]
  OBVIOUS
<1> PICK cnt : cnt = [x \in AllTasks |->
                        IF x \in woken THEN 0 ELSE sleepCntr[x]]
  OBVIOUS
<1> PICK cnt2 : cnt2 = [x \in AllTasks |->
                          IF x \in woken \union {t} THEN 0 ELSE sleepCntr[x]]
  OBVIOUS
<1> PICK res : res = [x \in AllTasks |->
                        IF x \in woken THEN NoRes ELSE resource[x]]
  OBVIOUS
<1> PICK res2 : res2 = [x \in AllTasks |->
                          IF x \in woken \union {t} THEN NoRes ELSE resource[x]]
  OBVIOUS
<1> PICK why2 : why2 = [why EXCEPT ![t] = "flags"]
  OBVIOUS
<1> PICK rd2 : rd2 = InsertByPrio(rd, t, priority)
  OBVIOUS
<1> PICK wt2 : wt2 = Unlink(wt, t)
  OBVIOUS
<1>1. s = StateWith(rd, wt, fl, cnt, res, why)
  BY DEF StateOf, StateWith
<1>2. StateOf(woken \union {t}, reason, rd2, wt2, why2) =
         StateWith(rd2, wt2, fl2, cnt2, res2, why2)
  BY DEF StateOf, StateWith
<1>3. /\ Becomes(cnt, cnt2, t, 0) /\ Becomes(res, res2, t, NoRes)
      /\ Becomes(why, why2, t, "flags")
  BY DEF Becomes
<1>4. /\ fl[t] = flags[t] /\ res[t] = NoRes
      /\ fl[t] \intersect CheckBits # {}
  BY DEF EntryOf
<1>5. CASE entry.type = "any"
  <2>1. ~ (Asleep(s, t) /\ s.resource[t] # NoRes)
    BY <1>1, <1>4 DEF StateWith
  <2>2. Serve(s, entry, reason) = ReasonSet(Woken(s, t), t, reason)
    BY <1>5, <2>1, Zenon DEF Serve, WakeFirst, EntryOf
  <2> PICK fl1 : fl1 = [fl EXCEPT ![t] = fl[t] \ CheckBits]
    OBVIOUS
  <2>3. /\ Becomes(fl, fl1, t, fl[t] \ CheckBits)
        /\ Becomes(fl1, fl2, t, fl1[t] \ reason)
    BY DEF Becomes
  <2>4. Woken(s, t) = StateWith(rd2, wt2, fl1, cnt2, res, why)
    BY <1>1, <1>3, <1>4, <2>3, WokenIs
  <2>5. ReasonSet(Woken(s, t), t, reason) =
           StateWith(rd2, wt2, fl2, cnt2, res2, why2)
    BY <1>3, <2>3, <2>4, ReasonSetIs
  <2> QED
    BY <1>2, <2>2, <2>5
<1>6. CASE entry.type # "any"
  <2>1. Serve(s, entry, reason) = Woken(ReasonSet(s, t, reason), t)
    BY <1>6, Zenon DEF Serve, ReasonFirst, EntryOf
  <2> PICK fl1 : fl1 = [fl EXCEPT ![t] = fl[t] \ reason]
    OBVIOUS
  <2>2. /\ Becomes(fl, fl1, t, fl[t] \ reason)
        /\ Becomes(fl1, fl2, t, fl1[t] \ CheckBits)
        /\ fl1[t] \intersect CheckBits # {}
    BY <1>4, <1>6 DEF Becomes, EntryOf
  <2>3. ReasonSet(s, t, reason) = StateWith(rd, wt, fl1, cnt, res2, why2)
    BY <1>1, <1>3, <2>2, ReasonSetIs
  <2>4. Woken(ReasonSet(s, t, reason), t) =
           StateWith(rd2, wt2, fl2, cnt2, res2, why2)
    BY <1>3, <2>2, <2>3, WokenIs
  <2> QED
    BY <1>2, <2>1, <2>4
<1> QED
  BY <1>5, <1>6

(* The tasks of the entries of table in the first n slots, and what has to *)
(* be known of the entries.                                                *)
TasksIn(table, n) == { table[i].tcb : i \in DOMAIN table \intersect (1 .. n) }

Servable(table, reason) ==
    /\ DOMAIN table \subseteq Slots
    /\ \A i \in DOMAIN table :
          /\ table[i].tcb \in Listed(wait)
          /\ resource[table[i].tcb] = NoRes
          /\ table[i].type = "any" \/ reason \intersect CheckBits = {}
    /\ \A i, j \in DOMAIN table : table[i].tcb = table[j].tcb => i = j

ServedState(table, reason, n, s) ==
    \E rd, wt, why :
       /\ why \in [AllTasks -> Reasons]
       /\ Linked(TasksIn(table, n), rd, wt)
       /\ TasksIn(table, n) = {} => rd = ready
       /\ s = StateOf(TasksIn(table, n), reason, rd, wt, why)

LEMMA WaitersAsleep ==
    ASSUME RuleInv, NEW t \in Listed(wait)
    PROVE  /\ t \in created /\ t \in Tasks /\ t \in AllTasks /\ t # BG
           /\ t \notin Listed(ready)
           /\ flags[t] \intersect CheckBits # {}
<1>1. /\ t \in created /\ t \in AllTasks /\ t \notin Listed(ready)
      /\ BG \in Listed(ready)
  BY ListsKnown DEF RuleInv, ListRules
<1>2. flags[t] \intersect CheckBits # {}
  BY <1>1 DEF RuleInv, ListRules, FlagsInv, FlagsTellList
<1> QED
  BY <1>1, <1>2 DEF AllTasks

LEMMA ServedFirst ==
    ASSUME RuleInv, fault = "none", NEW table, NEW reason
    PROVE  ServedState(table, reason, 0, SchedulerState)
<1>1. TasksIn(table, 0) = {}
  BY DEF TasksIn
<1>2. /\ flags = [t \in AllTasks |-> flags[t]]
      /\ sleepCntr = [t \in AllTasks |-> sleepCntr[t]]
      /\ resource = [t \in AllTasks |-> resource[t]]
      /\ wakeReason \in [AllTasks -> Reasons]
  BY DEF RuleInv, Inv, TypeOK, TypeOfTCBs
<1>3. SchedulerState = StateOf({}, reason, ready, wait, wakeReason)
  BY <1>2 DEF SchedulerState, StateOf
<1>4. Linked({}, ready, wait)
  BY LinkedNone
<1> QED
  BY <1>1, <1>2, <1>3, <1>4 DEF ServedState

LEMMA ServedOneMore ==
    ASSUME RuleInv, NEW table, NEW reason, Servable(table, reason),
           NEW n \in 1 .. MaxPending, NEW s,
           ServedState(table, reason, n - 1, s)
    PROVE  ServedState(table, reason, n,
              IF n \in DOMAIN table THEN Serve(s, table[n], reason) ELSE s)
<1>1. 1 .. n = (1 .. n - 1) \union {n} /\ n \notin 1 .. n - 1
  BY FlagAssumption
<1>2. PICK woken : woken = TasksIn(table, n - 1)
  OBVIOUS
<1>3. PICK rd, wt, why :
           /\ why \in [AllTasks -> Reasons]
           /\ Linked(woken, rd, wt)
           /\ woken = {} => rd = ready
           /\ s = StateOf(woken, reason, rd, wt, why)
  BY <1>2 DEF ServedState
<1>4. CASE n \notin DOMAIN table
  <2>1. TasksIn(table, n) = woken
    BY <1>1, <1>2, <1>4 DEF TasksIn
  <2> QED
    BY <1>3, <1>4, <2>1 DEF ServedState
<1>5. CASE n \in DOMAIN table
  <2> DEFINE entry == table[n]
             t == entry.tcb
  <2>1. TasksIn(table, n) = woken \union {t}
    BY <1>1, <1>2, <1>5 DEF TasksIn
  <2>2. t \notin woken
    BY <1>1, <1>2, <1>5 DEF TasksIn, Servable
  <2>3. /\ t \in Listed(wait) /\ resource[t] = NoRes
        /\ entry.type = "any" \/ reason \intersect CheckBits = {}
    BY <1>5 DEF Servable
  <2>4. t \in AllTasks \ woken /\ flags[t] \intersect CheckBits # {}
    BY <2>2, <2>3, WaitersAsleep
  <2>5. EntryOf(entry, t, reason)
    BY <2>3, <2>4 DEF EntryOf
  <2> HIDE DEF t, entry
  <2>6. Serve(StateOf(woken, reason, rd, wt, why), entry, reason) =
           StateOf(woken \union {t}, reason, InsertByPrio(rd, t, priority),
                   Unlink(wt, t), [why EXCEPT ![t] = "flags"])
    BY <2>4, <2>5, ServeOne
  <2>7. Linked(woken \union {t}, InsertByPrio(rd, t, priority), Unlink(wt, t))
    BY <1>3, <2>2, <2>3, LinkedOneMore
  <2>8. [why EXCEPT ![t] = "flags"] \in [AllTasks -> Reasons]
    BY <1>3 DEF Reasons, Kinds
  <2>9. woken \union {t} # {}
    OBVIOUS
  <2>10. ServedState(table, reason, n, Serve(s, entry, reason))
    BY <1>3, <2>1, <2>6, <2>7, <2>8, <2>9, Zenon DEF ServedState
  <2> QED
    BY <1>5, <2>10 DEF entry
<1> QED
  BY <1>4, <1>5

LEMMA ServedStates ==
    ASSUME RuleInv, fault = "none", NEW table, NEW reason,
           Servable(table, reason), NEW n \in 0 .. MaxPending
    PROVE  ServedState(table, reason, n, Served(table, reason)[n])
<1> DEFINE J(i) == ServedState(table, reason, i, Served(table, reason)[i])
           T == { i \in 0 .. MaxPending : ~ J(i) }
<1> SUFFICES ASSUME T # {} PROVE FALSE
  OBVIOUS
<1>1. PICK k \in T : \A i \in T : k <= i
  <2>1. T \in SUBSET Nat
    BY FlagAssumption
  <2> HIDE DEF T
  <2> QED
    BY <2>1, LeastNatural
<1>2. CASE k = 0
  BY <1>2, ServedFirst, ServedIs
<1>3. CASE k # 0
  <2>1. /\ k \in 1 .. MaxPending
        /\ k - 1 \in 0 .. MaxPending /\ k - 1 \notin T
    BY <1>1, <1>3, FlagAssumption
  <2>2. J(k - 1)
    BY <2>1
  <2>3. Served(table, reason)[k] =
           IF k \in DOMAIN table
             THEN Serve(Served(table, reason)[k - 1], table[k], reason)
             ELSE Served(table, reason)[k - 1]
    BY <2>1, ServedIs
  <2>4. J(k)
    BY <2>1, <2>2, <2>3, ServedOneMore
  <2> QED
    BY <2>4
<1> QED
  BY <1>2, <1>3

LEMMA ServeIsGroup ==
    ASSUME RuleInv, NEW f, NEW table, NEW reason, Servable(table, reason),
           ServeSlots(f, table, reason)
    PROVE  WakesGroup(TasksIn(table, MaxPending), reason)
<1> PICK woken : woken = TasksIn(table, MaxPending)
  OBVIOUS
<1>1. /\ InterruptRuns /\ fault = "none"
      /\ \A i \in DOMAIN table : MayServe(table[i].tcb)
      /\ MaxPending \in 0 .. MaxPending
  BY FlagAssumption DEF ServeSlots, InterruptRuns
<1> PICK after : after = Served(table, reason)[MaxPending]
  OBVIOUS
<1>2. /\ ready' = after.ready
      /\ wait' = after.wait
      /\ flags' = after.flags
      /\ sleepCntr' = after.sleepCntr
      /\ resource' = after.resource
      /\ wakeReason' = after.wakeReason
      /\ fault' = after.fault
      /\ IF ready' = ready THEN UNCHANGED switchVars
                           ELSE PreemptIfHeadChanged
      /\ UNCHANGED <<created, priority, tickVars>>
  BY Zenon DEF ServeSlots
<1>3. ServedState(table, reason, MaxPending, after)
  BY <1>1, ServedStates
<1> PICK rd, wt, why :
           /\ why \in [AllTasks -> Reasons]
           /\ Linked(woken, rd, wt)
           /\ woken = {} => rd = ready
           /\ after = StateOf(woken, reason, rd, wt, why)
  BY <1>3 DEF ServedState
<1>4. /\ ready' = rd /\ wait' = wt /\ wakeReason' = why
      /\ fault' = fault
      /\ flags' = [t \in AllTasks |->
                     IF t \in woken THEN flags[t] \ (reason \union CheckBits)
                                    ELSE flags[t]]
      /\ resource' = [t \in AllTasks |->
                        IF t \in woken THEN NoRes ELSE resource[t]]
      /\ sleepCntr' = [t \in AllTasks |->
                         IF t \in woken THEN 0 ELSE sleepCntr[t]]
  BY <1>1, <1>2 DEF StateOf
<1>5. woken \subseteq Listed(wait) /\ woken \subseteq created \ {BG}
  BY WaitersAsleep DEF TasksIn, Servable
<1>6. pend /\ current \in woken => "late_wake" \in Relaxed
  BY <1>1 DEF TasksIn, MayServe
<1>7. ready' = ready <=> woken = {}
  <2>1. Listed(rd) = Listed(ready) \union woken
    BY DEF Linked
  <2>2. woken \intersect Listed(ready) = {}
    BY <1>5, WaitersAsleep
  <2> QED
    BY <1>4, <2>1, <2>2
<1> QED
  BY <1>2, <1>4, <1>5, <1>6, <1>7, Zenon DEF WakesGroup
-----------------------------------------------------------------------------
(***************************************************************************)
(* The strengthening.  RegisteredInv and CallsMatch are about mailboxes,   *)
(* TableInv about the tables of the flags objects: no task is in two       *)
(* entries, of one table or of two, so a served entry takes its task out   *)
(* of all of them.                                                         *)
(***************************************************************************)

Gets == [op : {"get"}, mbox : Mailboxes]

Sends == [op : {"send"}, mbox : Mailboxes, data : Mails]

Calls == {NoCall} \union Gets \union Sends

MailTypes ==
    /\ mail \in [Mailboxes -> Mails \union {Empty}]
    /\ blockedTask \in [Mailboxes -> Tasks \union {NoTask}]
    /\ calling \in [AllTasks -> Calls]

RegisteredInv ==
    \A m \in Mailboxes, t \in AllTasks :
        blockedTask[m] = t <=> resource[t] = m

CallsMatch ==
    \A t \in AllTasks :
        resource[t] \in Mailboxes =>
            /\ t \in Tasks
            /\ calling[t] \in Gets \union Sends
            /\ calling[t].mbox = resource[t]

(* An event that has a status bit among its own is not waited for.         *)
Entries == [type : {"any", "exact"}, tcb : Tasks,
            event : { e \in Events : e \intersect CheckBits = {} }]

TableTypes ==
    /\ events \in [FlagObjects -> SUBSET (UNION Events)]
    /\ pending \in [FlagObjects -> [Slots -> Entries \union {NoEntry}]]

TableInv ==
    /\ \A f \in FlagObjects : \A i \in Used(f) :
          /\ pending[f][i].tcb \in Listed(wait)
          /\ \/ resource[pending[f][i].tcb] = f
             \/ /\ resource[pending[f][i].tcb] = NoRes
                /\ SUSPENDED \in flags[pending[f][i].tcb]
    /\ \A f, g \in FlagObjects : \A i \in Used(f), j \in Used(g) :
          pending[f][i].tcb = pending[g][j].tcb => f = g /\ i = j
    /\ \A f \in FlagObjects, t \in AllTasks :
          resource[t] = f => t \in Pending(f)

SchedInv == RuleInv /\ HeldInv

MailInv == MailTypes /\ RegisteredInv /\ CallsMatch

FlagInv == TableTypes /\ TableInv

EventsInv == SchedInv /\ MailInv /\ FlagInv

LEMMA CallShapes ==
    ASSUME NEW c \in Calls
    PROVE  \/ c = NoCall /\ c.op = "none"
           \/ c \in Gets /\ c.op = "get" /\ c.mbox \in Mailboxes /\ c # NoCall
           \/ /\ c \in Sends /\ c.op = "send" /\ c.mbox \in Mailboxes
              /\ c.data \in Mails /\ c # NoCall
<1>1. NoCall.op = "none"
  BY DEF NoCall
<1>2. CASE c \in Gets
  BY <1>1, <1>2 DEF Gets
<1>3. CASE c \in Sends
  BY <1>1, <1>3 DEF Sends
<1>4. CASE c = NoCall
  BY <1>1, <1>4
<1> QED
  BY <1>2, <1>3, <1>4 DEF Calls

LEMMA EntryFacts ==
    ASSUME TableTypes, NEW f \in FlagObjects, NEW i \in Used(f)
    PROVE  /\ i \in Slots
           /\ pending[f][i] \in Entries
           /\ pending[f][i].tcb \in Tasks /\ pending[f][i].tcb \in AllTasks
           /\ pending[f][i].tcb \in Pending(f)
<1>1. i \in Slots /\ pending[f][i] # NoEntry
  BY DEF Used
<1>2. pending[f][i] \in Entries
  BY <1>1 DEF TableTypes
<1>3. pending[f][i].tcb \in Tasks
  BY <1>2 DEF Entries
<1>4. pending[f][i].tcb \in Pending(f)
  BY DEF Pending
<1> QED
  BY <1>1, <1>2, <1>3, <1>4 DEF AllTasks

LEMMA KindsApart ==
    /\ Mailboxes \subseteq Resources /\ FlagObjects \subseteq Resources
    /\ Mailboxes \intersect FlagObjects = {}
    /\ NoRes \notin Mailboxes /\ NoRes \notin FlagObjects
BY ResourceAssumption DEF Mailboxes, FlagObjects

(* The running task is not asleep, holds nothing and is in no table.       *)
LEMMA RunnerAlone ==
    ASSUME SchedInv, FlagInv, TaskRuns
    PROVE  /\ current \in Tasks /\ current \in AllTasks
           /\ current \in created /\ current \in Listed(ready)
           /\ current \notin Listed(wait)
           /\ resource[current] = NoRes
           /\ \A f \in FlagObjects : current \notin Pending(f)
<1>1. /\ current \in Tasks /\ current \in created
      /\ current \in Listed(ready) /\ current \notin Listed(wait)
      /\ resource[current] = NoRes
  BY RunningTask, ReadyHoldsNothing DEF SchedInv
<1>2. \A f \in FlagObjects : Pending(f) \subseteq Listed(wait)
  BY DEF FlagInv, TableInv, Pending
<1> QED
  BY <1>1, <1>2 DEF AllTasks

-----------------------------------------------------------------------------
(***************************************************************************)
(* What a step of the scheduler changes of a task's resource, of its       *)
(* SUSPENDED bit and of the tasks that wait.                               *)
(***************************************************************************)

OneWakes(t) ==
    /\ t \in Listed(wait)
    /\ Listed(wait') = Listed(wait) \ {t} /\ created' = created
    /\ resource' = [resource EXCEPT ![t] = NoRes]
    /\ \A x \in AllTasks \ {t} : flags'[x] = flags[x]

OneSleeps(r) ==
    /\ TaskRuns
    /\ Listed(wait') = Listed(wait) \union {current}
    /\ resource' = [resource EXCEPT ![current] = r]
    /\ r = NoRes => SUSPENDED \in flags'[current]
    /\ \A x \in AllTasks \ {current} : flags'[x] = flags[x]

Quiet ==
    /\ resource' = resource
    /\ \A t \in Listed(wait') :
          SUSPENDED \in flags[t] => SUSPENDED \in flags'[t]

LEMMA ResourceWakesOne ==
    ASSUME SchedInv, NEW t, WakeFromResource(t)
    PROVE  OneWakes(t) /\ t \in Tasks /\ resource[t] # NoRes
<1>1. /\ t \in Listed(wait) /\ resource[t] # NoRes
      /\ wait' = Unlink(wait, t) /\ created' = created
      /\ resource' = [resource EXCEPT ![t] = NoRes]
      /\ flags' = [flags EXCEPT
                     ![t] = (@ \ BitsOf[KindOf[resource[t]]]) \ CheckBits]
  BY DEF WakeFromResource, MayWake, MakeReady
<1>2. Listed(wait') = Listed(wait) \ {t}
  BY <1>1, ListsKnown, UnlinkFacts DEF SchedInv, RuleInv, ListRules
<1>3. \A x \in AllTasks \ {t} : flags'[x] = flags[x]
  BY <1>1 DEF SchedInv, RuleInv, Inv, TypeOK, TypeOfTCBs
<1> QED
  BY <1>1, <1>2, <1>3, WaitersAsleep DEF OneWakes, SchedInv

LEMMA TickWakesOne ==
    ASSUME SchedInv, TickWakes, resource[cursor] # NoRes
    PROVE  OneWakes(cursor) /\ cursor \in Tasks /\ cursor \in AllTasks
<1>1. /\ cursor \in Listed(wait)
      /\ wait' = Unlink(wait, cursor) /\ created' = created
      /\ flags' = [flags EXCEPT ![cursor] = @ \ ({SLEEP} \union ResourceBits)]
      /\ resource' = IF HeldBits(cursor) = {}
                       THEN resource ELSE [resource EXCEPT ![cursor] = NoRes]
  BY DEF TickWakes, MakeReady, TaskSleepTimeoutHandler
<1>2. Listed(wait') = Listed(wait) \ {cursor}
  BY <1>1, ListsKnown, UnlinkFacts DEF SchedInv, RuleInv, ListRules
<1>3. cursor \in AllTasks /\ cursor \in Tasks
  BY <1>1, WaitersAsleep DEF SchedInv
<1>4. \A x \in AllTasks \ {cursor} : flags'[x] = flags[x]
  BY <1>1 DEF SchedInv, RuleInv, Inv, TypeOK, TypeOfTCBs
<1>5. resource[cursor] \in Resources
  BY <1>3 DEF SchedInv, RuleInv, Inv, TypeOK, TypeOfTCBs
<1>6. HeldBits(cursor) # {}
  BY <1>3, <1>5, BitsOfKind DEF SchedInv, HeldInv
<1> QED
  BY <1>1, <1>2, <1>3, <1>4, <1>6 DEF OneWakes

LEMMA CallerSleeps ==
    ASSUME SchedInv, NEW r \in Resources, NEW p, SetReasonForSleep(r, p)
    PROVE  OneSleeps(r)
<1>1. /\ TaskRuns /\ wait' = <<Head(ready)>> \o wait
      /\ resource' = [resource EXCEPT ![current] = r]
      /\ flags' = [flags EXCEPT ![current] =
                     @ \union BitsOf[KindOf[r]] \union {SLEEP}]
  BY DEF SetReasonForSleep, GoToSleep, SetNextReadyTaskToRun
<1>2. /\ current = Head(ready) /\ current \notin Listed(wait)
      /\ current \in AllTasks
  BY <1>1, RunningTask DEF SchedInv, AllTasks
<1>3. wait \in Seq(AllTasks) /\ IsInjective(wait)
  BY ListsKnown DEF SchedInv, RuleInv, ListRules
<1>4. Listed(wait') = Listed(wait) \union {current}
  BY <1>1, <1>2, <1>3, PrependFacts
<1>5. \A x \in AllTasks \ {current} : flags'[x] = flags[x]
  BY <1>1 DEF SchedInv, RuleInv, Inv, TypeOK, TypeOfTCBs
<1> QED
  BY <1>1, <1>4, <1>5, NoResIsNone DEF OneSleeps

LEMMA CallerSuspends ==
    ASSUME SchedInv, TaskRuns, TaskSuspend(current)
    PROVE  OneSleeps(NoRes)
<1>1. /\ current \in Listed(ready) /\ current \notin Listed(wait)
      /\ current \in created /\ current \in AllTasks
      /\ resource[current] = NoRes
  BY RunningTask, ReadyHoldsNothing DEF SchedInv, AllTasks
<1>2. flags[current] \intersect CheckBits = {}
  BY <1>1 DEF SchedInv, RuleInv, ListRules, FlagsInv, FlagsTellList
<1>3. /\ flags' = [flags EXCEPT ![current] = @ \union {SUSPENDED}]
      /\ wait' = Append(wait, current)
      /\ resource' = resource
  BY <1>1, <1>2 DEF TaskSuspend
<1>4. wait \in Seq(AllTasks) /\ IsInjective(wait)
  BY ListsKnown DEF SchedInv, RuleInv, ListRules
<1>5. Listed(wait') = Listed(wait) \union {current}
  BY <1>1, <1>3, <1>4, AppendFacts
<1>6. /\ SUSPENDED \in flags'[current]
      /\ \A x \in AllTasks \ {current} : flags'[x] = flags[x]
      /\ resource' = [resource EXCEPT ![current] = NoRes]
  BY <1>1, <1>3 DEF SchedInv, RuleInv, Inv, TypeOK, TypeOfTCBs
<1> QED
  BY <1>5, <1>6 DEF OneSleeps

LEMMA ApplicationIsQuiet ==
    ASSUME SchedInv, RulesKept, ApplicationStep
    PROVE  Quiet /\ Listed(wait) \subseteq Listed(wait')
<1>1. ASSUME \/ \E p \in Periods : TaskSleep(p)
             \/ \E n \in WakeTimes : TaskSleepSetFreq(n)
      PROVE  Quiet /\ Listed(wait) \subseteq Listed(wait')
  <2>1. /\ TaskRuns /\ wait' = <<Head(ready)>> \o wait
        /\ resource' = resource
        /\ flags' = [flags EXCEPT ![current] = @ \union {SLEEP}]
    BY <1>1 DEF TaskSleep, TaskSleepSetFreq, GoToSleep, SetNextReadyTaskToRun
  <2>2. /\ current = Head(ready) /\ current \notin Listed(wait)
        /\ current \in AllTasks
        /\ wait \in Seq(AllTasks) /\ IsInjective(wait)
    BY <2>1, RunningTask, ListsKnown
       DEF SchedInv, RuleInv, ListRules, AllTasks
  <2>3. Listed(wait') = Listed(wait) \union {current}
    BY <2>1, <2>2, PrependFacts
  <2>4. \A t \in AllTasks : flags[t] \subseteq flags'[t]
    BY <2>1 DEF SchedInv, RuleInv, Inv, TypeOK, TypeOfTCBs
  <2>5. Listed(wait') \subseteq AllTasks
    BY <2>2, <2>3, ListedFacts
  <2> QED
    BY <2>1, <2>3, <2>4, <2>5 DEF Quiet
<1>2. ASSUME NEW t \in Tasks, TaskSuspend(t)
      PROVE  Quiet /\ Listed(wait) \subseteq Listed(wait')
  <2>1. wait \in Seq(AllTasks) /\ IsInjective(wait) /\ t \in AllTasks
    BY ListsKnown DEF SchedInv, RuleInv, ListRules, AllTasks
  <2>2. "suspend_waiting" \notin Relaxed
    BY RulesGive
  <2>3. /\ resource' = resource
        /\ \/ wait' = wait
           \/ t \in Listed(ready) /\ wait' = Append(wait, t)
           \/ t \in Listed(wait) /\ wait' = Append(Unlink(wait, t), t)
        /\ flags' = flags \/ flags' = [flags EXCEPT ![t] = @ \union {SUSPENDED}]
    BY <1>2, <2>2 DEF TaskSuspend
  <2>4. \A x \in AllTasks : flags[x] \subseteq flags'[x]
    BY <2>3 DEF SchedInv, RuleInv, Inv, TypeOK, TypeOfTCBs
  <2>5. Listed(wait) \subseteq Listed(wait') /\ Listed(wait') \subseteq AllTasks
    <3>1. CASE wait' = wait
      BY <2>1, <3>1, ListedFacts
    <3>2. CASE t \in Listed(ready) /\ wait' = Append(wait, t)
      <4>1. t \notin Listed(wait)
        BY <3>2, ListsKnown DEF SchedInv, RuleInv, ListRules
      <4> QED
        BY <2>1, <3>2, <4>1, AppendFacts, ListedFacts
    <3>3. CASE t \in Listed(wait) /\ wait' = Append(Unlink(wait, t), t)
      <4>1. /\ Unlink(wait, t) \in Seq(AllTasks)
            /\ IsInjective(Unlink(wait, t))
            /\ Listed(Unlink(wait, t)) = Listed(wait) \ {t}
        BY <2>1, <3>3, UnlinkFacts
      <4>2. Listed(wait') = Listed(Unlink(wait, t)) \union {t}
        BY <2>1, <3>3, <4>1, AppendFacts
      <4> QED
        BY <2>1, <4>1, <4>2, ListedFacts
    <3> QED
      BY <2>3, <3>1, <3>2, <3>3
  <2> QED
    BY <2>3, <2>4, <2>5 DEF Quiet
<1> QED
  BY <1>1, <1>2 DEF ApplicationStep

LEMMA KernelIsQuiet ==
    ASSUME SchedInv, KernelStep
    PROVE  Quiet
<1>1. ASSUME NEW t \in Tasks, TaskWake(t), resource[t] = NoRes
      PROVE  Quiet
  <2>1. /\ t \in Listed(wait) /\ wait' = Unlink(wait, t)
        /\ resource' = resource
        /\ flags' = [flags EXCEPT ![t] = @ \ CheckBits]
    BY <1>1 DEF TaskWake, MayWake, MakeReady
  <2>2. Listed(wait') = Listed(wait) \ {t} /\ Listed(wait) \subseteq AllTasks
    BY <2>1, ListsKnown, UnlinkFacts, ListedFacts
       DEF SchedInv, RuleInv, ListRules
  <2>3. \A x \in AllTasks \ {t} : flags'[x] = flags[x]
    BY <2>1 DEF SchedInv, RuleInv, Inv, TypeOK, TypeOfTCBs
  <2> QED
    BY <2>1, <2>2, <2>3 DEF Quiet
<1>2. ASSUME TickWakes, resource[cursor] = NoRes
      PROVE  Quiet
  <2>1. /\ cursor \in Listed(wait)
        /\ wait' = Unlink(wait, cursor)
        /\ flags' = [flags EXCEPT
                       ![cursor] = @ \ ({SLEEP} \union ResourceBits)]
        /\ resource' = IF HeldBits(cursor) = {}
                         THEN resource ELSE [resource EXCEPT ![cursor] = NoRes]
    BY <1>2 DEF TickWakes, MakeReady, TaskSleepTimeoutHandler
  <2>2. cursor \in AllTasks
    BY <2>1, WaitersAsleep DEF SchedInv
  <2>3. HeldBits(cursor) = {}
    BY <1>2, <2>2 DEF SchedInv, HeldInv
  <2>4. Listed(wait') = Listed(wait) \ {cursor}
        /\ Listed(wait) \subseteq AllTasks
    BY <2>1, ListsKnown, UnlinkFacts, ListedFacts
       DEF SchedInv, RuleInv, ListRules
  <2>5. \A x \in AllTasks \ {cursor} : flags'[x] = flags[x]
    BY <2>1 DEF SchedInv, RuleInv, Inv, TypeOK, TypeOfTCBs
  <2> QED
    BY <2>1, <2>3, <2>4, <2>5 DEF Quiet
<1>3. CASE \/ \E t \in Tasks : CreateTask(t) \/ WrongListUnlinked(t)
           \/ Start \/ Dispatch \/ TickStart \/ TickMeetsSuspended
           \/ TickCountsDown \/ TickMislinks \/ TickEnd
  BY <1>3 DEF Quiet, CreateTask, WrongListUnlinked, Start, Dispatch, TickStart,
              TickMeetsSuspended, TickCountsDown, TickMislinks, TickEnd
<1> QED
  BY <1>1, <1>2, <1>3 DEF KernelStep

-----------------------------------------------------------------------------
(* What a mailbox has registered: unchanged, one task less or one more.    *)

LEMMA MailSame ==
    ASSUME MailInv, blockedTask' = blockedTask,
           mail' \in [Mailboxes -> Mails \union {Empty}],
           \A t \in AllTasks :
              \/ resource'[t] = resource[t]
              \/ resource'[t] \notin Mailboxes /\ resource[t] \notin Mailboxes,
           \A t \in AllTasks :
              resource[t] \in Mailboxes => calling'[t] = calling[t],
           calling' \in [AllTasks -> Calls]
    PROVE  MailInv'
<1>1. MailTypes'
  BY DEF MailInv, MailTypes
<1>2. RegisteredInv'
  <2>1. ASSUME NEW m \in Mailboxes, NEW t \in AllTasks
        PROVE  blockedTask[m] = t <=> resource'[t] = m
    BY DEF MailInv, RegisteredInv
  <2> QED
    BY <2>1 DEF RegisteredInv
<1>3. CallsMatch'
  BY DEF MailInv, CallsMatch
<1> QED
  BY <1>1, <1>2, <1>3 DEF MailInv

(* No call is changed and no resource, or none that is a mailbox.          *)
LEMMA MailUntouched ==
    ASSUME MailInv, UNCHANGED mailVars,
           \A t \in AllTasks :
              \/ resource'[t] = resource[t]
              \/ resource'[t] \notin Mailboxes /\ resource[t] \notin Mailboxes
    PROVE  MailInv'
BY MailSame DEF mailVars, MailInv, MailTypes

LEMMA MailLeft ==
    ASSUME SchedInv, MailInv, NEW m \in Mailboxes, NEW t \in AllTasks,
           resource[t] = m,
           blockedTask' = [blockedTask EXCEPT ![m] = NoTask],
           resource' = [resource EXCEPT ![t] = NoRes],
           mail' \in [Mailboxes -> Mails \union {Empty}], calling' = calling
    PROVE  MailInv'
<1>1. /\ resource'[t] = NoRes
      /\ \A x \in AllTasks \ {t} : resource'[x] = resource[x]
  BY DEF SchedInv, RuleInv, Inv, TypeOK, TypeOfTCBs
<1>2. /\ blockedTask'[m] = NoTask
      /\ \A n \in Mailboxes \ {m} : blockedTask'[n] = blockedTask[n]
  BY DEF MailInv, MailTypes
<1>3. MailTypes'
  BY DEF MailInv, MailTypes
<1>4. ASSUME NEW n \in Mailboxes, NEW x \in AllTasks
      PROVE  blockedTask'[n] = x <=> resource'[x] = n
  <2>1. /\ blockedTask[n] = x <=> resource[x] = n
        /\ blockedTask[m] = t
        /\ n # NoRes /\ x # NoTask
    BY KindsApart, NoTaskIsNone DEF MailInv, RegisteredInv
  <2>2. CASE n = m
    BY <1>1, <1>2, <2>1, <2>2
  <2>3. CASE n # m
    BY <1>1, <1>2, <2>1, <2>3
  <2> QED
    BY <2>2, <2>3
<1>5. CallsMatch'
  BY <1>1, KindsApart DEF MailInv, CallsMatch
<1> QED
  BY <1>3, <1>4, <1>5 DEF MailInv, RegisteredInv

LEMMA MailJoined ==
    ASSUME SchedInv, MailInv, NEW m \in Mailboxes, NEW t \in Tasks,
           resource[t] = NoRes, blockedTask[m] = NoTask,
           blockedTask' = [blockedTask EXCEPT ![m] = t],
           resource' = [resource EXCEPT ![t] = m],
           NEW c \in Gets \union Sends, c.mbox = m,
           calling' = [calling EXCEPT ![t] = c], mail' = mail
    PROVE  MailInv'
<1>1. t \in AllTasks
  BY DEF AllTasks
<1>2. /\ resource'[t] = m /\ calling'[t] = c
      /\ \A x \in AllTasks \ {t} : resource'[x] = resource[x]
                                 /\ calling'[x] = calling[x]
  BY <1>1 DEF SchedInv, RuleInv, Inv, TypeOK, TypeOfTCBs, MailInv, MailTypes
<1>3. /\ blockedTask'[m] = t
      /\ \A n \in Mailboxes \ {m} : blockedTask'[n] = blockedTask[n]
  BY DEF MailInv, MailTypes
<1>4. MailTypes'
  BY DEF MailInv, MailTypes, Calls
<1>5. ASSUME NEW n \in Mailboxes, NEW x \in AllTasks
      PROVE  blockedTask'[n] = x <=> resource'[x] = n
  <2>1. /\ blockedTask[n] = x <=> resource[x] = n
        /\ n # NoRes /\ x # NoTask
    BY KindsApart, NoTaskIsNone DEF MailInv, RegisteredInv
  <2>2. CASE n = m
    BY <1>2, <1>3, <2>1, <2>2
  <2>3. CASE n # m
    BY <1>2, <1>3, <2>1, <2>3
  <2> QED
    BY <2>2, <2>3
<1>6. CallsMatch'
  BY <1>2 DEF MailInv, CallsMatch
<1> QED
  BY <1>4, <1>5, <1>6 DEF MailInv, RegisteredInv

-----------------------------------------------------------------------------
(* The tables: the entries of some tasks are emptied, or the running task  *)
(* gets one.                                                               *)

EntriesLeave(gone) ==
    pending' = [f \in FlagObjects |->
                  [i \in Slots |->
                     IF i \in Used(f) /\ pending[f][i].tcb \in gone
                       THEN NoEntry ELSE pending[f][i]]]

OthersStay(gone) ==
    /\ \A f \in FlagObjects : \A t \in Pending(f) \ gone :
          /\ t \in Listed(wait') /\ resource'[t] = resource[t]
          /\ SUSPENDED \in flags[t] => SUSPENDED \in flags'[t]
    /\ \A t \in AllTasks :
          resource'[t] \in FlagObjects =>
              t \notin gone /\ resource'[t] = resource[t]

(* Who loses an entry is ready.                                            *)
LeaveReady ==
    \A f \in FlagObjects : \A t \in Pending(f) :
        t \in Pending(f)' \/ t \in Listed(ready')

LEMMA UsedLeft ==
    ASSUME FlagInv, NEW gone, EntriesLeave(gone), NEW f \in FlagObjects
    PROVE  /\ \A i \in Slots :
                 i \in Used(f)' <=> i \in Used(f) /\ pending[f][i].tcb \notin gone
           /\ \A i \in Used(f)' : pending'[f][i] = pending[f][i]
           /\ Pending(f)' = Pending(f) \ gone
<1>1. \A i \in Slots :
         pending'[f][i] = IF i \in Used(f) /\ pending[f][i].tcb \in gone
                            THEN NoEntry ELSE pending[f][i]
  BY DEF EntriesLeave
<1>2. \A i \in Slots :
         i \in Used(f)' <=> i \in Used(f) /\ pending[f][i].tcb \notin gone
  BY <1>1 DEF Used
<1>3. \A i \in Used(f)' : i \in Slots /\ pending'[f][i] = pending[f][i]
  BY <1>1, <1>2 DEF Used
<1>4. \A i \in Used(f) : i \in Slots
  BY DEF Used
<1>5. Pending(f)' = Pending(f) \ gone
  BY <1>2, <1>3, <1>4 DEF Pending
<1> QED
  BY <1>2, <1>3, <1>5

LEMMA TableLeft ==
    ASSUME FlagInv, NEW gone, EntriesLeave(gone), OthersStay(gone),
           gone \subseteq Listed(ready'),
           events' \in [FlagObjects -> SUBSET (UNION Events)]
    PROVE  FlagInv' /\ LeaveReady
<1>1. \A f \in FlagObjects : \A i \in Used(f)' :
         /\ i \in Used(f) /\ pending[f][i].tcb \notin gone
         /\ pending'[f][i] = pending[f][i]
  <2>1. \A f \in FlagObjects : \A i \in Used(f)' : i \in Slots
    BY DEF Used
  <2> QED
    BY <2>1, UsedLeft
<1>2. TableTypes'
  <2>1. ASSUME NEW f \in FlagObjects, NEW i \in Slots
        PROVE  (IF i \in Used(f) /\ pending[f][i].tcb \in gone
                  THEN NoEntry ELSE pending[f][i]) \in Entries \union {NoEntry}
    BY DEF FlagInv, TableTypes
  <2>2. pending' \in [FlagObjects -> [Slots -> Entries \union {NoEntry}]]
    BY <2>1 DEF EntriesLeave
  <2> QED
    BY <2>2 DEF TableTypes
<1>3. ASSUME NEW f \in FlagObjects, NEW i \in Used(f)'
      PROVE  /\ pending'[f][i].tcb \in Listed(wait')
             /\ \/ resource'[pending'[f][i].tcb] = f
                \/ /\ resource'[pending'[f][i].tcb] = NoRes
                   /\ SUSPENDED \in flags'[pending'[f][i].tcb]
  <2> PICK t : t = pending[f][i].tcb
    OBVIOUS
  <2>1. /\ i \in Used(f) /\ t \notin gone /\ pending'[f][i].tcb = t
    BY <1>1
  <2>2. t \in Pending(f)
    BY <2>1 DEF Pending
  <2>3. /\ t \in Listed(wait') /\ resource'[t] = resource[t]
        /\ SUSPENDED \in flags[t] => SUSPENDED \in flags'[t]
    BY <2>1, <2>2 DEF OthersStay
  <2>4. resource[t] = f \/ (resource[t] = NoRes /\ SUSPENDED \in flags[t])
    BY <2>1 DEF FlagInv, TableInv
  <2> QED
    BY <2>1, <2>3, <2>4
<1>4. \A f, g \in FlagObjects : \A i \in Used(f)', j \in Used(g)' :
         pending'[f][i].tcb = pending'[g][j].tcb => f = g /\ i = j
  BY <1>1 DEF FlagInv, TableInv
<1>5. ASSUME NEW f \in FlagObjects, NEW t \in AllTasks, resource'[t] = f
      PROVE  t \in Pending(f)'
  <2>1. t \notin gone /\ resource[t] = f
    BY <1>5 DEF OthersStay
  <2>2. t \in Pending(f)
    BY <2>1 DEF FlagInv, TableInv
  <2>3. Pending(f)' = Pending(f) \ gone
    BY UsedLeft
  <2> QED
    BY <2>1, <2>2, <2>3
<1>6. FlagInv'
  BY <1>2, <1>3, <1>4, <1>5 DEF FlagInv, TableInv
<1>7. LeaveReady
  BY UsedLeft DEF LeaveReady
<1> QED
  BY <1>6, <1>7

LEMMA TableSame ==
    ASSUME FlagInv, pending' = pending, OthersStay({}),
           events' \in [FlagObjects -> SUBSET (UNION Events)]
    PROVE  FlagInv' /\ LeaveReady
<1>1. EntriesLeave({})
  BY DEF EntriesLeave, FlagInv, TableTypes
<1> QED
  BY <1>1, TableLeft

LEMMA TableJoins ==
    ASSUME SchedInv, FlagInv, FlagRules = {},
           NEW f \in FlagObjects, NEW event \in Events,
           NEW type \in {"any", "exact"}, NEW p, PendOnFlags(f, event, p, type),
           NEW r \in {f, NoRes}, OneSleeps(r)
    PROVE  FlagInv' /\ LeaveReady
<1> PICK e : e = [type |-> type, tcb |-> current, event |-> event]
  OBVIOUS
<1>1. PICK i \in Slots \ Used(f) : pending' = [pending EXCEPT ![f][i] = e]
  BY DEF PendOnFlags
<1>2. \A g \in FlagObjects, j \in Slots :
         pending'[g][j] = IF g = f /\ j = i THEN e ELSE pending[g][j]
  BY <1>1 DEF FlagInv, TableTypes
<1>3. /\ current \in Tasks /\ current \in AllTasks
      /\ current \notin Listed(wait)
      /\ resource[current] = NoRes
      /\ \A g \in FlagObjects : current \notin Pending(g)
  BY RunnerAlone DEF PendOnFlags
<1>4. e \in Entries /\ e.tcb = current /\ e # NoEntry
  <2>1. event \intersect CheckBits = {}
    BY DEF PendOnFlags
  <2>2. e \in Entries
    BY <1>3, <2>1 DEF Entries
  <2>3. e.type # "none" /\ NoEntry.type = "none"
    BY DEF NoEntry
  <2> QED
    BY <2>2, <2>3
<1>5. \A g \in FlagObjects, j \in Slots :
         j \in Used(g)' <=> j \in Used(g) \/ (g = f /\ j = i)
  BY <1>1, <1>2, <1>4 DEF Used
<1>6. \A g \in FlagObjects : \A j \in Used(g)' :
         /\ j \in Slots
         /\ \/ g = f /\ j = i /\ pending'[g][j].tcb = current
            \/ /\ j \in Used(g) /\ ~ (g = f /\ j = i)
               /\ pending'[g][j] = pending[g][j]
               /\ pending[g][j].tcb \in Pending(g)
               /\ pending[g][j].tcb \in AllTasks \ {current}
  <2>1. \A g \in FlagObjects : \A j \in Used(g)' : j \in Slots
    BY DEF Used
  <2>2. ASSUME NEW g \in FlagObjects, NEW j \in Used(g)', ~ (g = f /\ j = i)
        PROVE  /\ j \in Used(g) /\ pending'[g][j] = pending[g][j]
               /\ pending[g][j].tcb \in Pending(g)
               /\ pending[g][j].tcb \in AllTasks \ {current}
    <3>1. j \in Used(g) /\ pending'[g][j] = pending[g][j]
      BY <1>2, <1>5, <2>1, <2>2
    <3>2. pending[g][j].tcb \in Pending(g) /\ pending[g][j].tcb \in AllTasks
      BY <3>1, EntryFacts DEF FlagInv
    <3> QED
      BY <1>3, <3>1, <3>2
  <2>3. ASSUME NEW g \in FlagObjects, NEW j \in Used(g)', g = f /\ j = i
        PROVE  pending'[g][j].tcb = current
    BY <1>1, <1>2, <1>4, <2>3
  <2> QED
    BY <2>1, <2>2, <2>3
<1>7. TableTypes'
  <2>1. events' = events
    BY DEF PendOnFlags
  <2>2. pending' \in [FlagObjects -> [Slots -> Entries \union {NoEntry}]]
    BY <1>1, <1>4 DEF FlagInv, TableTypes
  <2> QED
    BY <2>1, <2>2 DEF FlagInv, TableTypes
<1>8. /\ \A t \in AllTasks : resource'[t] = IF t = current THEN r ELSE resource[t]
      /\ \A t \in AllTasks \ {current} : flags'[t] = flags[t]
      /\ Listed(wait') = Listed(wait) \union {current}
      /\ r = NoRes => SUSPENDED \in flags'[current]
  BY DEF OneSleeps, SchedInv, RuleInv, Inv, TypeOK, TypeOfTCBs
<1>9. ASSUME NEW g \in FlagObjects, NEW j \in Used(g)'
      PROVE  /\ pending'[g][j].tcb \in Listed(wait')
             /\ \/ resource'[pending'[g][j].tcb] = g
                \/ /\ resource'[pending'[g][j].tcb] = NoRes
                   /\ SUSPENDED \in flags'[pending'[g][j].tcb]
  <2>1. CASE g = f /\ j = i
    BY <1>3, <1>6, <1>8, <2>1
  <2>2. CASE ~ (g = f /\ j = i)
    <3> PICK t : t = pending[g][j].tcb
      OBVIOUS
    <3>1. /\ j \in Used(g) /\ pending'[g][j].tcb = t
          /\ t \in AllTasks \ {current}
      BY <1>6, <2>2
    <3>2. /\ t \in Listed(wait)
          /\ resource[t] = g \/ (resource[t] = NoRes /\ SUSPENDED \in flags[t])
      BY <3>1 DEF FlagInv, TableInv
    <3>3. /\ t \in Listed(wait') /\ resource'[t] = resource[t]
          /\ flags'[t] = flags[t]
      BY <1>8, <3>1, <3>2
    <3> QED
      BY <3>1, <3>2, <3>3
  <2> QED
    BY <2>1, <2>2
<1>10. ASSUME NEW g \in FlagObjects, NEW h \in FlagObjects,
              NEW j \in Used(g)', NEW k \in Used(h)',
              pending'[g][j].tcb = pending'[h][k].tcb
       PROVE  g = h /\ j = k
  <2>1. CASE g = f /\ j = i
    BY <1>6, <1>10, <2>1
  <2>2. CASE h = f /\ k = i
    BY <1>6, <1>10, <2>2
  <2>3. CASE ~ (g = f /\ j = i) /\ ~ (h = f /\ k = i)
    <3>1. /\ j \in Used(g) /\ k \in Used(h)
          /\ pending[g][j].tcb = pending[h][k].tcb
      BY <1>6, <1>10, <2>3
    <3> QED
      BY <3>1 DEF FlagInv, TableInv
  <2> QED
    BY <2>1, <2>2, <2>3
<1>11. \A g \in FlagObjects :
          /\ \A j \in Used(g)' : pending'[g][j].tcb \in Pending(g)'
          /\ Pending(g) \subseteq Pending(g)'
  <2>1. \A g \in FlagObjects : \A j \in Used(g)' : pending'[g][j].tcb \in Pending(g)'
    BY DEF Pending
  <2>2. ASSUME NEW g \in FlagObjects, NEW j \in Used(g)
        PROVE  pending[g][j].tcb \in Pending(g)'
    <3>1. j \in Slots /\ ~ (g = f /\ j = i)
      BY <1>1 DEF Used
    <3>2. j \in Used(g)' /\ pending'[g][j] = pending[g][j]
      BY <1>2, <1>5, <3>1
    <3> QED
      BY <2>1, <3>2
  <2> QED
    BY <2>1, <2>2 DEF Pending
<1>12. ASSUME NEW g \in FlagObjects, NEW t \in AllTasks, resource'[t] = g
       PROVE  t \in Pending(g)'
  <2>1. CASE t = current
    <3>1. g = f
      BY <1>8, <1>12, <2>1, KindsApart
    <3>2. i \in Used(f)'
      BY <1>1, <1>5
    <3> QED
      BY <1>6, <1>11, <2>1, <3>1, <3>2, <1>4, <1>2
  <2>2. CASE t # current
    <3>1. t \in Pending(g)
      BY <1>8, <1>12, <2>2 DEF FlagInv, TableInv
    <3> QED
      BY <1>11, <3>1
  <2> QED
    BY <2>1, <2>2
<1>13. LeaveReady
  BY <1>11 DEF LeaveReady
<1> QED
  BY <1>7, <1>9, <1>10, <1>12, <1>13 DEF FlagInv, TableInv

(* The entries in table are served and emptied.                            *)
LEMMA TableServed ==
    ASSUME SchedInv, FlagInv, RulesKept, FlagRules = {},
           NEW f \in FlagObjects, NEW table, NEW reason,
           ServeSlots(f, table, reason), DOMAIN table \subseteq Used(f),
           \A i \in DOMAIN table :
              /\ table[i].tcb = pending[f][i].tcb
              /\ table[i].type = "any" \/ reason \intersect CheckBits = {},
           events' \in [FlagObjects -> SUBSET (UNION Events)]
    PROVE  /\ SchedInv' /\ FlagInv' /\ LeaveReady
           /\ \A t \in AllTasks : resource'[t] = resource[t]
<1> PICK woken : woken = TasksIn(table, MaxPending)
  OBVIOUS
<1>1. /\ InterruptRuns
      /\ \A i \in DOMAIN table : resource[table[i].tcb] = NoRes
      /\ pending' = [pending EXCEPT ![f] =
                       [i \in Slots |->
                          IF i \in DOMAIN table THEN NoEntry ELSE @[i]]]
  BY Zenon DEF ServeSlots, MayServe
<1>2. \A i \in DOMAIN table :
         /\ i \in Slots /\ i \in Used(f)
         /\ table[i].tcb \in Listed(wait) /\ table[i].tcb \in AllTasks
  BY EntryFacts DEF FlagInv, TableInv
<1>3. Servable(table, reason)
  BY <1>1, <1>2 DEF Servable, FlagInv, TableInv
<1>4. WakesGroup(woken, reason)
  BY <1>3, ServeIsGroup DEF SchedInv
<1>5. \A t \in woken :
         /\ t \in AllTasks /\ resource[t] = NoRes /\ HeldBits(t) = {}
         /\ \E i \in DOMAIN table : t = pending[f][i].tcb
  BY <1>1, <1>2 DEF TasksIn, SchedInv, HeldInv
<1>6. SchedInv'
  <2>1. RuleInv'
    BY <1>1, <1>4, GroupRules DEF SchedInv
  <2>2. HeldInv'
    BY <1>4, <1>5, GroupHeld DEF SchedInv
  <2> QED
    BY <2>1, <2>2 DEF SchedInv
<1>7. \A t \in AllTasks :
         IF t \in woken
           THEN resource'[t] = NoRes
           ELSE flags'[t] = flags[t] /\ resource'[t] = resource[t]
  BY <1>4, GroupFlags
<1>8. Listed(wait') = Listed(wait) \ woken /\ woken \subseteq Listed(ready')
  BY <1>4 DEF WakesGroup, Linked
<1>9. EntriesLeave(woken)
  <2>1. \A i \in DOMAIN table : pending[f][i].tcb \in woken
    BY <1>2 DEF TasksIn, Slots
  <2>2. ASSUME NEW g \in FlagObjects, NEW i \in Slots
        PROVE  i \in Used(g) /\ pending[g][i].tcb \in woken
                  <=> g = f /\ i \in DOMAIN table
    <3>1. CASE g = f /\ i \in DOMAIN table
      BY <1>2, <2>1, <3>1
    <3>2. CASE i \in Used(g) /\ pending[g][i].tcb \in woken
      <4> PICK j \in DOMAIN table : pending[g][i].tcb = pending[f][j].tcb
        BY <1>5, <3>2
      <4>1. j \in Used(f)
        BY <1>2
      <4> QED
        BY <3>2, <4>1 DEF FlagInv, TableInv
    <3> QED
      BY <3>1, <3>2
  <2>3. \A g \in FlagObjects :
           pending'[g] = [i \in Slots |->
                            IF i \in Used(g) /\ pending[g][i].tcb \in woken
                              THEN NoEntry ELSE pending[g][i]]
    <3>1. ASSUME NEW g \in FlagObjects
          PROVE  pending'[g] = [i \in Slots |->
                            IF i \in Used(g) /\ pending[g][i].tcb \in woken
                              THEN NoEntry ELSE pending[g][i]]
      <4>1. pending[g] = [i \in Slots |-> pending[g][i]]
        BY DEF FlagInv, TableTypes
      <4>2. CASE g = f
        BY <1>1, <2>2, <4>2 DEF FlagInv, TableTypes
      <4>3. CASE g # f
        BY <1>1, <2>2, <4>1, <4>3 DEF FlagInv, TableTypes
      <4> QED
        BY <4>2, <4>3
    <3> QED
      BY <3>1
  <2>4. pending' = [g \in FlagObjects |-> pending'[g]]
    BY <1>1 DEF FlagInv, TableTypes
  <2> QED
    BY <2>3, <2>4 DEF EntriesLeave
<1>10. OthersStay(woken)
  <2>1. ASSUME NEW g \in FlagObjects, NEW t \in Pending(g) \ woken
        PROVE  /\ t \in Listed(wait') /\ resource'[t] = resource[t]
               /\ flags'[t] = flags[t]
    <3>1. t \in Listed(wait) /\ t \in AllTasks
      BY EntryFacts DEF Pending, FlagInv, TableInv
    <3> QED
      BY <1>7, <1>8, <3>1
  <2> QED
    BY <1>7, <2>1, KindsApart DEF OthersStay
<1>11. FlagInv' /\ LeaveReady
  BY <1>8, <1>9, <1>10, TableLeft
<1> QED
  BY <1>5, <1>6, <1>7, <1>11

-----------------------------------------------------------------------------
(* The steps.                                                              *)

LEMMA SchedulerStep ==
    ASSUME SchedInv, RulesKept, [Next]_vars
    PROVE  SchedInv'
BY NextRules, HeldNext, MailAssumption DEF SchedInv

LEMMA OthersSleepOn ==
    ASSUME SchedInv, SchedInv', FlagInv, NEW t \in AllTasks, OneWakes(t)
    PROVE  /\ OthersStay({t}) /\ t \in Listed(ready')
           /\ (\A f \in FlagObjects : t \notin Pending(f)) => OthersStay({})
<1>1. \A x \in AllTasks : resource'[x] = IF x = t THEN NoRes ELSE resource[x]
  BY DEF OneWakes, SchedInv, RuleInv, Inv, TypeOK, TypeOfTCBs
<1>2. \A f \in FlagObjects : \A x \in Pending(f) :
         x \in Listed(wait) /\ x \in AllTasks
  BY EntryFacts DEF Pending, FlagInv, TableInv
<1>3. \A f \in FlagObjects : \A x \in Pending(f) \ {t} :
         /\ x \in Listed(wait') /\ resource'[x] = resource[x]
         /\ flags'[x] = flags[x]
  BY <1>1, <1>2 DEF OneWakes
<1>4. t \in Listed(ready')
  <2>1. t \in created
    BY WaitersAsleep DEF OneWakes, SchedInv
  <2>2. Listed(ready') \union Listed(wait') = created'
    BY ListsKnownNext DEF SchedInv, RuleInv, ListRules
  <2> QED
    BY <2>1, <2>2 DEF OneWakes
<1>5. OthersStay({t})
  BY <1>1, <1>3, KindsApart DEF OthersStay
<1>6. ASSUME \A f \in FlagObjects : t \notin Pending(f)
      PROVE  OthersStay({})
  BY <1>1, <1>3, <1>6, KindsApart DEF OthersStay
<1> QED
  BY <1>4, <1>5, <1>6

LEMMA OthersStayThere ==
    ASSUME SchedInv, FlagInv, NEW r, r \notin FlagObjects, OneSleeps(r)
    PROVE  OthersStay({})
<1>1. /\ \A x \in AllTasks : resource'[x] = IF x = current THEN r ELSE resource[x]
      /\ \A f \in FlagObjects : current \notin Pending(f)
  BY RunnerAlone DEF OneSleeps, SchedInv, RuleInv, Inv, TypeOK, TypeOfTCBs
<1>2. \A f \in FlagObjects : \A x \in Pending(f) :
         x \in Listed(wait) /\ x \in AllTasks
  BY EntryFacts DEF Pending, FlagInv, TableInv
<1>3. \A f \in FlagObjects : \A x \in Pending(f) :
         /\ x \in Listed(wait') /\ resource'[x] = resource[x]
         /\ flags'[x] = flags[x]
  BY <1>1, <1>2 DEF OneSleeps
<1> QED
  BY <1>1, <1>3 DEF OthersStay

LEMMA QuietStep ==
    ASSUME EventsInv, SchedInv', Quiet,
           \A f \in FlagObjects : Pending(f) \subseteq Listed(wait'),
           UNCHANGED <<mailVars, flagVars>>
    PROVE  EventsInv' /\ LeaveReady
<1>1. MailInv'
  BY MailUntouched DEF Quiet, EventsInv
<1>2. OthersStay({})
  BY DEF OthersStay, Quiet
<1>3. FlagInv' /\ LeaveReady
  BY <1>2, TableSame DEF flagVars, EventsInv, FlagInv, TableTypes
<1> QED
  BY <1>1, <1>3 DEF EventsInv

LEMMA StutterStep ==
    ASSUME EventsInv, Considerate, UNCHANGED <<vars, mailVars, flagVars>>
    PROVE  EventsInv' /\ LeaveReady
<1> USE DEF EventsInv, Considerate
<1>1. SchedInv'
  BY SchedulerStep
<1>2. UNCHANGED <<wait, resource, flags>>
  BY DEF vars, listVars
<1>3. Quiet
  BY <1>2 DEF Quiet
<1>4. \A f \in FlagObjects : Pending(f) \subseteq Listed(wait')
  BY <1>2 DEF FlagInv, TableInv, Pending
<1> QED
  BY <1>1, <1>3, <1>4, QuietStep

LEMMA UnblockStep ==
    ASSUME EventsInv, Considerate, NEW m \in Mailboxes, UnblockWaitingTask(m),
           mail' \in [Mailboxes -> Mails \union {Empty}], calling' = calling,
           UNCHANGED flagVars
    PROVE  EventsInv' /\ LeaveReady
<1> USE DEF EventsInv, Considerate
<1>1. CASE blockedTask[m] = NoTask
  <2>1. UNCHANGED <<vars, blockedTask>>
    BY <1>1, Zenon DEF UnblockWaitingTask
  <2>2. SchedInv'
    BY <2>1, SchedulerStep
  <2>3. UNCHANGED <<wait, resource, flags>>
    BY <2>1 DEF vars, listVars
  <2>4. MailInv'
    BY <2>1, <2>3, MailSame DEF MailInv, MailTypes
  <2>5. \A f \in FlagObjects : Pending(f) \subseteq Listed(wait)
    BY DEF FlagInv, TableInv, Pending
  <2>6. OthersStay({})
    BY <2>3, <2>5 DEF OthersStay
  <2>7. FlagInv' /\ LeaveReady
    BY <2>6, TableSame DEF flagVars, FlagInv, TableTypes
  <2> QED
    BY <2>2, <2>4, <2>7
<1>2. CASE blockedTask[m] # NoTask
  <2> PICK t : t = blockedTask[m]
    OBVIOUS
  <2>1. /\ WakeFromResource(t)
        /\ blockedTask' = [blockedTask EXCEPT ![m] = NoTask]
    BY <1>2, Zenon DEF UnblockWaitingTask
  <2>2. t \in Tasks /\ t \in AllTasks /\ resource[t] = m
    BY <1>2 DEF MailInv, MailTypes, RegisteredInv, AllTasks
  <2>3. OneWakes(t)
    BY <2>1, ResourceWakesOne
  <2>4. SchedInv'
    BY <2>1, <2>2, SchedulerStep DEF Next, NonTick
  <2>5. MailInv'
    BY <2>1, <2>2, <2>3, MailLeft DEF OneWakes
  <2>6. \A f \in FlagObjects : t \notin Pending(f)
    BY <2>2, KindsApart DEF FlagInv, TableInv, Pending
  <2>7. OthersStay({})
    BY <2>2, <2>3, <2>4, <2>6, OthersSleepOn
  <2>8. FlagInv' /\ LeaveReady
    BY <2>7, TableSame DEF flagVars, FlagInv, TableTypes
  <2> QED
    BY <2>4, <2>5, <2>8
<1> QED
  BY <1>1, <1>2

LEMMA BlockStep ==
    ASSUME EventsInv, Considerate, NEW m \in Mailboxes,
           NEW p \in Periods \ {0}, NEW c \in Gets \union Sends, c.mbox = m,
           BlockHandler(m, p, c), mail' = mail, UNCHANGED flagVars
    PROVE  EventsInv' /\ LeaveReady
<1> USE DEF EventsInv, Considerate
<1>1. /\ TaskRuns /\ SetReasonForSleep(m, p)
      /\ { t \in Tasks : resource[t] = m } = {} /\ current # TaskZero
      /\ calling' = [calling EXCEPT ![current] = c]
      /\ blockedTask' = [blockedTask EXCEPT ![m] =
                           IF @ = NoTask /\ current # TaskZero THEN current
                                                               ELSE @]
  BY DEF BlockHandler, InApplication
<1>2. blockedTask[m] = NoTask
  BY <1>1 DEF MailInv, MailTypes, RegisteredInv, AllTasks
<1>3. blockedTask' = [blockedTask EXCEPT ![m] = current]
  BY <1>1, <1>2
<1>4. m \in Resources /\ m \notin FlagObjects
  BY KindsApart
<1>5. OneSleeps(m)
  BY <1>1, <1>4, CallerSleeps
<1>6. SchedInv'
  BY <1>1, <1>4, SchedulerStep DEF Next, NonTick
<1>7. current \in Tasks /\ resource[current] = NoRes
  BY <1>1, RunnerAlone
<1>8. MailInv'
  BY <1>1, <1>2, <1>3, <1>5, <1>7, MailJoined DEF OneSleeps
<1>9. OthersStay({})
  BY <1>4, <1>5, OthersStayThere
<1>10. FlagInv' /\ LeaveReady
  BY <1>9, TableSame DEF flagVars, FlagInv, TableTypes
<1> QED
  BY <1>6, <1>8, <1>10

LEMMA LooksAgainStep ==
    ASSUME EventsInv, Considerate, TaskRuns,
           mail' \in [Mailboxes -> Mails \union {Empty}],
           calling' = [calling EXCEPT ![current] = NoCall],
           UNCHANGED <<vars, blockedTask, flagVars>>
    PROVE  EventsInv' /\ LeaveReady
<1> USE DEF EventsInv, Considerate
<1>1. current \in AllTasks /\ resource[current] = NoRes
  BY RunnerAlone
<1>2. SchedInv'
  BY SchedulerStep
<1>3. UNCHANGED <<wait, resource, flags>>
  BY DEF vars, listVars
<1>4. MailInv'
  <2>1. calling' \in [AllTasks -> Calls]
    BY <1>1 DEF MailInv, MailTypes, Calls
  <2>2. \A t \in AllTasks :
           resource[t] \in Mailboxes => calling'[t] = calling[t]
    BY <1>1, KindsApart DEF MailInv, MailTypes
  <2> QED
    BY <1>3, <2>1, <2>2, MailSame
<1>5. \A f \in FlagObjects : Pending(f) \subseteq Listed(wait)
  BY DEF FlagInv, TableInv, Pending
<1>6. OthersStay({})
  BY <1>3, <1>5 DEF OthersStay
<1>7. FlagInv' /\ LeaveReady
  BY <1>6, TableSame DEF flagVars, FlagInv, TableTypes
<1> QED
  BY <1>2, <1>4, <1>7

LEMMA MailTimesOutStep ==
    ASSUME EventsInv, Considerate, MailTimesOut, UNCHANGED flagVars
    PROVE  EventsInv' /\ LeaveReady
<1> USE DEF EventsInv, Considerate
<1> PICK m \in Mailboxes : m = resource[cursor]
  BY DEF MailTimesOut
<1>1. /\ TickWakes /\ UNCHANGED <<mail, calling>>
      /\ blockedTask' = [blockedTask EXCEPT ![m] = NoTask]
  BY DEF MailTimesOut, BlockedTaskTimeout
<1>2. OneWakes(cursor) /\ cursor \in AllTasks
  BY <1>1, TickWakesOne, KindsApart
<1>3. SchedInv'
  BY <1>1, SchedulerStep DEF Next, NonTick, TickVisit
<1>4. MailInv'
  BY <1>1, <1>2, MailLeft DEF OneWakes, MailInv, MailTypes
<1>5. \A f \in FlagObjects : cursor \notin Pending(f)
  BY KindsApart DEF FlagInv, TableInv, Pending
<1>6. OthersStay({})
  BY <1>2, <1>3, <1>5, OthersSleepOn
<1>7. FlagInv' /\ LeaveReady
  BY <1>6, TableSame DEF flagVars, FlagInv, TableTypes
<1> QED
  BY <1>3, <1>4, <1>7

LEMMA PendStep ==
    ASSUME EventsInv, Considerate, NEW f \in FlagObjects, NEW event \in Events,
           NEW p \in Periods, NEW type \in {"any", "exact"},
           PendOnFlags(f, event, p, type), UNCHANGED mailVars
    PROVE  EventsInv' /\ LeaveReady
<1> USE DEF EventsInv, Considerate
<1>1. TaskRuns /\ f \in Resources
  BY KindsApart DEF PendOnFlags
<1>2. current \in Tasks /\ current \in AllTasks /\ resource[current] = NoRes
  BY <1>1, RunnerAlone
<1>3. PICK r \in {f, NoRes} : OneSleeps(r) /\ SchedInv'
  <2>1. CASE p = 0
    <3>1. TaskSuspend(current)
      BY <2>1 DEF PendOnFlags
    <3>2. OneSleeps(NoRes)
      BY <1>1, <3>1, CallerSuspends
    <3>3. SchedInv'
      BY <1>2, <3>1, SchedulerStep DEF Next, NonTick
    <3> QED
      BY <3>2, <3>3
  <2>2. CASE p # 0
    <3>1. SetReasonForSleep(f, p)
      BY <2>2 DEF PendOnFlags
    <3>2. OneSleeps(f)
      BY <1>1, <3>1, CallerSleeps
    <3>3. SchedInv'
      BY <1>1, <2>2, <3>1, SchedulerStep DEF Next, NonTick
    <3> QED
      BY <3>2, <3>3
  <2> QED
    BY <2>1, <2>2
<1>4. \A t \in AllTasks : resource'[t] = IF t = current THEN r ELSE resource[t]
  BY <1>3 DEF OneSleeps, SchedInv, RuleInv, Inv, TypeOK, TypeOfTCBs
<1>5. MailInv'
  BY <1>2, <1>4, KindsApart, MailUntouched
<1>6. FlagInv' /\ LeaveReady
  BY <1>3, TableJoins
<1> QED
  BY <1>3, <1>5, <1>6

LEMMA PostStep ==
    ASSUME EventsInv, Considerate, NEW f \in FlagObjects, NEW mask \in Events,
           NEW b \in BOOLEAN, PostFlags(f, mask, b), UNCHANGED mailVars
    PROVE  EventsInv' /\ LeaveReady
<1> USE DEF EventsInv, Considerate
<1>1. PICK set, table :
         /\ table = Met(f, set)
         /\ events' = [events EXCEPT
                         ![f] = IF b THEN @ \union mask ELSE @ \ mask]
         /\ ServeSlots(f, table, set)
  BY DEF PostFlags
<1>2. events' \in [FlagObjects -> SUBSET (UNION Events)]
  <2>1. events[f] \subseteq UNION Events /\ mask \subseteq UNION Events
    BY DEF FlagInv, TableTypes
  <2> QED
    BY <1>1, <2>1 DEF FlagInv, TableTypes
<1>3. DOMAIN table \subseteq Used(f)
  BY <1>1 DEF Met
<1>4. ASSUME NEW i \in DOMAIN table
      PROVE  /\ table[i].tcb = pending[f][i].tcb
             /\ table[i].type = "any" \/ set \intersect CheckBits = {}
  <2>1. i \in Used(f) /\ Meets(pending[f][i], set) /\ table[i] = pending[f][i]
    BY <1>1 DEF Met
  <2>2. pending[f][i].event \intersect CheckBits = {}
    BY <2>1, EntryFacts DEF FlagInv, Entries
  <2> QED
    BY <2>1, <2>2 DEF Meets
<1>5. /\ SchedInv' /\ FlagInv' /\ LeaveReady
      /\ \A t \in AllTasks : resource'[t] = resource[t]
  BY <1>1, <1>2, <1>3, <1>4, TableServed
<1>6. MailInv'
  BY <1>5, MailUntouched
<1> QED
  BY <1>5, <1>6

LEMMA ResetStep ==
    ASSUME EventsInv, Considerate, NEW f \in FlagObjects, Reset(f),
           UNCHANGED mailVars
    PROVE  EventsInv' /\ LeaveReady
<1> USE DEF EventsInv, Considerate
<1>0. PICK table :
         table = [i \in Used(f) |-> [pending[f][i] EXCEPT !.type = "any"]]
  OBVIOUS
<1>1. /\ events' = [events EXCEPT ![f] = {}]
      /\ ServeSlots(f, table, BitsOf["flags"])
  BY <1>0 DEF Reset
<1>2. events' \in [FlagObjects -> SUBSET (UNION Events)]
  BY <1>1 DEF FlagInv, TableTypes
<1>3. ASSUME NEW i \in DOMAIN table
      PROVE  table[i].tcb = pending[f][i].tcb /\ table[i].type = "any"
  BY <1>0, EntryFacts DEF FlagInv, Entries
<1>4. DOMAIN table \subseteq Used(f)
  BY <1>0
<1>5. /\ SchedInv' /\ FlagInv' /\ LeaveReady
      /\ \A t \in AllTasks : resource'[t] = resource[t]
  BY <1>1, <1>2, <1>3, <1>4, TableServed
<1>6. MailInv'
  BY <1>5, MailUntouched
<1> QED
  BY <1>5, <1>6

LEMMA ClearAllStep ==
    ASSUME EventsInv, Considerate, NEW f \in FlagObjects, ClearAll(f),
           UNCHANGED mailVars
    PROVE  EventsInv' /\ LeaveReady
<1> USE DEF EventsInv, Considerate
<1>1. /\ events' = [events EXCEPT ![f] = {}]
      /\ UNCHANGED vars /\ pending' = pending
  BY DEF ClearAll
<1>2. SchedInv'
  BY <1>1, SchedulerStep
<1>3. UNCHANGED <<wait, resource, flags>>
  BY <1>1 DEF vars, listVars
<1>4. MailInv'
  BY <1>3, MailUntouched
<1>5. \A g \in FlagObjects : Pending(g) \subseteq Listed(wait)
  BY DEF FlagInv, TableInv, Pending
<1>6. OthersStay({})
  BY <1>3, <1>5 DEF OthersStay
<1>7. events' \in [FlagObjects -> SUBSET (UNION Events)]
  BY <1>1 DEF FlagInv, TableTypes
<1>8. FlagInv' /\ LeaveReady
  BY <1>1, <1>6, <1>7, TableSame
<1> QED
  BY <1>2, <1>4, <1>8

LEMMA PendTimesOutStep ==
    ASSUME EventsInv, Considerate, PendTimesOut, UNCHANGED mailVars
    PROVE  EventsInv' /\ LeaveReady
<1> USE DEF EventsInv, Considerate
<1> PICK f \in FlagObjects : f = resource[cursor]
  BY DEF PendTimesOut
<1>1. /\ TickWakes /\ events' = events
      /\ pending' = [pending EXCEPT ![f] =
                       [i \in Slots |->
                          IF i \in Used(f) /\ @[i].tcb = cursor
                            THEN NoEntry ELSE @[i]]]
  BY DEF PendTimesOut, PendTimeout
<1>2. OneWakes(cursor) /\ cursor \in AllTasks
  BY <1>1, TickWakesOne, KindsApart
<1>3. SchedInv'
  BY <1>1, SchedulerStep DEF Next, NonTick, TickVisit
<1>4. \A t \in AllTasks : resource'[t] = IF t = cursor THEN NoRes ELSE resource[t]
  BY <1>2 DEF OneWakes, SchedInv, RuleInv, Inv, TypeOK, TypeOfTCBs
<1>5. MailInv'
  BY <1>4, KindsApart, MailUntouched
<1>6. EntriesLeave({cursor})
  <2>1. \A g \in FlagObjects : \A i \in Used(g) :
           pending[g][i].tcb = cursor => g = f
    BY KindsApart DEF FlagInv, TableInv
  <2>2. ASSUME NEW g \in FlagObjects
        PROVE  pending'[g] = [i \in Slots |->
                                IF i \in Used(g)
                                     /\ pending[g][i].tcb \in {cursor}
                                  THEN NoEntry ELSE pending[g][i]]
    <3>1. pending[g] = [i \in Slots |-> pending[g][i]]
      BY DEF FlagInv, TableTypes
    <3>2. CASE g = f
      BY <1>1, <3>2 DEF FlagInv, TableTypes
    <3>3. CASE g # f
      BY <1>1, <2>1, <3>1, <3>3 DEF FlagInv, TableTypes
    <3> QED
      BY <3>2, <3>3
  <2>3. pending' = [g \in FlagObjects |-> pending'[g]]
    BY <1>1 DEF FlagInv, TableTypes
  <2> QED
    BY <2>2, <2>3 DEF EntriesLeave
<1>7. OthersStay({cursor}) /\ cursor \in Listed(ready')
  BY <1>2, <1>3, OthersSleepOn
<1>8. events' \in [FlagObjects -> SUBSET (UNION Events)]
  BY <1>1 DEF FlagInv, TableTypes
<1>9. FlagInv' /\ LeaveReady
  BY <1>6, <1>7, <1>8, TableLeft
<1> QED
  BY <1>3, <1>5, <1>9

LEMMA MailStepInv ==
    ASSUME EventsInv, Considerate, MailStep, UNCHANGED flagVars
    PROVE  EventsInv' /\ LeaveReady
<1>0. MailTypes
  BY DEF EventsInv, MailInv
<1>1. ASSUME NEW m \in Mailboxes, GetTakes(m) \/ ClearMailbox(m)
      PROVE  EventsInv' /\ LeaveReady
  <2>1. mail' \in [Mailboxes -> Mails \union {Empty}]
    BY <1>0, <1>1 DEF GetTakes, ClearMailbox, MailTypes
  <2> QED
    BY <1>1, <2>1, UnblockStep DEF GetTakes, ClearMailbox
<1>2. ASSUME NEW m \in Mailboxes, NEW d \in Mails, SendStores(m, d)
      PROVE  EventsInv' /\ LeaveReady
  <2>1. mail' \in [Mailboxes -> Mails \union {Empty}]
    BY <1>0, <1>2 DEF SendStores, MailTypes
  <2> QED
    BY <1>2, <2>1, UnblockStep DEF SendStores
<1>3. ASSUME NEW m \in Mailboxes, NEW p \in Periods \ {0}, GetBlocks(m, p)
      PROVE  EventsInv' /\ LeaveReady
  <2> DEFINE c == [op |-> "get", mbox |-> m]
  <2>1. c \in Gets \union Sends /\ c.mbox = m
    BY DEF Gets
  <2>2. BlockHandler(m, p, c) /\ mail' = mail
    BY <1>3 DEF GetBlocks
  <2> HIDE DEF c
  <2> QED
    BY <2>1, <2>2, BlockStep
<1>4. ASSUME NEW m \in Mailboxes, NEW p \in Periods \ {0}, NEW d \in Mails,
             SendBlocks(m, p, d)
      PROVE  EventsInv' /\ LeaveReady
  <2> DEFINE c == [op |-> "send", mbox |-> m, data |-> d]
  <2>1. c \in Gets \union Sends /\ c.mbox = m
    BY DEF Sends
  <2>2. BlockHandler(m, p, c) /\ mail' = mail
    BY <1>4 DEF SendBlocks
  <2> HIDE DEF c
  <2> QED
    BY <2>1, <2>2, BlockStep
<1>5. CASE GetLooksAgain
  <2>1. mail' \in [Mailboxes -> Mails \union {Empty}]
    BY <1>0, <1>5 DEF GetLooksAgain, MailTypes
  <2> QED
    BY <1>5, <2>1, LooksAgainStep DEF GetLooksAgain
<1>6. CASE SendLooksAgain
  <2>1. TaskRuns /\ calling[current].op = "send"
    BY <1>6 DEF SendLooksAgain
  <2>2. calling[current] \in Calls
    BY <1>0, <2>1, RunnerAlone DEF EventsInv, MailTypes
  <2>3. calling[current].data \in Mails
    BY <2>1, <2>2, CallShapes
  <2>4. mail' \in [Mailboxes -> Mails \union {Empty}]
    BY <1>0, <1>6, <2>3 DEF SendLooksAgain, MailTypes
  <2> QED
    BY <1>6, <2>4, LooksAgainStep DEF SendLooksAgain
<1>7. CASE MailTimesOut
  BY <1>7, MailTimesOutStep
<1> QED
  BY <1>1, <1>2, <1>3, <1>4, <1>5, <1>6, <1>7 DEF MailStep

LEMMA EventsNextInv ==
    ASSUME EventsInv, Considerate, [EventsNext]_allVars
    PROVE  EventsInv' /\ LeaveReady
<1>1. CASE MailStep /\ UNCHANGED flagVars
  BY <1>1, MailStepInv
<1>2. CASE FlagPend /\ UNCHANGED mailVars
  BY <1>2, PendStep DEF FlagPend
<1>3. CASE FlagStep /\ UNCHANGED mailVars
  BY <1>3, PostStep, ResetStep, ClearAllStep, PendTimesOutStep DEF FlagStep
<1>4. CASE ApplicationStep /\ UNCHANGED <<mailVars, flagVars>>
  <2>1. SchedInv'
    BY <1>4, SchedulerStep
       DEF ApplicationStep, Next, NonTick, EventsInv, Considerate
  <2>2. Quiet /\ Listed(wait) \subseteq Listed(wait')
    BY <1>4, ApplicationIsQuiet DEF EventsInv, Considerate
  <2>3. \A f \in FlagObjects : Pending(f) \subseteq Listed(wait')
    BY <2>2 DEF EventsInv, FlagInv, TableInv, Pending
  <2> QED
    BY <1>4, <2>1, <2>2, <2>3, QuietStep
<1>5. CASE KernelStep /\ SparesPending /\ UNCHANGED <<mailVars, flagVars>>
  <2>1. SchedInv'
    BY <1>5, SchedulerStep
       DEF KernelStep, Next, NonTick, TickVisit, EventsInv, Considerate
  <2>2. Quiet
    BY <1>5, KernelIsQuiet DEF EventsInv
  <2>3. \A f \in FlagObjects : Pending(f) \subseteq Listed(wait')
    BY <1>5 DEF SparesPending, Considerate
  <2> QED
    BY <1>5, <2>1, <2>2, <2>3, QuietStep
<1>6. CASE UNCHANGED allVars
  BY <1>6, StutterStep DEF allVars
<1> QED
  BY <1>1, <1>2, <1>3, <1>4, <1>5, <1>6 DEF EventsNext

LEMMA EventsInitInv ==
    ASSUME EventsInit
    PROVE  EventsInv
<1>1. /\ mail = [m \in Mailboxes |-> Empty]
      /\ blockedTask = [m \in Mailboxes |-> NoTask]
      /\ calling = [t \in AllTasks |-> NoCall]
      /\ events \in [FlagObjects -> Events \union {{}}]
      /\ pending = [f \in FlagObjects |-> [i \in Slots |-> NoEntry]]
  BY DEF EventsInit, MailInit, FlagInit
<1>2. Init
  BY DEF EventsInit
<1>3. \A t \in AllTasks : resource[t] = NoRes /\ flags[t] = {}
  BY <1>2 DEF Init
<1>4. SchedInv
  <2>1. RuleInv
    BY <1>2, InitRules
  <2>2. HeldInv
    BY <1>3 DEF HeldInv, HeldBits
  <2> QED
    BY <2>1, <2>2 DEF SchedInv
<1>5. MailInv
  BY <1>1, <1>3, KindsApart, NoTaskIsNone
     DEF MailInv, MailTypes, RegisteredInv, CallsMatch, Calls
<1>6. FlagInv
  <2>1. \A f \in FlagObjects : Used(f) = {}
    BY <1>1 DEF Used
  <2>2. TableTypes
    BY <1>1 DEF TableTypes
  <2> QED
    BY <1>3, <2>1, <2>2, KindsApart DEF FlagInv, TableInv
<1> QED
  BY <1>4, <1>5, <1>6 DEF EventsInv

LEMMA EventsSpecInv ==
    ASSUME Considerate
    PROVE  EventsSpec => []EventsInv
BY EventsInitInv, EventsNextInv, PTL DEF EventsSpec

-----------------------------------------------------------------------------
(***************************************************************************)
(* The theorems.                                                           *)
(***************************************************************************)

(* A mailbox has registered the task whose control block names it, and no  *)
(* other; an entry in the table of a flags object is a task that waits for *)
(* it, and each task that the object holds has an entry.                   *)
THEOREM EventsWaitersRegistered ==
    ASSUME Considerate
    PROVE  EventsSpec => []WaitersRegistered
<1>1. EventsInv => RegisteredMatchesTCB
  <2> SUFFICES ASSUME EventsInv, NEW m \in Mailboxes
               PROVE  /\ { t \in created : resource[t] = m } =
                            {blockedTask[m]} \ {NoTask}
                      /\ blockedTask[m] # NoTask =>
                            /\ blockedTask[m] \in Listed(wait)
                            /\ blockedTask[m] \in
                                  Inside("get", m) \union Inside("send", m)
    BY DEF RegisteredMatchesTCB
  <2> USE DEF EventsInv, MailInv
  <2>1. blockedTask[m] \in Tasks \union {NoTask}
    BY DEF MailTypes
  <2>2. ASSUME NEW t \in AllTasks, resource[t] = m
        PROVE  t \in Listed(wait) /\ t \in created
    <3>1. SLEEP \in flags[t]
      BY <2>2, KindsApart DEF SchedInv, HeldInv
    <3>2. t \in created /\ t \in Listed(wait)
      BY <3>1 DEF SchedInv, RuleInv, ListRules, FlagsInv, FlagsTellList,
                  CheckBits
    <3> QED
      BY <3>2
  <2>3. created \subseteq AllTasks
    BY ListsKnown DEF SchedInv, RuleInv, ListRules
  <2>4. { t \in created : resource[t] = m } = {blockedTask[m]} \ {NoTask}
    BY <2>1, <2>2, <2>3, NoTaskIsNone DEF RegisteredInv, AllTasks
  <2>5. ASSUME blockedTask[m] # NoTask
        PROVE  /\ blockedTask[m] \in Listed(wait)
               /\ blockedTask[m] \in Inside("get", m) \union Inside("send", m)
    <3> PICK t \in Tasks : t = blockedTask[m]
      BY <2>1, <2>5
    <3>1. t \in AllTasks /\ resource[t] = m
      BY DEF RegisteredInv, AllTasks
    <3>2. calling[t] \in Gets \union Sends /\ calling[t].mbox = m
      BY <3>1 DEF CallsMatch
    <3>3. calling[t].op \in {"get", "send"}
      BY <3>2 DEF Gets, Sends
    <3> QED
      BY <2>2, <3>1, <3>2, <3>3 DEF Inside
  <2> QED
    BY <2>4, <2>5
<1>2. EventsInv => PendingMatchesTCB
  <2> SUFFICES ASSUME EventsInv, NEW f \in FlagObjects
               PROVE  /\ \A i, j \in Used(f) :
                            i # j => pending[f][i].tcb # pending[f][j].tcb
                      /\ Pending(f) \subseteq Listed(wait)
                      /\ \A t \in Pending(f) :
                            \/ resource[t] = f
                            \/ resource[t] = NoRes /\ SUSPENDED \in flags[t]
                      /\ { t \in created : resource[t] = f } \subseteq Pending(f)
    BY DEF PendingMatchesTCB
  <2>1. created \subseteq AllTasks
    BY ListsKnown DEF EventsInv, SchedInv, RuleInv, ListRules
  <2> QED
    BY <2>1 DEF EventsInv, FlagInv, TableInv, Pending
<1>3. EventsInv => WaitersRegistered
  BY <1>1, <1>2 DEF WaitersRegistered
<1> QED
  BY EventsSpecInv, <1>3, PTL

(* A task is taken off the table of a flags object only as it becomes      *)
(* ready, whether an event, a reset or its time-out takes it off.          *)
THEOREM EventsLeavesAwake ==
    ASSUME Considerate
    PROVE  EventsSpec => LeavesAwake
<1>1. EventsInv /\ [EventsNext]_allVars =>
         [\A f \in FlagObjects : \A t \in Pending(f) :
            t \in Pending(f)' \/ t \in Listed(ready')]_<<vars, flagVars>>
  BY EventsNextInv DEF LeaveReady
<1> QED
  BY EventsSpecInv, <1>1, PTL DEF EventsSpec, LeavesAwake

-----------------------------------------------------------------------------
(***************************************************************************)
(* A mailbox is a queue for one message.                                   *)
(***************************************************************************)

Held(m) == IF mail[m] = Empty THEN << >> ELSE <<mail[m]>>

Kept == [m \in Mailboxes |-> Held(m)]

LEMMA KeptChanges ==
    ASSUME MailTypes, NEW m \in Mailboxes, NEW v,
           mail' = [mail EXCEPT ![m] = v]
    PROVE  Kept' = [Kept EXCEPT ![m] = IF v = Empty THEN << >> ELSE <<v>>]
<1>1. mail'[m] = v /\ \A n \in Mailboxes \ {m} : mail'[n] = mail[n]
  BY DEF MailTypes
<1>2. Held(m)' = IF v = Empty THEN << >> ELSE <<v>>
  BY <1>1 DEF Held
<1>3. \A n \in Mailboxes \ {m} : Held(n)' = Held(n)
  BY <1>1 DEF Held
<1> QED
  BY <1>2, <1>3 DEF Kept

LEMMA MailTaken ==
    ASSUME MailTypes, NEW m \in Mailboxes, mail' = [mail EXCEPT ![m] = Empty]
    PROVE  Box!Flush(m)
<1>1. Kept' = [Kept EXCEPT ![m] = << >>]
  BY KeptChanges
<1> QED
  BY <1>1 DEF Box!Flush, Kept, Held

LEMMA MailGot ==
    ASSUME MailTypes, NEW m \in Mailboxes, mail[m] # Empty,
           mail' = [mail EXCEPT ![m] = Empty]
    PROVE  Box!Get(m)
<1>1. Kept[m] = <<mail[m]>> /\ Tail(Kept[m]) = << >>
  BY DEF Kept, Held
<1>2. Kept' = [Kept EXCEPT ![m] = Tail(Kept[m])]
  BY <1>1, KeptChanges
<1> QED
  BY <1>1, <1>2 DEF Box!Get, Kept, Held

LEMMA MailStored ==
    ASSUME MailTypes, NEW m \in Mailboxes, NEW d \in Mails, mail[m] = Empty,
           mail' = [mail EXCEPT ![m] = d]
    PROVE  Box!Put(m, d)
<1>1. Kept[m] = << >> /\ Append(Kept[m], d) = <<d>> /\ Len(Kept[m]) < 1
  <2>1. Kept[m] = << >>
    BY DEF Kept, Held
  <2>2. Append(<< >>, d) = <<d>> /\ Len(<< >>) < 1
    OBVIOUS
  <2> QED
    BY <2>1, <2>2
<1>2. Kept' = [Kept EXCEPT ![m] = Append(Kept[m], d)]
  <2>1. d # Empty
    BY MailAssumption
  <2> QED
    BY <1>1, <2>1, KeptChanges
<1> QED
  BY <1>1, <1>2 DEF Box!Put, Kept, Held

LEMMA MailIsQueue ==
    ASSUME EventsInv, [EventsNext]_allVars
    PROVE  [Box!Next]_Kept
<1>0. MailTypes
  BY DEF EventsInv, MailInv
<1>1. ASSUME NEW m \in Mailboxes, GetTakes(m)
      PROVE  Box!Next
  BY <1>0, <1>1, MailGot DEF GetTakes, Box!Next
<1>2. ASSUME NEW m \in Mailboxes, NEW d \in Mails, SendStores(m, d)
      PROVE  Box!Next
  BY <1>0, <1>2, MailStored DEF SendStores, Box!Next
<1>3. ASSUME NEW m \in Mailboxes, ClearMailbox(m)
      PROVE  Box!Next
  BY <1>0, <1>3, MailTaken DEF ClearMailbox, Box!Next
<1>4. ASSUME mail' = mail PROVE Kept' = Kept
  BY <1>4 DEF Kept, Held
<1>5. ASSUME TaskRuns, calling[current].op \in {"get", "send"}
      PROVE  /\ calling[current].mbox \in Mailboxes
             /\ calling[current].op = "send" => calling[current].data \in Mails
  <2>1. calling[current] \in Calls
    BY <1>0, <1>5, RunnerAlone DEF EventsInv, MailTypes
  <2> QED
    BY <1>5, <2>1, CallShapes
<1>6. CASE GetLooksAgain
  <2>1. PICK m \in Mailboxes : m = calling[current].mbox
    BY <1>5, <1>6 DEF GetLooksAgain
  <2>2. mail' = [mail EXCEPT ![m] = Empty]
    BY <1>6, <2>1 DEF GetLooksAgain
  <2>3. CASE mail[m] = Empty
    BY <1>0, <1>4, <2>2, <2>3 DEF MailTypes
  <2>4. CASE mail[m] # Empty
    BY <1>0, <2>2, <2>4, MailGot DEF Box!Next
  <2> QED
    BY <2>3, <2>4
<1>7. CASE SendLooksAgain
  <2>1. PICK m \in Mailboxes : m = calling[current].mbox
    BY <1>5, <1>7 DEF SendLooksAgain
  <2>2. PICK d \in Mails : d = calling[current].data
    BY <1>5, <1>7 DEF SendLooksAgain
  <2>3. mail' = [mail EXCEPT ![m] = IF @ = Empty THEN d ELSE @]
    BY <1>7, <2>1, <2>2 DEF SendLooksAgain
  <2>4. CASE mail[m] = Empty
    <3>1. mail' = [mail EXCEPT ![m] = d]
      BY <2>3, <2>4
    <3> QED
      BY <1>0, <2>4, <3>1, MailStored DEF Box!Next
  <2>5. CASE mail[m] # Empty
    BY <1>0, <1>4, <2>3, <2>5 DEF MailTypes
  <2> QED
    BY <2>4, <2>5
<1>8. CASE \/ \E m \in Mailboxes, p \in Periods \ {0} :
                \/ GetBlocks(m, p)
                \/ \E d \in Mails : SendBlocks(m, p, d)
           \/ MailTimesOut
           \/ UNCHANGED mailVars
  BY <1>4, <1>8 DEF GetBlocks, SendBlocks, MailTimesOut, mailVars
<1> QED
  BY <1>1, <1>2, <1>3, <1>6, <1>7, <1>8 DEF EventsNext, MailStep, allVars

(* Mail that a mailbox accepted is delivered once, or cleared, and never   *)
(* replaced: whatever comes between the two halves of a get or of a send.  *)
THEOREM EventsMailKept ==
    ASSUME Considerate
    PROVE  EventsSpec => MailKept
<1>1. EventsInit => Box!Init
  BY DEF EventsInit, MailInit, Box!Init
<1>2. EventsInv /\ [EventsNext]_allVars => [Box!Next]_Kept
  BY MailIsQueue
<1>3. EventsInv /\ [EventsNext]_allVars =>
         [Box!Next]_([m \in Mailboxes |->
                        IF mail[m] = Empty THEN << >> ELSE <<mail[m]>>])
  BY <1>2 DEF Kept, Held
<1> QED
  BY EventsSpecInv, <1>1, <1>3, PTL DEF EventsSpec, MailKept, Box!Spec

=============================================================================
