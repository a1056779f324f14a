-------------------------- MODULE SchedulerProofs ---------------------------
(***************************************************************************)
(* Lemmas about the list operators of TaskList, and theorems about         *)
(* Scheduler: first for any tasks, resources, periods and bounds and       *)
(* whatever usage rules the environment breaks, then for an environment    *)
(* that keeps them.                                                        *)
(***************************************************************************)
EXTENDS Scheduler, WellFoundedInduction, TLAPS

(***************************************************************************)
(* What the list operators of TaskList do to the tasks, the order and the  *)
(* last element of a list, for lists of any length.                        *)
(***************************************************************************)

(* InsertAt by index: elements from i on move up by one.                   *)
LEMMA InsertAtIndex ==
    ASSUME NEW S, NEW s \in Seq(S), NEW x \in S, NEW i \in 1 .. Len(s) + 1
    PROVE  /\ InsertAt(s, i, x) \in Seq(S)
           /\ Len(InsertAt(s, i, x)) = Len(s) + 1
           /\ InsertAt(s, i, x)[i] = x
           /\ \A j \in 1 .. i - 1 : InsertAt(s, i, x)[j] = s[j]
           /\ \A j \in i .. Len(s) : InsertAt(s, i, x)[j + 1] = s[j]
<1> DEFINE a == SubSeq(s, 1, i - 1)
           b == a \o <<x>>
           c == SubSeq(s, i, Len(s))
           r == b \o c
<1>1. a \in Seq(S) /\ Len(a) = i - 1
  OBVIOUS
<1>2. \A j \in 1 .. i - 1 : a[j] = s[j]
  OBVIOUS
<1>3. c \in Seq(S) /\ Len(c) = Len(s) - i + 1
  OBVIOUS
<1>4. \A j \in i .. Len(s) : c[j - i + 1] = s[j]
  OBVIOUS
<1> HIDE DEF a, c
<1>5. b \in Seq(S) /\ Len(b) = i
  BY <1>1
<1>6. b[i] = x
  BY <1>1
<1>7. \A j \in 1 .. i - 1 : b[j] = s[j]
  BY <1>1, <1>2
<1> HIDE DEF b
<1>8. r \in Seq(S) /\ Len(r) = Len(s) + 1
  BY <1>3, <1>5
<1>9. \A j \in 1 .. i : r[j] = b[j]
  BY <1>3, <1>5
<1>10. ASSUME NEW j \in i .. Len(s)
       PROVE  r[j + 1] = s[j]
  <2>1. /\ j + 1 \in Len(b) + 1 .. Len(b) + Len(c)
        /\ j + 1 - Len(b) = j - i + 1
    BY <1>3, <1>5
  <2>2. r[j + 1] = c[j + 1 - Len(b)]
    BY <2>1, <1>3, <1>5
  <2> QED
    BY <2>1, <2>2, <1>4
<1>11. InsertAt(s, i, x) = r
  BY DEF InsertAt, a, b, c
<1> HIDE DEF r
<1> QED
  BY <1>6, <1>7, <1>8, <1>9, <1>10, <1>11

(* r is s with x inserted at i.                                            *)
Inserted(S, s, i, x, r) ==
    /\ r \in Seq(S)
    /\ Len(r) = Len(s) + 1
    /\ r[i] = x
    /\ \A j \in 1 .. i - 1 : r[j] = s[j]
    /\ \A j \in i .. Len(s) : r[j + 1] = s[j]

LEMMA InsertedAt ==
    ASSUME NEW S, NEW s \in Seq(S), NEW x \in S, NEW i \in 1 .. Len(s) + 1
    PROVE  Inserted(S, s, i, x, InsertAt(s, i, x))
BY InsertAtIndex DEF Inserted

(* RemoveAt by index: elements behind i move down by one.                  *)
LEMMA RemoveAtIndex ==
    ASSUME NEW S, NEW s \in Seq(S), NEW i \in 1 .. Len(s)
    PROVE  /\ RemoveAt(s, i) \in Seq(S)
           /\ Len(RemoveAt(s, i)) = Len(s) - 1
           /\ \A j \in 1 .. i - 1 : RemoveAt(s, i)[j] = s[j]
           /\ \A j \in i .. Len(s) - 1 : RemoveAt(s, i)[j] = s[j + 1]
<1> DEFINE a == SubSeq(s, 1, i - 1)
           c == SubSeq(s, i + 1, Len(s))
           r == a \o c
<1>1. a \in Seq(S) /\ Len(a) = i - 1
  OBVIOUS
<1>2. \A j \in 1 .. i - 1 : a[j] = s[j]
  OBVIOUS
<1>3. c \in Seq(S) /\ Len(c) = Len(s) - i
  OBVIOUS
<1>4. \A j \in i .. Len(s) - 1 : c[j - i + 1] = s[j + 1]
  OBVIOUS
<1> HIDE DEF a, c
<1>5. r \in Seq(S) /\ Len(r) = Len(s) - 1
  BY <1>1, <1>3
<1>6. \A j \in 1 .. i - 1 : r[j] = a[j]
  BY <1>1, <1>3
<1>7. ASSUME NEW j \in i .. Len(s) - 1
      PROVE  r[j] = s[j + 1]
  <2>1. r[j] = c[j - i + 1]
    BY <1>1, <1>3
  <2> QED
    BY <2>1, <1>4
<1>8. RemoveAt(s, i) = r
  BY DEF RemoveAt, a, c
<1> HIDE DEF r
<1> QED
  BY <1>2, <1>5, <1>6, <1>7, <1>8

(* Listed is what the indices reach.                                       *)
LEMMA ListedFacts ==
    ASSUME NEW S, NEW s \in Seq(S)
    PROVE  /\ Listed(s) \subseteq S
           /\ \A i \in 1 .. Len(s) : s[i] \in Listed(s)
           /\ \A x \in Listed(s) : \E i \in 1 .. Len(s) : s[i] = x
BY DEF Listed

(* A task on a list of distinct tasks has a position, and only one.        *)
LEMMA PositionFacts ==
    ASSUME NEW S, NEW s \in Seq(S), NEW t \in Listed(s)
    PROVE  Position(s, t) \in 1 .. Len(s) /\ s[Position(s, t)] = t
BY DEF Listed, Position

(* vd_list_removeNode takes exactly t off the list and keeps the order of  *)
(* the others; the last task stays the last unless it is t.                *)
LEMMA UnlinkFacts ==
    ASSUME NEW S, NEW s \in Seq(S), NEW t \in Listed(s), IsInjective(s)
    PROVE  /\ Unlink(s, t) \in Seq(S)
           /\ Listed(Unlink(s, t)) = Listed(s) \ {t}
           /\ IsInjective(Unlink(s, t))
           /\ \A i, j \in DOMAIN Unlink(s, t) : i < j =>
                 \E k, m \in DOMAIN s :
                    k < m /\ Unlink(s, t)[i] = s[k] /\ Unlink(s, t)[j] = s[m]
           /\ Last(s) # t =>
                 Unlink(s, t) # << >> /\ Last(Unlink(s, t)) = Last(s)
<1> DEFINE p == Position(s, t)
           r == Unlink(s, t)
<1>1. p \in 1 .. Len(s) /\ s[p] = t
  BY PositionFacts
<1> HIDE DEF p
<1>2. /\ r \in Seq(S)
      /\ Len(r) = Len(s) - 1
      /\ \A j \in 1 .. p - 1 : r[j] = s[j]
      /\ \A j \in p .. Len(s) - 1 : r[j] = s[j + 1]
  BY <1>1, RemoveAtIndex DEF Unlink, p
<1> HIDE DEF r
<1> DEFINE up(j) == IF j < p THEN j ELSE j + 1
<1>3. \A j \in 1 .. Len(r) : /\ up(j) \in 1 .. Len(s)
                             /\ up(j) # p
                             /\ r[j] = s[up(j)]
  BY <1>1, <1>2
<1>4. \A i, j \in 1 .. Len(r) : i < j => up(i) < up(j)
  BY <1>1, <1>2
<1>5. \A k \in 1 .. Len(s) : k # p => \E j \in 1 .. Len(r) : up(j) = k
  <2> TAKE k \in 1 .. Len(s)
  <2> HAVE k # p
  <2>1. CASE k < p
    <3>1. k \in 1 .. Len(r) /\ up(k) = k
      BY <2>1, <1>1, <1>2
    <3> QED
      BY <3>1
  <2>2. CASE k > p
    <3>1. k - 1 \in 1 .. Len(r) /\ up(k - 1) = k
      BY <2>2, <1>1, <1>2
    <3> QED
      BY <3>1
  <2> QED
    BY <2>1, <2>2, <1>1
<1> HIDE DEF up
<1>6. \A j, k \in 1 .. Len(s) : s[j] = s[k] => j = k
  BY DEF IsInjective
<1>7. Listed(r) = Listed(s) \ {t}
  <2>1. \A j \in 1 .. Len(r) : s[up(j)] # t
    BY <1>1, <1>3, <1>6
  <2>2. Listed(r) \subseteq Listed(s) \ {t}
    BY <1>2, <1>3, <2>1 DEF Listed
  <2>3. ASSUME NEW k \in 1 .. Len(s), s[k] # t
        PROVE  s[k] \in Listed(r)
    <3>1. PICK j \in 1 .. Len(r) : up(j) = k
      BY <2>3, <1>1, <1>5
    <3> QED
      BY <3>1, <1>2, <1>3 DEF Listed
  <2> QED
    BY <2>2, <2>3 DEF Listed
<1>8. IsInjective(r)
  <2>1. ASSUME NEW i \in 1 .. Len(r), NEW j \in 1 .. Len(r), r[i] = r[j]
        PROVE  i = j
    <3>1. up(i) = up(j)
      BY <2>1, <1>3, <1>6
    <3>2. up(i) \in Int /\ ~(i < j) /\ ~(j < i)
      BY <3>1, <1>3, <1>4
    <3> QED
      BY <3>2
  <2> QED
    BY <2>1, <1>2 DEF IsInjective
<1>9. \A i, j \in DOMAIN r : i < j =>
         \E k, m \in DOMAIN s : k < m /\ r[i] = s[k] /\ r[j] = s[m]
  <2>1. ASSUME NEW i \in 1 .. Len(r), NEW j \in 1 .. Len(r), i < j
        PROVE  /\ up(i) \in 1 .. Len(s) /\ up(j) \in 1 .. Len(s)
               /\ up(i) < up(j)
               /\ r[i] = s[up(i)] /\ r[j] = s[up(j)]
    BY <2>1, <1>2, <1>3, <1>4
  <2>2. DOMAIN r = 1 .. Len(r) /\ DOMAIN s = 1 .. Len(s)
    BY <1>2
  <2> QED
    BY <2>1, <2>2
<1>10. ASSUME Last(s) # t
       PROVE  r # << >> /\ Last(r) = Last(s)
  <2>1. p < Len(s)
    BY <1>1, <1>10 DEF Last
  <2> QED
    BY <2>1, <1>1, <1>2 DEF Last
<1> QED
  BY <1>2, <1>7, <1>8, <1>9, <1>10 DEF r

(* A non-empty set of naturals has a least element.                        *)
LEMMA LeastNatural ==
    ASSUME NEW T \in SUBSET Nat, T # {}
    PROVE  \E i \in T : \A j \in T : i <= j
<1>1. PICK i \in T : \A j \in T : ~(<<j, i>> \in OpToRel(<, Nat))
  BY NatLessThanWellFounded, WFMin
<1>2. ASSUME NEW j \in T
      PROVE  ~(j < i)
  <2>1. j < i => <<j, i>> \in OpToRel(<, Nat)
    BY Zenon DEF OpToRel
  <2> QED
    BY <1>1, <2>1
<1> QED
  BY <1>2

(* The point of insertion: at most as urgent tasks lie before it, strictly *)
(* less urgent ones (or as urgent ones, at the head) start there.          *)
LEMMA InsertPointFacts ==
    ASSUME NEW S, NEW s \in Seq(S), NEW t \in S, NEW prio \in [S -> Nat],
           CanInsert(s, t, prio), s # << >>
    PROVE  /\ InsertPoint(s, t, prio) \in 1 .. Len(s)
           /\ prio[t] <= prio[s[InsertPoint(s, t, prio)]]
           /\ \A j \in 1 .. InsertPoint(s, t, prio) - 1 : prio[s[j]] <= prio[t]
<1>1. CASE HeadInsert(s, t, prio)
  BY <1>1 DEF HeadInsert, InsertPoint
<1>2. CASE ~HeadInsert(s, t, prio)
  <2> DEFINE T == LessUrgent(s, t, prio)
  <2>1. T \in SUBSET Nat /\ T # {}
    BY <1>2 DEF CanInsert, LessUrgent
  <2>2. \E i \in T : \A j \in T : i <= j
    BY <2>1, LeastNatural
  <2>3. /\ InsertPoint(s, t, prio) \in T
        /\ \A j \in T : InsertPoint(s, t, prio) <= j
    BY <2>2, <1>2 DEF InsertPoint
  <2> DEFINE p == InsertPoint(s, t, prio)
  <2>4. p \in 1 .. Len(s) /\ prio[t] < prio[s[p]]
    BY <2>3 DEF LessUrgent
  <2>5. ASSUME NEW j \in 1 .. p - 1
        PROVE  prio[s[j]] <= prio[t]
    <3>1. j \in 1 .. Len(s) /\ ~(p <= j)
      BY <2>4
    <3>2. j \notin T
      BY <2>3, <3>1
    <3>3. ~(prio[t] < prio[s[j]])
      BY <3>1, <3>2 DEF LessUrgent
    <3>4. prio[t] \in Nat /\ prio[s[j]] \in Nat
      BY <3>1
    <3> QED
      BY <3>3, <3>4
  <2>6. prio[t] \in Nat /\ prio[s[p]] \in Nat
    BY <2>4
  <2> HIDE DEF p
  <2>7. prio[t] <= prio[s[p]]
    BY <2>4, <2>6
  <2> QED
    BY <2>4, <2>5, <2>7 DEF p
<1> QED
  BY <1>1, <1>2

(* Insertion before an element, at p, adds t and nothing else, and leaves  *)
(* the last element the last.                                              *)
LEMMA InsertBeforeFacts ==
    ASSUME NEW S, NEW s \in Seq(S), NEW t \in S, NEW p \in 1 .. Len(s)
    PROVE  /\ InsertAt(s, p, t) \in Seq(S)
           /\ Listed(InsertAt(s, p, t)) = Listed(s) \union {t}
           /\ IsInjective(s) /\ t \notin Listed(s) =>
                 IsInjective(InsertAt(s, p, t))
           /\ InsertAt(s, p, t) # << >>
           /\ Last(InsertAt(s, p, t)) = Last(s)
<1> DEFINE r == InsertAt(s, p, t)
<1>1. Inserted(S, s, p, t, r)
  <2>1. p \in 1 .. Len(s) + 1
    OBVIOUS
  <2> QED
    BY <2>1, InsertedAt
<1> HIDE DEF r
<1>2. /\ r \in Seq(S)
      /\ Len(r) = Len(s) + 1
      /\ r[p] = t
      /\ \A j \in 1 .. p - 1 : r[j] = s[j]
      /\ \A j \in p .. Len(s) : r[j + 1] = s[j]
  BY <1>1 DEF Inserted
<1> HIDE DEF r
<1> DEFINE down(j) == IF j < p THEN j ELSE j - 1
<1>3. \A j \in 1 .. Len(r) : j # p =>
         down(j) \in 1 .. Len(s) /\ r[j] = s[down(j)]
  <2> TAKE j \in 1 .. Len(r)
  <2> HAVE j # p
  <2>1. CASE j < p
    BY <2>1, <1>2
  <2>2. CASE j > p
    <3>1. j - 1 \in p .. Len(s) /\ (j - 1) + 1 = j
      BY <2>2, <1>2
    <3>2. r[(j - 1) + 1] = s[j - 1]
      BY <3>1, <1>2
    <3> QED
      BY <2>2, <3>1, <3>2
  <2> QED
    BY <2>1, <2>2
<1>4. \A i, j \in 1 .. Len(r) : i # p /\ j # p /\ down(i) = down(j) => i = j
  OBVIOUS
<1>5. \A k \in 1 .. Len(s) : \E j \in 1 .. Len(r) : r[j] = s[k]
  <2> TAKE k \in 1 .. Len(s)
  <2>1. CASE k < p
    BY <2>1, <1>2
  <2>2. CASE k >= p
    <3>1. k + 1 \in 1 .. Len(r) /\ r[k + 1] = s[k]
      BY <2>2, <1>2
    <3> QED
      BY <3>1
  <2> QED
    BY <2>1, <2>2
<1> HIDE DEF down
<1>6. Listed(r) = Listed(s) \union {t}
  <2>1. ASSUME NEW j \in 1 .. Len(r)
        PROVE  r[j] \in Listed(s) \union {t}
    <3>1. CASE j = p
      BY <3>1, <1>2
    <3>2. CASE j # p
      <4>1. down(j) \in 1 .. Len(s) /\ r[j] = s[down(j)]
        BY <3>2, <1>3
      <4> QED
        BY <4>1, ListedFacts
    <3> QED
      BY <3>1, <3>2
  <2>2. Listed(r) \subseteq Listed(s) \union {t}
    BY <2>1, <1>2, ListedFacts
  <2>3. t \in Listed(r)
    BY <1>2, ListedFacts
  <2>4. ASSUME NEW x \in Listed(s)
        PROVE  x \in Listed(r)
    <3>1. PICK k \in 1 .. Len(s) : s[k] = x
      BY ListedFacts
    <3>2. PICK j \in 1 .. Len(r) : r[j] = s[k]
      BY <1>5
    <3> QED
      BY <3>1, <3>2, <1>2, ListedFacts
  <2> QED
    BY <2>2, <2>3, <2>4
<1>7. ASSUME IsInjective(s), t \notin Listed(s)
      PROVE  IsInjective(r)
  <2>1. ASSUME NEW i \in 1 .. Len(r), NEW j \in 1 .. Len(r), r[i] = r[j]
        PROVE  i = j
    <3>1. \A k \in 1 .. Len(r) : k # p => r[k] # t
      BY <1>3, <1>7 DEF Listed
    <3>2. CASE i = p \/ j = p
      BY <2>1, <3>1, <3>2, <1>2
    <3>3. CASE i # p /\ j # p
      <4>1. down(i) = down(j)
        BY <2>1, <3>3, <1>3, <1>7 DEF IsInjective
      <4> QED
        BY <4>1, <3>3, <1>4
    <3> QED
      BY <3>2, <3>3
  <2> QED
    BY <2>1, <1>2 DEF IsInjective
<1>8. r # << >> /\ Last(r) = Last(s)
  <2>1. r[Len(s) + 1] = s[Len(s)]
    BY <1>2
  <2> QED
    BY <2>1, <1>2 DEF Last
<1> QED
  BY <1>2, <1>6, <1>7, <1>8 DEF r

(* vd_list_addTaskByPrio adds t and nothing else, and never behind the     *)
(* last task.                                                              *)
LEMMA InsertByPrioFacts ==
    ASSUME NEW S, NEW s \in Seq(S), NEW t \in S, NEW prio \in [S -> Nat],
           CanInsert(s, t, prio), s # << >>
    PROVE  /\ InsertByPrio(s, t, prio) \in Seq(S)
           /\ Listed(InsertByPrio(s, t, prio)) = Listed(s) \union {t}
           /\ IsInjective(s) /\ t \notin Listed(s) =>
                 IsInjective(InsertByPrio(s, t, prio))
           /\ InsertByPrio(s, t, prio) # << >>
           /\ Last(InsertByPrio(s, t, prio)) = Last(s)
<1>1. InsertPoint(s, t, prio) \in 1 .. Len(s)
  BY InsertPointFacts
<1> QED
  BY <1>1, InsertBeforeFacts, ZenonT(40) DEF InsertByPrio

(* A list belongs to any set that holds its tasks.                         *)
LEMMA SeqOfListed ==
    ASSUME NEW S, NEW s \in Seq(S), NEW T, Listed(s) \subseteq T
    PROVE  s \in Seq(T)
<1>1. \A i \in 1 .. Len(s) : s[i] \in T
  BY ListedFacts
<1> QED
  BY <1>1

(* vd_list_addNodeToEnd.                                                   *)
LEMMA AppendFacts ==
    ASSUME NEW S, NEW s \in Seq(S), NEW t \in S
    PROVE  /\ Append(s, t) \in Seq(S)
           /\ Listed(Append(s, t)) = Listed(s) \union {t}
           /\ IsInjective(s) /\ t \notin Listed(s) =>
                 IsInjective(Append(s, t))
<1> DEFINE r == Append(s, t)
<1>1. /\ r \in Seq(S)
      /\ Len(r) = Len(s) + 1
      /\ \A j \in 1 .. Len(s) : r[j] = s[j]
      /\ r[Len(s) + 1] = t
  OBVIOUS
<1> HIDE DEF r
<1>2. Listed(r) = Listed(s) \union {t}
  <2>1. \A j \in 1 .. Len(r) : r[j] \in Listed(s) \union {t}
    BY <1>1, ListedFacts
  <2>2. \A k \in 1 .. Len(s) : s[k] \in Listed(r)
    BY <1>1 DEF Listed
  <2>3. t \in Listed(r)
    BY <1>1 DEF Listed
  <2>4. Listed(r) \subseteq Listed(s) \union {t}
    BY <2>1, <1>1, ListedFacts
  <2>5. Listed(s) \subseteq Listed(r)
    BY <2>2, ListedFacts
  <2> QED
    BY <2>3, <2>4, <2>5
<1>3. ASSUME IsInjective(s), t \notin Listed(s)
      PROVE  IsInjective(r)
  <2>1. \A k \in 1 .. Len(s) : s[k] # t
    BY <1>3, ListedFacts
  <2>2. \A j, k \in 1 .. Len(s) : s[j] = s[k] => j = k
    BY <1>3 DEF IsInjective
  <2> QED
    BY <2>1, <2>2, <1>1 DEF IsInjective
<1> QED
  BY <1>1, <1>2, <1>3 DEF r

(* vd_list_addNodeToFront.                                                 *)
LEMMA PrependFacts ==
    ASSUME NEW S, NEW s \in Seq(S), NEW t \in S
    PROVE  /\ <<t>> \o s \in Seq(S)
           /\ Listed(<<t>> \o s) = Listed(s) \union {t}
           /\ IsInjective(s) /\ t \notin Listed(s) =>
                 IsInjective(<<t>> \o s)
<1> DEFINE r == <<t>> \o s
<1>1. /\ r \in Seq(S)
      /\ Len(r) = Len(s) + 1
      /\ \A j \in 2 .. Len(r) : j - 1 \in 1 .. Len(s) /\ r[j] = s[j - 1]
      /\ r[1] = t
  OBVIOUS
<1>2. \A j \in 1 .. Len(s) : j + 1 \in 1 .. Len(r) /\ r[j + 1] = s[j]
  OBVIOUS
<1> HIDE DEF r
<1>3. Listed(r) = Listed(s) \union {t}
  <2>1. ASSUME NEW j \in 1 .. Len(r)
        PROVE  r[j] \in Listed(s) \union {t}
    <3>1. CASE j = 1
      BY <3>1, <1>1
    <3>2. CASE j # 1
      <4>1. j \in 2 .. Len(r)
        BY <3>2
      <4> QED
        BY <4>1, <1>1, ListedFacts
    <3> QED
      BY <3>1, <3>2
  <2>2. Listed(r) \subseteq Listed(s) \union {t}
    BY <2>1, <1>1, ListedFacts
  <2>3. t \in Listed(r)
    <3>1. 1 \in 1 .. Len(r)
      BY <1>1
    <3> QED
      BY <3>1, <1>1, ListedFacts
  <2>4. ASSUME NEW x \in Listed(s)
        PROVE  x \in Listed(r)
    <3>1. PICK k \in 1 .. Len(s) : s[k] = x
      BY ListedFacts
    <3>2. k + 1 \in 1 .. Len(r) /\ r[k + 1] = x
      BY <3>1, <1>2
    <3> QED
      BY <3>2, <1>1, ListedFacts
  <2> QED
    BY <2>2, <2>3, <2>4
<1>4. ASSUME IsInjective(s), t \notin Listed(s)
      PROVE  IsInjective(r)
  <2>1. \A k \in 1 .. Len(s) : s[k] # t
    BY <1>4, ListedFacts
  <2>2. \A j, k \in 1 .. Len(s) : s[j] = s[k] => j = k
    BY <1>4 DEF IsInjective
  <2>3. ASSUME NEW i \in 1 .. Len(r), NEW j \in 1 .. Len(r), r[i] = r[j]
        PROVE  i = j
    <3>1. \A k \in 1 .. Len(r) : k # 1 => r[k] # t
      <4> TAKE k \in 1 .. Len(r)
      <4> HAVE k # 1
      <4>1. k \in 2 .. Len(r)
        OBVIOUS
      <4> QED
        BY <4>1, <2>1, <1>1
    <3>3. CASE i = 1 \/ j = 1
      BY <3>1, <3>3, <2>3, <1>1
    <3>2. CASE i # 1 /\ j # 1
      <4>1. i - 1 = j - 1
        BY <3>2, <2>2, <2>3, <1>1
      <4> QED
        BY <4>1
    <3> QED
      BY <3>2, <3>3
  <2> QED
    BY <2>3, <1>1 DEF IsInjective
<1> QED
  BY <1>1, <1>3, <1>4 DEF r

(* node_list_removeFirstNode.                                              *)
LEMMA TailFacts ==
    ASSUME NEW S, NEW s \in Seq(S), s # << >>, IsInjective(s)
    PROVE  /\ Head(s) \in Listed(s)
           /\ Tail(s) \in Seq(S)
           /\ Listed(Tail(s)) = Listed(s) \ {Head(s)}
           /\ IsInjective(Tail(s))
           /\ Tail(s) # << >> => Last(Tail(s)) = Last(s)
<1> DEFINE r == Tail(s)
<1>1. /\ r \in Seq(S)
      /\ Len(r) = Len(s) - 1
      /\ \A j \in 1 .. Len(r) : j + 1 \in 1 .. Len(s) /\ r[j] = s[j + 1]
      /\ Head(s) = s[1]
      /\ 1 \in 1 .. Len(s)
  OBVIOUS
<1> HIDE DEF r
<1>2. \A j, k \in 1 .. Len(s) : s[j] = s[k] => j = k
  BY DEF IsInjective
<1>3. Listed(r) = Listed(s) \ {s[1]}
  <2>1. \A j \in 1 .. Len(r) : r[j] \in Listed(s) /\ r[j] # s[1]
    <3> TAKE j \in 1 .. Len(r)
    <3>1. s[j + 1] # s[1]
      BY <1>1, <1>2
    <3> QED
      BY <3>1, <1>1, ListedFacts
  <2>2. Listed(r) \subseteq Listed(s) \ {s[1]}
    BY <2>1, <1>1, ListedFacts
  <2>3. ASSUME NEW x \in Listed(s), x # s[1]
        PROVE  x \in Listed(r)
    <3>1. PICK k \in 1 .. Len(s) : s[k] = x
      BY ListedFacts
    <3>2. k - 1 \in 1 .. Len(r) /\ r[k - 1] = x
      BY <3>1, <2>3, <1>1
    <3> QED
      BY <3>2, <1>1, ListedFacts
  <2> QED
    BY <2>2, <2>3
<1>4. IsInjective(r)
  <2>1. \A i, j \in 1 .. Len(r) : r[i] = r[j] => i + 1 = j + 1
    BY <1>1, <1>2
  <2>2. \A i, j \in 1 .. Len(r) : r[i] = r[j] => i = j
    BY <2>1
  <2> QED
    BY <2>2, <1>1 DEF IsInjective
<1>5. r # << >> => Last(r) = Last(s)
  BY <1>1 DEF Last
<1>6. Head(s) \in Listed(s)
  BY <1>1, ListedFacts
<1> QED
  BY <1>1, <1>3, <1>4, <1>5, <1>6 DEF r

-----------------------------------------------------------------------------
(* The tasks of P, if any are listed, are at the end of the list.          *)
AtEnd(s, P) == \A i, j \in DOMAIN s : i < j /\ s[i] \in P => s[j] \in P

(* Only the listed tasks matter.                                           *)
LEMMA AtEndSame ==
    ASSUME NEW S, NEW s \in Seq(S), NEW P, NEW Q,
           \A x \in Listed(s) : x \in P <=> x \in Q,
           AtEnd(s, P)
    PROVE  AtEnd(s, Q)
<1>1. \A i \in 1 .. Len(s) : s[i] \in P <=> s[i] \in Q
  BY ListedFacts
<1> QED
  BY <1>1 DEF AtEnd

LEMMA AtEndUnlink ==
    ASSUME NEW S, NEW s \in Seq(S), NEW t \in Listed(s), IsInjective(s),
           NEW P, AtEnd(s, P)
    PROVE  AtEnd(Unlink(s, t), P)
<1>1. \A i, j \in DOMAIN Unlink(s, t) : i < j =>
         \E k, m \in DOMAIN s :
            k < m /\ Unlink(s, t)[i] = s[k] /\ Unlink(s, t)[j] = s[m]
  BY UnlinkFacts
<1>2. ASSUME NEW i \in DOMAIN Unlink(s, t), NEW j \in DOMAIN Unlink(s, t),
             i < j, Unlink(s, t)[i] \in P
      PROVE  Unlink(s, t)[j] \in P
  <2>1. PICK k, m \in DOMAIN s :
           k < m /\ Unlink(s, t)[i] = s[k] /\ Unlink(s, t)[j] = s[m]
    BY <1>1, <1>2
  <2> QED
    BY <2>1, <1>2 DEF AtEnd
<1> QED
  BY <1>2 DEF AtEnd

LEMMA AtEndAppend ==
    ASSUME NEW S, NEW s \in Seq(S), NEW t \in S, NEW P, t \in P, AtEnd(s, P)
    PROVE  AtEnd(Append(s, t), P)
<1>1. \A i, j \in 1 .. Len(s) : i < j /\ s[i] \in P => s[j] \in P
  BY DEF AtEnd
<1> DEFINE r == Append(s, t)
<1>2. /\ Len(r) = Len(s) + 1
      /\ DOMAIN r = 1 .. Len(r)
      /\ \A j \in 1 .. Len(s) : r[j] = s[j]
      /\ r[Len(s) + 1] = t
  OBVIOUS
<1> HIDE DEF r
<1>3. ASSUME NEW i \in 1 .. Len(r), NEW j \in 1 .. Len(r), i < j, r[i] \in P
      PROVE  r[j] \in P
  <2>1. CASE j = Len(s) + 1
    BY <2>1, <1>2
  <2>2. CASE j # Len(s) + 1
    <3>1. i \in 1 .. Len(s) /\ j \in 1 .. Len(s)
      BY <2>2, <1>2, <1>3
    <3> QED
      BY <3>1, <1>1, <1>2, <1>3
  <2> QED
    BY <2>1, <2>2
<1> QED
  BY <1>2, <1>3 DEF AtEnd, r

LEMMA AtEndPrepend ==
    ASSUME NEW S, NEW s \in Seq(S), NEW t \in S, NEW P, t \notin P, AtEnd(s, P)
    PROVE  AtEnd(<<t>> \o s, P)
<1>1. \A i, j \in 1 .. Len(s) : i < j /\ s[i] \in P => s[j] \in P
  BY DEF AtEnd
<1> DEFINE r == <<t>> \o s
<1>2. /\ DOMAIN r = 1 .. Len(r)
      /\ r[1] = t
      /\ \A j \in 2 .. Len(r) : j - 1 \in 1 .. Len(s) /\ r[j] = s[j - 1]
  OBVIOUS
<1> HIDE DEF r
<1>3. ASSUME NEW i \in 1 .. Len(r), NEW j \in 1 .. Len(r), i < j, r[i] \in P
      PROVE  r[j] \in P
  <2>1. i # 1
    BY <1>2, <1>3
  <2>2. i \in 2 .. Len(r) /\ j \in 2 .. Len(r)
    BY <2>1, <1>3
  <2>3. i - 1 < j - 1 /\ s[i - 1] \in P
    BY <2>2, <1>2, <1>3
  <2> QED
    BY <2>2, <2>3, <1>1, <1>2
<1> QED
  BY <1>2, <1>3 DEF AtEnd, r


-----------------------------------------------------------------------------
(* The order of a list.                                                    *)

LEMMA SortedInsert ==
    ASSUME NEW S, NEW s \in Seq(S), NEW t \in S, NEW prio \in [S -> Nat],
           CanInsert(s, t, prio), s # << >>, SortedByPrio(s, prio)
    PROVE  SortedByPrio(InsertByPrio(s, t, prio), prio)
<1> DEFINE p == InsertPoint(s, t, prio)
           r == InsertByPrio(s, t, prio)
<1>1. /\ p \in 1 .. Len(s)
      /\ prio[t] <= prio[s[p]]
      /\ \A j \in 1 .. p - 1 : prio[s[j]] <= prio[t]
  BY InsertPointFacts
<1> HIDE DEF p
<1> HIDE DEF r
<1>2. /\ r \in Seq(S) /\ Len(r) = Len(s) + 1
      /\ r[p] = t
      /\ \A j \in 1 .. p - 1 : r[j] = s[j]
      /\ \A j \in p .. Len(s) : r[j + 1] = s[j]
  <2>1. r = InsertAt(s, p, t)
    BY DEF InsertByPrio, p, r
  <2>2. p \in 1 .. Len(s) + 1
    BY <1>1
  <2>3. Inserted(S, s, p, t, r)
    BY <2>1, <2>2, InsertedAt
  <2> QED
    BY <2>3 DEF Inserted
<1>3. \A i, j \in 1 .. Len(s) : i <= j => prio[s[i]] <= prio[s[j]]
  BY DEF SortedByPrio
<1>4. \A j \in p + 1 .. Len(r) : j - 1 \in p .. Len(s) /\ r[j] = s[j - 1]
  BY <1>1, <1>2
<1>5. ASSUME NEW i \in 1 .. Len(r), NEW j \in 1 .. Len(r), i < j
      PROVE  prio[r[i]] <= prio[r[j]]
  <2>1. CASE j < p
    <3>1. r[i] = s[i] /\ r[j] = s[j]
      <4>1. i \in 1 .. p - 1 /\ j \in 1 .. p - 1
        BY <2>1, <1>1, <1>5
      <4> QED
        BY <4>1, <1>2
    <3>2. i \in 1 .. Len(s) /\ j \in 1 .. Len(s)
      BY <2>1, <1>1, <1>5
    <3> QED
      BY <3>1, <3>2, <1>3, <1>5
  <2>2. CASE j = p
    <3>1. i \in 1 .. p - 1
      BY <2>2, <1>1, <1>5
    <3>2. r[i] = s[i]
      BY <3>1, <1>2
    <3>3. r[j] = t
      BY <2>2, <1>2
    <3> QED
      BY <3>1, <3>2, <3>3, <1>1
  <2>3. CASE i < p /\ p < j
    <3>1. r[i] = s[i] /\ r[j] = s[j - 1]
      <4>1. i \in 1 .. p - 1 /\ j \in p + 1 .. Len(r)
        BY <2>3, <1>1
      <4> QED
        BY <4>1, <1>2, <1>4
    <3>2. i \in 1 .. Len(s) /\ j - 1 \in 1 .. Len(s) /\ i <= j - 1
      BY <2>3, <1>1, <1>2
    <3> QED
      BY <3>1, <3>2, <1>3
  <2>4. CASE i = p
    <3>1. r[i] = t /\ r[j] = s[j - 1]
      <4>1. j \in p + 1 .. Len(r)
        BY <2>4, <1>1, <1>5
      <4> QED
        BY <4>1, <2>4, <1>2, <1>4
    <3>2. j - 1 \in 1 .. Len(s) /\ p <= j - 1
      BY <2>4, <1>1, <1>2, <1>5
    <3>3. prio[s[p]] <= prio[s[j - 1]]
      BY <3>2, <1>1, <1>3
    <3>4. prio[t] \in Nat /\ prio[s[p]] \in Nat /\ prio[s[j - 1]] \in Nat
      BY <3>2, <1>1
    <3> QED
      BY <3>1, <3>3, <3>4, <1>1
  <2>5. CASE p < i
    <3>1. r[i] = s[i - 1] /\ r[j] = s[j - 1]
      <4>1. i \in p + 1 .. Len(r) /\ j \in p + 1 .. Len(r)
        BY <2>5, <1>1, <1>5
      <4> QED
        BY <4>1, <1>4
    <3>2. i - 1 \in 1 .. Len(s) /\ j - 1 \in 1 .. Len(s) /\ i - 1 <= j - 1
      BY <2>5, <1>1, <1>2, <1>5
    <3> QED
      BY <3>1, <3>2, <1>3
  <2> QED
    BY <2>1, <2>2, <2>3, <2>4, <2>5, <1>1
<1> QED
  BY <1>2, <1>5 DEF SortedByPrio, r

(* The new head is the inserted task or the old head.                      *)
LEMMA HeadOfInsert ==
    ASSUME NEW S, NEW s \in Seq(S), NEW t \in S, NEW prio \in [S -> Nat],
           CanInsert(s, t, prio), s # << >>
    PROVE  Head(InsertByPrio(s, t, prio)) \in {t, Head(s)}
<1> DEFINE p == InsertPoint(s, t, prio)
           r == InsertByPrio(s, t, prio)
<1>1. p \in 1 .. Len(s)
  BY InsertPointFacts
<1> HIDE DEF p, r
<1>2. /\ r \in Seq(S) /\ Len(r) = Len(s) + 1
      /\ r[p] = t
      /\ \A j \in 1 .. p - 1 : r[j] = s[j]
  <2>1. r = InsertAt(s, p, t)
    BY DEF InsertByPrio, p, r
  <2>2. p \in 1 .. Len(s) + 1
    BY <1>1
  <2>3. Inserted(S, s, p, t, r)
    BY <2>1, <2>2, InsertedAt
  <2> QED
    BY <2>3 DEF Inserted
<1>3. r[1] \in {t, s[1]}
  BY <1>1, <1>2
<1>4. Head(r) = r[1] /\ Head(s) = s[1]
  BY <1>2
<1> QED
  BY <1>3, <1>4 DEF r

LEMMA SortedUnlink ==
    ASSUME NEW S, NEW s \in Seq(S), NEW t \in Listed(s), IsInjective(s),
           NEW prio, SortedByPrio(s, prio)
    PROVE  SortedByPrio(Unlink(s, t), prio)
<1>1. \A i, j \in DOMAIN Unlink(s, t) : i < j =>
         \E k, m \in DOMAIN s :
            k < m /\ Unlink(s, t)[i] = s[k] /\ Unlink(s, t)[j] = s[m]
  BY UnlinkFacts
<1> HIDE DEF Unlink
<1> QED
  BY <1>1 DEF SortedByPrio

LEMMA HeadOfUnlink ==
    ASSUME NEW S, NEW s \in Seq(S), NEW t \in Listed(s), IsInjective(s),
           t # Head(s)
    PROVE  Head(Unlink(s, t)) = Head(s)
<1> DEFINE p == Position(s, t)
           r == Unlink(s, t)
<1>1. p \in 1 .. Len(s) /\ s[p] = t
  BY PositionFacts
<1> HIDE DEF p
<1>2. /\ r \in Seq(S) /\ Len(r) = Len(s) - 1
      /\ \A j \in 1 .. p - 1 : r[j] = s[j]
  BY <1>1, RemoveAtIndex DEF Unlink, p
<1> HIDE DEF r
<1>3. Head(s) = s[1] /\ 1 < p
  BY <1>1
<1>4. r # << >> /\ r[1] = s[1]
  BY <1>1, <1>2, <1>3
<1> QED
  BY <1>2, <1>3, <1>4 DEF r

LEMMA SortedTail ==
    ASSUME NEW S, NEW s \in Seq(S), s # << >>, NEW prio, SortedByPrio(s, prio)
    PROVE  SortedByPrio(Tail(s), prio)
<1>1. \A i \in 1 .. Len(Tail(s)) : i + 1 \in 1 .. Len(s) /\ Tail(s)[i] = s[i + 1]
  OBVIOUS
<1>2. DOMAIN Tail(s) = 1 .. Len(Tail(s)) /\ DOMAIN s = 1 .. Len(s)
  OBVIOUS
<1>3. \A i, j \in 1 .. Len(Tail(s)) : i < j => i + 1 < j + 1
  OBVIOUS
<1> HIDE <1>1
<1> QED
  BY <1>1, <1>2, <1>3 DEF SortedByPrio

(* The order depends on the priorities of the listed tasks only.           *)
LEMMA SortedSame ==
    ASSUME NEW S, NEW s \in Seq(S), NEW p, NEW q,
           \A x \in Listed(s) : p[x] = q[x], SortedByPrio(s, p)
    PROVE  SortedByPrio(s, q)
<1>1. \A i \in DOMAIN s : s[i] \in Listed(s)
  BY DEF Listed
<1> QED
  BY <1>1 DEF SortedByPrio

LEMMA HeadIsMostUrgent ==
    ASSUME NEW S, NEW s \in Seq(S), NEW t \in Listed(s), NEW prio \in [S -> Nat],
           SortedByPrio(s, prio)
    PROVE  prio[Head(s)] <= prio[t]
<1>1. PICK i \in 1 .. Len(s) : s[i] = t
  BY ListedFacts
<1>2. Head(s) = s[1] /\ 1 \in 1 .. Len(s) /\ s[1] \in S /\ s[i] \in S
  BY <1>1
<1>3. 1 < i => prio[s[1]] <= prio[s[i]]
  BY <1>1, <1>2 DEF SortedByPrio
<1>4. prio[s[1]] \in Nat
  BY <1>2
<1> QED
  BY <1>1, <1>2, <1>3, <1>4

LEMMA HeadListed ==
    ASSUME NEW S, NEW s \in Seq(S), s # << >>
    PROVE  Head(s) \in Listed(s)
<1>1. Head(s) = s[1] /\ 1 \in 1 .. Len(s)
  OBVIOUS
<1> QED
  BY <1>1, ListedFacts

(* A list with another last task than its head has more than one.          *)
LEMMA TailNotEmpty ==
    ASSUME NEW S, NEW s \in Seq(S), s # << >>, Head(s) # Last(s)
    PROVE  Tail(s) # << >>
<1> DEFINE r == Tail(s)
<1>1. Len(s) # 1 /\ Len(s) # 0 /\ Len(s) \in Nat
  BY DEF Last
<1>2. r \in Seq(S) /\ Len(r) = Len(s) - 1
  OBVIOUS
<1> HIDE DEF r
<1>3. r # << >>
  BY <1>1, <1>2
<1> QED
  BY <1>3 DEF r

-----------------------------------------------------------------------------
(* What a walk that has reached t still visits.                            *)
From(s, t) == { s[i] : i \in Position(s, t) .. Len(s) }

LEMMA PositionIs ==
    ASSUME NEW S, NEW s \in Seq(S), IsInjective(s), NEW i \in 1 .. Len(s)
    PROVE  s[i] \in Listed(s) /\ Position(s, s[i]) = i
<1>1. \A j, k \in 1 .. Len(s) : s[j] = s[k] => j = k
  BY DEF IsInjective
<1>2. s[i] \in Listed(s)
  BY ListedFacts
<1>3. Position(s, s[i]) \in 1 .. Len(s) /\ s[Position(s, s[i])] = s[i]
  BY <1>2, PositionFacts
<1> QED
  BY <1>1, <1>2, <1>3

LEMMA FromIs ==
    ASSUME NEW S, NEW s \in Seq(S), IsInjective(s), NEW t \in Listed(s),
           NEW j \in 1 .. Len(s)
    PROVE  s[j] \in From(s, t) <=> Position(s, t) <= j
<1>1. Position(s, t) \in 1 .. Len(s)
  BY PositionFacts
<1>2. \A i, k \in 1 .. Len(s) : s[i] = s[k] => i = k
  BY DEF IsInjective
<1>3. ASSUME s[j] \in From(s, t)
      PROVE  Position(s, t) <= j
  <2>1. PICK i \in Position(s, t) .. Len(s) : s[i] = s[j]
    BY <1>3 DEF From
  <2>2. i \in 1 .. Len(s) /\ Position(s, t) <= i
    BY <1>1
  <2>3. i = j
    BY <1>2, <2>1, <2>2
  <2> QED
    BY <2>2, <2>3
<1>4. ASSUME Position(s, t) <= j
      PROVE  s[j] \in From(s, t)
  <2>1. j \in Position(s, t) .. Len(s)
    BY <1>1, <1>4
  <2> QED
    BY <2>1 DEF From
<1> QED
  BY <1>3, <1>4

LEMMA FromListed ==
    ASSUME NEW S, NEW s \in Seq(S), NEW t \in Listed(s)
    PROVE  From(s, t) \subseteq Listed(s)
<1>1. Position(s, t) \in 1 .. Len(s)
  BY PositionFacts
<1>2. \A i \in Position(s, t) .. Len(s) : i \in 1 .. Len(s)
  BY <1>1
<1> QED
  BY <1>2, ListedFacts DEF From

(* A walk starts with every task on the list ahead of it.                  *)
LEMMA FromHead ==
    ASSUME NEW S, NEW s \in Seq(S), IsInjective(s), s # << >>
    PROVE  Head(s) \in Listed(s) /\ From(s, Head(s)) = Listed(s)
<1>1. 1 \in 1 .. Len(s) /\ Head(s) = s[1]
  OBVIOUS
<1>2. Head(s) \in Listed(s) /\ Position(s, Head(s)) = 1
  BY <1>1, PositionIs
<1>3. From(s, Head(s)) = { s[i] : i \in 1 .. Len(s) }
  BY <1>2 DEF From
<1>4. DOMAIN s = 1 .. Len(s)
  OBVIOUS
<1> QED
  BY <1>2, <1>3, <1>4 DEF Listed

(* One step of the walk.                                                   *)
LEMMA FromNext ==
    ASSUME NEW S, NEW s \in Seq(S), IsInjective(s), NEW t \in Listed(s),
           NEW none, none \notin Listed(s)
    PROVE  /\ NextNode(s, t, none) = none => From(s, t) = {t}
           /\ NextNode(s, t, none) # none =>
                 /\ NextNode(s, t, none) \in Listed(s)
                 /\ NextNode(s, t, none) # t
                 /\ From(s, NextNode(s, t, none)) = From(s, t) \ {t}
<1> DEFINE p == Position(s, t)
           n == NextNode(s, t, none)
<1>1. p \in 1 .. Len(s) /\ s[p] = t
  BY PositionFacts
<1>2. n = IF p = Len(s) THEN none ELSE s[p + 1]
  BY DEF NextNode
<1>3. CASE p = Len(s)
  <2>1. From(s, t) = { s[i] : i \in p .. Len(s) }
    BY DEF From
  <2>2. p .. Len(s) = {p}
    BY <1>1, <1>3
  <2> QED
    BY <2>1, <2>2, <1>1, <1>2, <1>3
<1>4. CASE p # Len(s)
  <2>1. p + 1 \in 1 .. Len(s) /\ n = s[p + 1]
    BY <1>1, <1>2, <1>4
  <2> HIDE DEF p, n
  <2>2. n \in Listed(s) /\ Position(s, n) = p + 1
    BY <2>1, PositionIs
  <2>3. n # none
    BY <2>2
  <2>4. n # t
    BY <2>2, <1>1 DEF p
  <2>5. From(s, n) = From(s, t) \ {t}
    <3>1. ASSUME NEW j \in 1 .. Len(s)
          PROVE  s[j] \in From(s, n) <=> s[j] \in From(s, t) /\ s[j] # t
      <4>1. s[j] \in From(s, n) <=> p + 1 <= j
        BY <2>2, FromIs
      <4>2. s[j] \in From(s, t) <=> p <= j
        BY FromIs DEF p
      <4>3. s[j] = t => j = p
        BY PositionIs DEF p
      <4> QED
        BY <4>1, <4>2, <4>3, <1>1
    <3>2. /\ From(s, n) \subseteq Listed(s)
          /\ From(s, t) \subseteq Listed(s)
      BY <2>2, FromListed
    <3> QED
      BY <3>1, <3>2, ListedFacts
  <2> QED
    BY <2>2, <2>3, <2>4, <2>5 DEF n
<1> QED
  BY <1>3, <1>4

(* Another task is taken off the list meanwhile.                           *)
LEMMA FromUnlink ==
    ASSUME NEW S, NEW s \in Seq(S), IsInjective(s), NEW t \in Listed(s),
           NEW x \in Listed(s), x # t
    PROVE  t \in Listed(Unlink(s, x)) /\ From(Unlink(s, x), t) = From(s, t) \ {x}
<1> DEFINE r == Unlink(s, x)
<1>1. /\ r \in Seq(S)
      /\ Listed(r) = Listed(s) \ {x}
      /\ IsInjective(r)
      /\ \A i, j \in DOMAIN r : i < j =>
            \E k, m \in DOMAIN s : k < m /\ r[i] = s[k] /\ r[j] = s[m]
  BY UnlinkFacts
<1> HIDE DEF r
<1>2. t \in Listed(r)
  BY <1>1
<1>3. DOMAIN r = 1 .. Len(r) /\ DOMAIN s = 1 .. Len(s)
  BY <1>1
<1>4. \A i, j \in 1 .. Len(r) : i < j =>
         \E a, b \in 1 .. Len(s) : a < b /\ r[i] = s[a] /\ r[j] = s[b]
  <2> TAKE i, j \in 1 .. Len(r)
  <2> HAVE i < j
  <2>1. PICK a \in DOMAIN s, b \in DOMAIN s :
           a < b /\ r[i] = s[a] /\ r[j] = s[b]
    BY <1>1, <1>3
  <2> QED
    BY <2>1, <1>3
<1>5. ASSUME NEW y \in Listed(r)
      PROVE  y \in From(r, t) <=> y \in From(s, t)
  <2>1. PICK i \in 1 .. Len(r) : r[i] = y
    BY <1>1, ListedFacts
  <2>2. PICK j \in 1 .. Len(r) : r[j] = t
    BY <1>1, <1>2, ListedFacts
  <2>3. Position(r, t) = j
    BY <1>1, <2>2, PositionIs
  <2>4. y \in From(r, t) <=> j <= i
    BY <1>1, <1>2, <2>1, <2>3, FromIs
  <2>5. y \in Listed(s) /\ t \in Listed(s)
    BY <1>1
  <2>6. PICK k \in 1 .. Len(s) : s[k] = y
    BY <2>5, ListedFacts
  <2>7. Position(s, t) \in 1 .. Len(s) /\ s[Position(s, t)] = t
    BY PositionFacts
  <2>8. y \in From(s, t) <=> Position(s, t) <= k
    BY <2>6, FromIs
  <2>9. \A a, b \in 1 .. Len(s) : s[a] = s[b] => a = b
    BY DEF IsInjective
  <2>10. CASE i < j
    <3>1. PICK a \in 1 .. Len(s), b \in 1 .. Len(s) :
             a < b /\ r[i] = s[a] /\ r[j] = s[b]
      BY <2>10, <1>4
    <3>2. a = k /\ b = Position(s, t)
      BY <3>1, <2>1, <2>2, <2>6, <2>7, <2>9
    <3> QED
      BY <3>1, <3>2, <2>4, <2>8, <2>10
  <2>11. CASE j < i
    <3>1. PICK a \in 1 .. Len(s), b \in 1 .. Len(s) :
             a < b /\ r[j] = s[a] /\ r[i] = s[b]
      BY <2>11, <1>4
    <3>2. b = k /\ a = Position(s, t)
      BY <3>1, <2>1, <2>2, <2>6, <2>7, <2>9
    <3> QED
      BY <3>1, <3>2, <2>4, <2>8, <2>11
  <2>12. CASE i = j
    <3>1. k = Position(s, t)
      BY <2>12, <2>1, <2>2, <2>6, <2>7, <2>9
    <3> QED
      BY <3>1, <2>4, <2>7, <2>8, <2>12
  <2> QED
    BY <2>10, <2>11, <2>12
<1>6. From(r, t) \subseteq Listed(r) /\ From(s, t) \subseteq Listed(s)
  BY <1>1, <1>2, FromListed
<1> QED
  BY <1>1, <1>2, <1>5, <1>6 DEF r

(* A walk that has reached the tasks at the end visits no others.          *)
LEMMA FromAtEnd ==
    ASSUME NEW S, NEW s \in Seq(S), NEW t \in Listed(s), NEW P,
           AtEnd(s, P), t \in P
    PROVE  From(s, t) \subseteq P
<1>1. Position(s, t) \in 1 .. Len(s) /\ s[Position(s, t)] = t
  BY PositionFacts
<1>2. ASSUME NEW j \in Position(s, t) .. Len(s)
      PROVE  s[j] \in P
  <2>1. j \in DOMAIN s /\ Position(s, t) \in DOMAIN s
    BY <1>1
  <2>2. j = Position(s, t) \/ Position(s, t) < j
    BY <1>1
  <2> QED
    BY <1>1, <2>1, <2>2 DEF AtEnd
<1> QED
  BY <1>2 DEF From

-----------------------------------------------------------------------------
(* vd_list_addTaskByPrio on a list that may be empty, as the lists of      *)
(* blocked tasks are.                                                      *)
LEMMA JoinFacts ==
    ASSUME NEW S, NEW s \in Seq(S), NEW t \in S, NEW prio \in [S -> Nat],
           CanInsert(s, t, prio)
    PROVE  /\ InsertByPrio(s, t, prio) \in Seq(S)
           /\ Listed(InsertByPrio(s, t, prio)) = Listed(s) \union {t}
           /\ IsInjective(s) /\ t \notin Listed(s) =>
                 IsInjective(InsertByPrio(s, t, prio))
           /\ SortedByPrio(s, prio) =>
                 SortedByPrio(InsertByPrio(s, t, prio), prio)
<1>1. CASE s # << >>
  BY <1>1, InsertByPrioFacts, SortedInsert
<1>2. CASE s = << >>
  <2> DEFINE q == InsertByPrio(s, t, prio)
  <2>1. q = InsertAt(s, 1, t)
    BY <1>2 DEF InsertByPrio, InsertPoint, HeadInsert
  <2>2. Len(s) = 0 /\ 1 \in 1 .. Len(s) + 1
    BY <1>2
  <2>3. q \in Seq(S) /\ Len(q) = Len(s) + 1 /\ q[1] = t
    <3>1. \A i \in 1 .. Len(s) + 1 :
             /\ InsertAt(s, i, t) \in Seq(S)
             /\ Len(InsertAt(s, i, t)) = Len(s) + 1
             /\ InsertAt(s, i, t)[i] = t
      BY InsertAtIndex
    <3> QED
      BY <2>1, <2>2, <3>1
  <2> HIDE DEF q
  <2>4. DOMAIN q = {1}
    BY <2>2, <2>3
  <2>5. Listed(q) = {t} /\ Listed(s) = {}
    BY <1>2, <2>3, <2>4 DEF Listed
  <2>6. IsInjective(q) /\ SortedByPrio(q, prio)
    BY <2>4 DEF IsInjective, SortedByPrio
  <2> QED
    BY <2>3, <2>5, <2>6 DEF q
<1> QED
  BY <1>1, <1>2

-----------------------------------------------------------------------------
(***************************************************************************)
(* Scheduler, whatever usage rules the environment breaks.                 *)
(***************************************************************************)

(* TypeOK is not inductive: a step may look at the head of the ready list, *)
(* or at the node behind the cursor.  Both exist because, until a fault,   *)
(* the ready list ends with the background task (an insertion always finds *)
(* it less urgent) and every created task is linked.                       *)

PrioritiesInv ==
    /\ priority[BG] = BasePrio[BG]
    /\ \A t \in created \ {BG} : priority[t] < BasePrio[BG]

SoundLists ==
    /\ ready # << >>
    /\ Last(ready) = BG
    /\ Listed(ready) \union Listed(wait) = created

Suspended == { t \in AllTasks : SUSPENDED \in flags[t] }

ListsInv ==
    /\ LinkedOnce
    /\ fault = "none" => SoundLists
    /\ Listed(ready) \intersect Suspended = {}
    /\ AtEnd(wait, Suspended)
    /\ Suspended \subseteq created

Inv ==
    /\ TypeOK
    /\ PrioritiesInv
    /\ ListsInv
    /\ cursor \in created \union {NoTask}

-----------------------------------------------------------------------------
(* The background task is the sentinel of every insertion.                 *)
LEMMA Sentinel ==
    ASSUME NEW s \in Seq(AllTasks), s # << >>, Last(s) = BG,
           NEW t \in AllTasks, NEW p \in [AllTasks -> Nat], p[t] < p[BG]
    PROVE  CanInsert(s, t, p)
<1>1. Len(s) \in DOMAIN s /\ s[Len(s)] = BG
  BY DEF Last
<1> QED
  BY <1>1 DEF CanInsert, LessUrgent

LEMMA ReadyInsert ==
    ASSUME NEW s \in Seq(AllTasks), s # << >>, Last(s) = BG, IsInjective(s),
           NEW t \in AllTasks \ Listed(s),
           NEW p \in [AllTasks -> Nat], p[t] < p[BG]
    PROVE  /\ InsertByPrio(s, t, p) \in Seq(AllTasks)
           /\ Listed(InsertByPrio(s, t, p)) = Listed(s) \union {t}
           /\ IsInjective(InsertByPrio(s, t, p))
           /\ InsertByPrio(s, t, p) # << >>
           /\ Last(InsertByPrio(s, t, p)) = BG
BY Sentinel, InsertByPrioFacts

(* What taskWake and the tick do to the lists.                             *)
LEMMA MakeReadyLists ==
    ASSUME Inv, fault = "none", NEW t \in Listed(wait), MakeReady(t)
    PROVE  /\ t \in created \ {BG}
           /\ ready' \in Seq(AllTasks) /\ wait' \in Seq(AllTasks)
           /\ Listed(ready') = Listed(ready) \union {t}
           /\ Listed(wait') = Listed(wait) \ {t}
           /\ IsInjective(ready') /\ IsInjective(wait')
           /\ ready' # << >> /\ Last(ready') = BG
           /\ AtEnd(wait', Suspended)
<1>1. /\ ready \in Seq(AllTasks) /\ wait \in Seq(AllTasks)
      /\ Listed(wait) \subseteq created /\ created \subseteq AllTasks
  BY SeqOfListed, ListedFacts DEF Inv, TypeOK, TypeOfLists
<1>2. t \in created \ {BG}
  <2>1. BG \in Listed(ready)
    BY <1>1, ListedFacts DEF Inv, ListsInv, SoundLists, Last
  <2> QED
    BY <1>1, <2>1 DEF Inv, ListsInv, LinkedOnce
<1>3. t \in AllTasks \ Listed(ready) /\ priority[t] < priority[BG]
  BY <1>1, <1>2 DEF Inv, ListsInv, LinkedOnce, PrioritiesInv
<1>4. priority \in [AllTasks -> Nat]
  BY DEF Inv, TypeOK, TypeOfTCBs
<1>5. IsInjective(ready) /\ ready # << >> /\ Last(ready) = BG
  BY DEF Inv, ListsInv, LinkedOnce, SoundLists
<1>6. IsInjective(wait) /\ AtEnd(wait, Suspended)
  BY DEF Inv, ListsInv, LinkedOnce
<1>7. ready' = InsertByPrio(ready, t, priority) /\ wait' = Unlink(wait, t)
  BY DEF MakeReady
<1>8. /\ ready' \in Seq(AllTasks)
      /\ Listed(ready') = Listed(ready) \union {t}
      /\ IsInjective(ready')
      /\ ready' # << >> /\ Last(ready') = BG
  BY <1>1, <1>3, <1>4, <1>5, <1>7, ReadyInsert
<1>9. /\ wait' \in Seq(AllTasks)
      /\ Listed(wait') = Listed(wait) \ {t}
      /\ IsInjective(wait')
  BY <1>1, <1>6, <1>7, UnlinkFacts
<1>10. AtEnd(wait', Suspended)
  BY <1>1, <1>6, <1>7, AtEndUnlink
<1> QED
  BY <1>2, <1>8, <1>9, <1>10

(* Once both lists are known as sequences of distinct created tasks, the   *)
(* rest of ListsInv follows.                                               *)
LEMMA ListsTyped ==
    ASSUME Inv
    PROVE  /\ ready \in Seq(AllTasks) /\ wait \in Seq(AllTasks)
           /\ Listed(ready) \subseteq created
           /\ Listed(wait) \subseteq created
           /\ created \subseteq AllTasks
           /\ IsInjective(ready) /\ IsInjective(wait)
           /\ Listed(ready) \intersect Listed(wait) = {}
           /\ AtEnd(wait, Suspended)
BY SeqOfListed, ListedFacts DEF Inv, TypeOK, TypeOfLists, ListsInv, LinkedOnce

LEMMA BGIsReady ==
    ASSUME Inv, fault = "none"
    PROVE  /\ BG \in Listed(ready) /\ BG \notin Listed(wait)
           /\ BG \in created
           /\ ready # << >> /\ Last(ready) = BG
           /\ Listed(ready) \union Listed(wait) = created
BY ListsTyped, ListedFacts DEF Inv, ListsInv, SoundLists, Last

-----------------------------------------------------------------------------
LEMMA InitInv == Init => Inv
<1> SUFFICES ASSUME Init PROVE Inv
  OBVIOUS
<1>1. TypeOfLists
  BY DEF Init, TypeOfLists, AllTasks
<1>2. TypeOfTCBs
  BY TaskAssumption, TickAssumption
     DEF Init, TypeOfTCBs, AllTasks, Reasons, Undefined
<1>3. TypeOfSwitch
  <2>1. 0 \in 0 .. LateTicks
    BY TickAssumption
  <2> QED
    BY <2>1, Zenon DEF Init, TypeOfSwitch
<1>4. TypeOfTick
  <2>1. 0 \in 0 .. MaxTick - 1
    BY TickAssumption
  <2> QED
    BY <2>1, Zenon DEF Init, TypeOfTick
<1>5. PrioritiesInv
  BY DEF Init, PrioritiesInv, AllTasks
<1>6. Listed(ready) = {BG} /\ Listed(wait) = {}
  BY DEF Init, Listed
<1>7. ListsInv
  <2>1. LinkedOnce
    BY <1>6 DEF Init, LinkedOnce, IsInjective
  <2>2. SoundLists
    BY <1>6 DEF Init, SoundLists, Last
  <2>3. Suspended = {}
    BY DEF Init, Suspended
  <2>4. AtEnd(wait, Suspended)
    BY DEF Init, AtEnd
  <2> QED
    BY <2>1, <2>2, <2>3, <2>4 DEF Init, ListsInv
<1> QED
  BY <1>1, <1>2, <1>3, <1>4, <1>5, <1>7 DEF Inv, TypeOK, Init

-----------------------------------------------------------------------------
(* The lists part of the invariant, by what a step does to the lists.      *)

(* A step that links and suspends nobody.                                  *)
LEMMA ListsUnchanged ==
    ASSUME Inv, fault = "none",
           UNCHANGED <<ready, wait, created, priority>>,
           Suspended' = Suspended
    PROVE  TypeOfLists' /\ PrioritiesInv' /\ ListsInv'
<1>1. TypeOfLists'
  BY DEF Inv, TypeOK, TypeOfLists
<1>2. PrioritiesInv'
  BY DEF Inv, PrioritiesInv
<1>3. LinkedOnce' /\ SoundLists'
  BY DEF Inv, ListsInv, LinkedOnce, SoundLists
<1>4. /\ Listed(ready') \intersect Suspended' = {}
      /\ AtEnd(wait', Suspended')
      /\ Suspended' \subseteq created'
  BY DEF Inv, ListsInv
<1> QED
  BY <1>1, <1>2, <1>3, <1>4 DEF ListsInv

(* A step that makes t ready and ends its suspension.                      *)
LEMMA ListsMadeReady ==
    ASSUME Inv, fault = "none", NEW t \in Listed(wait), MakeReady(t),
           UNCHANGED priority, Suspended' = Suspended \ {t}
    PROVE  TypeOfLists' /\ PrioritiesInv' /\ ListsInv'
<1>1. created' = created
  BY DEF MakeReady
<1>2. /\ t \in created \ {BG}
      /\ ready' \in Seq(AllTasks) /\ wait' \in Seq(AllTasks)
      /\ Listed(ready') = Listed(ready) \union {t}
      /\ Listed(wait') = Listed(wait) \ {t}
      /\ IsInjective(ready') /\ IsInjective(wait')
      /\ ready' # << >> /\ Last(ready') = BG
      /\ AtEnd(wait', Suspended)
  BY MakeReadyLists
<1>3. /\ Listed(ready) \subseteq created /\ Listed(wait) \subseteq created
      /\ created \subseteq AllTasks
      /\ Listed(ready) \intersect Listed(wait) = {}
      /\ Listed(ready) \union Listed(wait) = created
  BY ListsTyped, BGIsReady
<1>4. TypeOfLists'
  BY <1>1, <1>2, <1>3, SeqOfListed DEF TypeOfLists
<1>5. PrioritiesInv'
  BY <1>1 DEF Inv, PrioritiesInv
<1>6. LinkedOnce' /\ SoundLists'
  BY <1>1, <1>2, <1>3 DEF LinkedOnce, SoundLists
<1>7. Listed(ready') \intersect Suspended' = {}
  BY <1>2 DEF Inv, ListsInv
<1>8. AtEnd(wait', Suspended')
  <2>1. \A x \in Listed(wait') : x \in Suspended <=> x \in Suspended'
    BY <1>2
  <2> QED
    BY <2>1, <1>2, AtEndSame
<1>9. Suspended' \subseteq created'
  BY <1>1 DEF Inv, ListsInv
<1> QED
  BY <1>4, <1>5, <1>6, <1>7, <1>8, <1>9 DEF ListsInv

(* A task goes to sleep.                                                   *)
LEMMA ListsSlept ==
    ASSUME Inv, fault = "none", SetNextReadyTaskToRun,
           UNCHANGED priority, Suspended' = Suspended
    PROVE  TypeOfLists' /\ PrioritiesInv' /\ ListsInv'
<1> DEFINE h == Head(ready)
<1>1. /\ ready' = Tail(ready) /\ wait' = <<h>> \o wait
      /\ created' = created
      /\ fault' = "none" => ready' # << >>
  BY DEF SetNextReadyTaskToRun
<1>2. /\ ready \in Seq(AllTasks) /\ wait \in Seq(AllTasks)
      /\ Listed(ready) \subseteq created /\ Listed(wait) \subseteq created
      /\ created \subseteq AllTasks
      /\ IsInjective(ready) /\ IsInjective(wait)
      /\ Listed(ready) \intersect Listed(wait) = {}
      /\ Listed(ready) \union Listed(wait) = created
      /\ ready # << >> /\ Last(ready) = BG
      /\ AtEnd(wait, Suspended)
  BY ListsTyped, BGIsReady
<1> HIDE DEF h
<1>3. /\ h \in Listed(ready)
      /\ ready' \in Seq(AllTasks)
      /\ Listed(ready') = Listed(ready) \ {h}
      /\ IsInjective(ready')
      /\ ready' # << >> => Last(ready') = BG
  BY <1>1, <1>2, TailFacts DEF h
<1>4. h \in AllTasks /\ h \notin Listed(wait) /\ h \notin Suspended
  BY <1>2, <1>3 DEF Inv, ListsInv
<1>5. /\ wait' \in Seq(AllTasks)
      /\ Listed(wait') = Listed(wait) \union {h}
      /\ IsInjective(wait')
  BY <1>1, <1>2, <1>4, PrependFacts
<1>6. AtEnd(wait', Suspended')
  BY <1>1, <1>2, <1>4, AtEndPrepend
<1>7. TypeOfLists'
  BY <1>1, <1>2, <1>3, <1>5, SeqOfListed DEF TypeOfLists
<1>8. PrioritiesInv'
  BY <1>1 DEF Inv, PrioritiesInv
<1>9. LinkedOnce'
  BY <1>2, <1>3, <1>5 DEF LinkedOnce
<1>10. fault' = "none" => SoundLists'
  BY <1>1, <1>2, <1>3, <1>5 DEF SoundLists
<1>11. Listed(ready') \intersect Suspended' = {}
  BY <1>3 DEF Inv, ListsInv
<1>12. Suspended' \subseteq created'
  BY <1>1 DEF Inv, ListsInv
<1> QED
  BY <1>6, <1>7, <1>8, <1>9, <1>10, <1>11, <1>12 DEF ListsInv

(* A task is created.                                                      *)
LEMMA ListsCreated ==
    ASSUME Inv, fault = "none", NEW t \in Tasks, CreateTask(t)
    PROVE  TypeOfLists' /\ PrioritiesInv' /\ ListsInv'
<1>1. /\ t \in AllTasks /\ t # BG /\ t \notin created
      /\ created' = created \union {t}
      /\ ready' = InsertByPrio(ready, t, priority')
      /\ UNCHANGED <<wait, flags, fault>>
  BY TaskAssumption DEF CreateTask, AllTasks
<1>2. /\ ready \in Seq(AllTasks) /\ wait \in Seq(AllTasks)
      /\ Listed(ready) \subseteq created /\ Listed(wait) \subseteq created
      /\ created \subseteq AllTasks
      /\ IsInjective(ready) /\ IsInjective(wait)
      /\ Listed(ready) \intersect Listed(wait) = {}
      /\ Listed(ready) \union Listed(wait) = created
      /\ ready # << >> /\ Last(ready) = BG
      /\ AtEnd(wait, Suspended)
      /\ BG \in created
  BY ListsTyped, BGIsReady
<1>3. /\ priority' \in [AllTasks -> Nat]
      /\ priority'[t] = BasePrio[t]
      /\ \A x \in created : priority'[x] = priority[x]
  <2>1. priority \in [AllTasks -> Nat] /\ BasePrio[t] \in Nat
    BY <1>1, TaskAssumption DEF Inv, TypeOK, TypeOfTCBs
  <2>2. priority' = [priority EXCEPT ![t] = BasePrio[t]]
    BY DEF CreateTask
  <2> QED
    BY <2>1, <2>2, <1>1, <1>2
<1>4. PrioritiesInv'
  BY <1>1, <1>2, <1>3, TaskAssumption DEF Inv, PrioritiesInv
<1>5. priority'[t] < priority'[BG]
  BY <1>1, <1>4 DEF PrioritiesInv
<1>6. t \in AllTasks \ Listed(ready)
  BY <1>1, <1>2
<1>7. /\ ready' \in Seq(AllTasks)
      /\ Listed(ready') = Listed(ready) \union {t}
      /\ IsInjective(ready')
      /\ ready' # << >> /\ Last(ready') = BG
  BY <1>1, <1>2, <1>3, <1>5, <1>6, ReadyInsert
<1>8. TypeOfLists'
  BY <1>1, <1>2, <1>7, SeqOfListed DEF TypeOfLists
<1>9. LinkedOnce' /\ SoundLists'
  BY <1>1, <1>2, <1>7 DEF LinkedOnce, SoundLists
<1>10. Suspended' = Suspended
  BY <1>1 DEF Suspended
<1>11. t \notin Suspended /\ Suspended' \subseteq created'
  BY <1>1, <1>10 DEF Inv, ListsInv
<1>12. Listed(ready') \intersect Suspended' = {}
  BY <1>7, <1>10, <1>11 DEF Inv, ListsInv
<1>13. AtEnd(wait', Suspended')
  BY <1>1, <1>2, <1>10
<1> QED
  BY <1>4, <1>8, <1>9, <1>11, <1>12, <1>13 DEF ListsInv

(* The priority of a task is changed; a ready task is linked anew.         *)
LEMMA ListsReordered ==
    ASSUME Inv, fault = "none", NEW t \in Tasks, NEW p \in Priorities,
           SetNewPriority(t, p)
    PROVE  TypeOfLists' /\ PrioritiesInv' /\ ListsInv'
<1>1. /\ t \in created /\ t # BG
      /\ priority' = [priority EXCEPT ![t] = p]
      /\ UNCHANGED <<wait, created, flags, fault>>
      /\ \/ ready' = ready
         \/ /\ t \in Listed(ready)
            /\ ready' = InsertByPrio(Unlink(ready, t), t, priority')
  BY DEF SetNewPriority
<1>2. /\ ready \in Seq(AllTasks) /\ wait \in Seq(AllTasks)
      /\ Listed(ready) \subseteq created /\ Listed(wait) \subseteq created
      /\ created \subseteq AllTasks
      /\ IsInjective(ready) /\ IsInjective(wait)
      /\ Listed(ready) \intersect Listed(wait) = {}
      /\ Listed(ready) \union Listed(wait) = created
      /\ ready # << >> /\ Last(ready) = BG
      /\ AtEnd(wait, Suspended)
      /\ BG \in created
  BY ListsTyped, BGIsReady
<1>3. p \in Nat /\ p < BasePrio[BG]
  BY TaskAssumption
<1>4. /\ priority' \in [AllTasks -> Nat]
      /\ priority'[t] = p
      /\ \A x \in AllTasks \ {t} : priority'[x] = priority[x]
  <2>1. priority \in [AllTasks -> Nat] /\ t \in AllTasks
    BY <1>1, <1>2 DEF Inv, TypeOK, TypeOfTCBs
  <2> QED
    BY <2>1, <1>1, <1>3
<1>5. PrioritiesInv'
  BY <1>1, <1>2, <1>3, <1>4 DEF Inv, PrioritiesInv
<1>6. Suspended' = Suspended
  BY <1>1 DEF Suspended
<1>7. /\ ready' \in Seq(AllTasks)
      /\ Listed(ready') = Listed(ready)
      /\ IsInjective(ready')
      /\ ready' # << >> /\ Last(ready') = BG
  <2>1. CASE ready' = ready
    BY <2>1, <1>2
  <2>2. CASE /\ t \in Listed(ready)
             /\ ready' = InsertByPrio(Unlink(ready, t), t, priority')
    <3> DEFINE u == Unlink(ready, t)
    <3>1. /\ u \in Seq(AllTasks)
          /\ Listed(u) = Listed(ready) \ {t}
          /\ IsInjective(u)
          /\ u # << >> /\ Last(u) = BG
      BY <2>2, <1>1, <1>2, UnlinkFacts
    <3>2. t \in AllTasks \ Listed(u) /\ priority'[t] < priority'[BG]
      BY <2>2, <3>1, <1>1, <1>2, <1>5 DEF PrioritiesInv
    <3> HIDE DEF u
    <3>3. /\ InsertByPrio(u, t, priority') \in Seq(AllTasks)
          /\ Listed(InsertByPrio(u, t, priority')) = Listed(u) \union {t}
          /\ IsInjective(InsertByPrio(u, t, priority'))
          /\ InsertByPrio(u, t, priority') # << >>
          /\ Last(InsertByPrio(u, t, priority')) = BG
      BY <3>1, <3>2, <1>4, ReadyInsert
    <3> QED
      BY <2>2, <3>1, <3>3 DEF u
  <2> QED
    BY <2>1, <2>2, <1>1
<1>8. TypeOfLists'
  BY <1>1, <1>2, <1>7, SeqOfListed DEF TypeOfLists
<1>9. LinkedOnce' /\ SoundLists'
  BY <1>1, <1>2, <1>7 DEF LinkedOnce, SoundLists
<1>10. /\ Listed(ready') \intersect Suspended' = {}
       /\ AtEnd(wait', Suspended')
       /\ Suspended' \subseteq created'
  BY <1>1, <1>6, <1>7 DEF Inv, ListsInv
<1> QED
  BY <1>5, <1>8, <1>9, <1>10 DEF ListsInv

(* A task is suspended.                                                    *)
LEMMA ListsSuspended ==
    ASSUME Inv, fault = "none", NEW t \in Tasks, TaskSuspend(t)
    PROVE  TypeOfLists' /\ PrioritiesInv' /\ ListsInv'
<1>1. /\ t \in created /\ t # BG
      /\ UNCHANGED <<created, priority>>
      /\ \/ UNCHANGED <<ready, wait, flags, fault>>
         \/ /\ flags' = [flags EXCEPT ![t] = @ \union {SUSPENDED}]
            /\ \/ /\ t \in Listed(ready)
                  /\ ready' = Unlink(ready, t)
                  /\ wait' = Append(wait, t)
                  /\ fault' = fault
               \/ /\ t \in Listed(wait)
                  /\ wait' = Append(Unlink(wait, t), t)
                  /\ UNCHANGED <<ready, fault>>
               \/ /\ t \in Listed(wait)
                  /\ wait' = <<t>>
                  /\ fault' = "links"
                  /\ ready' = ready
  BY DEF TaskSuspend
<1>2. /\ ready \in Seq(AllTasks) /\ wait \in Seq(AllTasks)
      /\ Listed(ready) \subseteq created /\ Listed(wait) \subseteq created
      /\ created \subseteq AllTasks
      /\ IsInjective(ready) /\ IsInjective(wait)
      /\ Listed(ready) \intersect Listed(wait) = {}
      /\ Listed(ready) \union Listed(wait) = created
      /\ ready # << >> /\ Last(ready) = BG
      /\ AtEnd(wait, Suspended)
      /\ Listed(ready) \intersect Suspended = {}
      /\ Suspended \subseteq created
  BY ListsTyped, BGIsReady DEF Inv, ListsInv
<1>3. PrioritiesInv'
  BY <1>1 DEF Inv, PrioritiesInv
<1>4. CASE UNCHANGED <<ready, wait, flags, fault>>
  <2>1. Suspended' = Suspended
    BY <1>4 DEF Suspended
  <2> QED
    BY <2>1, <1>1, <1>4, ListsUnchanged
<1>5. CASE flags' = [flags EXCEPT ![t] = @ \union {SUSPENDED}]
  <2>1. t \in AllTasks
    BY <1>1, <1>2
  <2>2. Suspended' = Suspended \union {t}
    BY <2>1, <1>5 DEF Suspended, Inv, TypeOK, TypeOfTCBs
  <2>3. Suspended' \subseteq created'
    BY <2>2, <1>1, <1>2
  <2>4. CASE /\ t \in Listed(ready)
             /\ ready' = Unlink(ready, t)
             /\ wait' = Append(wait, t)
             /\ fault' = fault
    <3>1. /\ ready' \in Seq(AllTasks)
          /\ Listed(ready') = Listed(ready) \ {t}
          /\ IsInjective(ready')
          /\ ready' # << >> /\ Last(ready') = BG
      BY <2>4, <1>1, <1>2, UnlinkFacts
    <3>2. t \notin Listed(wait)
      BY <2>4, <1>2
    <3>3. /\ wait' \in Seq(AllTasks)
          /\ Listed(wait') = Listed(wait) \union {t}
          /\ IsInjective(wait')
      BY <2>1, <2>4, <3>2, <1>2, AppendFacts
    <3>4. AtEnd(wait', Suspended')
      <4>1. \A x \in Listed(wait) : x \in Suspended <=> x \in Suspended'
        BY <2>2, <3>2
      <4>2. AtEnd(wait, Suspended')
        BY <4>1, <1>2, AtEndSame
      <4>3. t \in Suspended'
        BY <2>2
      <4> QED
        BY <2>1, <2>4, <4>2, <4>3, <1>2, AtEndAppend
    <3>5. TypeOfLists'
      BY <3>1, <3>3, <1>1, <1>2, SeqOfListed DEF TypeOfLists
    <3>6. LinkedOnce' /\ SoundLists'
      BY <3>1, <3>3, <1>1, <1>2 DEF LinkedOnce, SoundLists
    <3>7. Listed(ready') \intersect Suspended' = {}
      BY <2>2, <3>1, <1>2
    <3> QED
      BY <2>3, <3>4, <3>5, <3>6, <3>7, <1>3 DEF ListsInv
  <2>5. CASE /\ t \in Listed(wait)
             /\ wait' = Append(Unlink(wait, t), t)
             /\ UNCHANGED <<ready, fault>>
    <3> DEFINE u == Unlink(wait, t)
    <3>1. /\ u \in Seq(AllTasks)
          /\ Listed(u) = Listed(wait) \ {t}
          /\ IsInjective(u)
      BY <2>5, <1>2, UnlinkFacts
    <3>2. AtEnd(u, Suspended)
      BY <2>5, <1>2, AtEndUnlink
    <3>3. wait' = Append(u, t)
      BY <2>5
    <3> HIDE DEF u
    <3>4. t \notin Listed(u)
      BY <3>1
    <3>5. /\ wait' \in Seq(AllTasks)
          /\ Listed(wait') = Listed(u) \union {t}
          /\ IsInjective(wait')
      BY <2>1, <3>1, <3>3, <3>4, AppendFacts
    <3>6. AtEnd(wait', Suspended')
      <4>1. \A x \in Listed(u) : x \in Suspended <=> x \in Suspended'
        BY <2>2, <3>4
      <4>2. AtEnd(u, Suspended')
        BY <4>1, <3>1, <3>2, AtEndSame
      <4>3. t \in Suspended'
        BY <2>2
      <4> QED
        BY <2>1, <3>1, <3>3, <4>2, <4>3, AtEndAppend
    <3>7. Listed(wait') = Listed(wait)
      BY <2>5, <3>1, <3>5
    <3>8. TypeOfLists'
      BY <2>5, <3>5, <3>7, <1>1, <1>2, SeqOfListed DEF TypeOfLists
    <3>9. LinkedOnce' /\ SoundLists'
      BY <2>5, <3>5, <3>7, <1>1, <1>2 DEF LinkedOnce, SoundLists
    <3>10. Listed(ready') \intersect Suspended' = {}
      BY <2>2, <2>5, <1>2
    <3> QED
      BY <2>3, <3>6, <3>8, <3>9, <3>10, <1>3 DEF ListsInv
  <2>6. CASE /\ t \in Listed(wait)
             /\ wait' = <<t>>
             /\ fault' = "links"
             /\ ready' = ready
    <3>1. /\ wait' \in Seq(AllTasks)
          /\ Listed(wait') = {t}
          /\ IsInjective(wait')
          /\ AtEnd(wait', Suspended')
      BY <2>1, <2>6 DEF Listed, IsInjective, AtEnd
    <3>2. TypeOfLists'
      BY <2>6, <3>1, <1>1, <1>2, SeqOfListed DEF TypeOfLists
    <3>3. LinkedOnce'
      BY <2>6, <3>1, <1>2 DEF LinkedOnce
    <3>4. Listed(ready') \intersect Suspended' = {}
      BY <2>2, <2>6, <1>2
    <3>5. fault' # "none"
      BY <2>6
    <3> QED
      BY <2>3, <3>1, <3>2, <3>3, <3>4, <3>5, <1>3 DEF ListsInv
  <2> QED
    BY <2>4, <2>5, <2>6, <1>1, <1>4
<1> QED
  BY <1>1, <1>4, <1>5

-----------------------------------------------------------------------------
(* The rest of the invariant.  CntMod, MaxTick and LateTicks bound the     *)
(* counters.                                                               *)

TypeOfRest == TypeOfTCBs /\ TypeOfSwitch /\ TypeOfTick

CursorInv == cursor \in created \union {NoTask}

(* The node behind a linked task is a created task or none.                *)
LEMMA NextNodeCreated ==
    ASSUME NEW S, NEW s \in Seq(S), NEW t \in Listed(s), NEW none
    PROVE  NextNode(s, t, none) \in Listed(s) \union {none}
<1>1. Position(s, t) \in 1 .. Len(s)
  BY PositionFacts
<1>2. Position(s, t) # Len(s) => Position(s, t) + 1 \in 1 .. Len(s)
  BY <1>1
<1> QED
  BY <1>2, ListedFacts DEF NextNode

LEMMA CursorNextCreated ==
    ASSUME Inv, fault = "none", Visiting
    PROVE  CursorNext \in created \union {NoTask}
<1>1. cursor \in Listed(wait) \/ cursor \in Listed(ready)
  BY BGIsReady DEF Inv, Visiting
<1> QED
  BY <1>1, ListsTyped, NextNodeCreated DEF CursorNext

(* The head of a ready list that is not empty is a task.                   *)
LEMMA HeadIsTask ==
    ASSUME NEW s \in Seq(AllTasks), s # << >>
    PROVE  Head(s) \in AllTasks
OBVIOUS

LEMMA PreemptTyped ==
    ASSUME Inv, fault = "none", ready' \in Seq(AllTasks), ready' # << >>,
           fault' \in {"none", "handler"}, PreemptIfHeadChanged
    PROVE  TypeOfSwitch'
<1>1. Head(ready') \in AllTasks
  BY HeadIsTask
<1>2. /\ next' \in AllTasks \union {NoTask}
      /\ pend' \in BOOLEAN
      /\ UNCHANGED <<current, late, started>>
  BY <1>1 DEF PreemptIfHeadChanged, SwitchTo, Inv, TypeOK, TypeOfSwitch
<1> QED
  BY <1>2 DEF Inv, TypeOK, TypeOfSwitch

LEMMA FlagsTyped ==
    ASSUME TypeOfTCBs, NEW t, NEW F,
           t \in AllTasks => F \subseteq CheckBits \union ResourceBits,
           flags' = [flags EXCEPT ![t] = F]
    PROVE  flags' \in [AllTasks -> SUBSET (CheckBits \union ResourceBits)]
BY DEF TypeOfTCBs

LEMMA BitsAreFlags ==
    ASSUME NEW k \in Kinds
    PROVE  BitsOf[k] \subseteq ResourceBits
BY DEF Kinds, BitsOf, ResourceBits

LEMMA FlagsOfTyped ==
    ASSUME TypeOfTCBs, NEW t \in AllTasks
    PROVE  flags[t] \subseteq CheckBits \union ResourceBits
BY DEF TypeOfTCBs

(* A sleep that only sets flags, counter and lists.                        *)
LEMMA SleepTyped ==
    ASSUME Inv, NEW p \in 0 .. CntMod - 1, GoToSleep(p),
           NEW F \in SUBSET (CheckBits \union ResourceBits),
           flags' = [flags EXCEPT ![current] = @ \union F],
           resource' \in [AllTasks -> Resources \union {NoRes}],
           UNCHANGED <<wakeReason, priority, tickVars>>
    PROVE  TypeOfTCBs' /\ TypeOfSwitch' /\ TypeOfTick'
<1>1. TypeOfTCBs'
  <2>1. flags' \in [AllTasks -> SUBSET (CheckBits \union ResourceBits)]
    <3>1. current \in AllTasks =>
             flags[current] \union F \subseteq CheckBits \union ResourceBits
      BY FlagsOfTyped DEF Inv, TypeOK
    <3> QED
      BY <3>1, FlagsTyped DEF Inv, TypeOK
  <2>2. sleepCntr' \in [AllTasks -> 0 .. CntMod - 1]
    BY DEF GoToSleep, Inv, TypeOK, TypeOfTCBs
  <2> QED
    BY <2>1, <2>2 DEF Inv, TypeOK, TypeOfTCBs
<1>2. TypeOfSwitch'
  <2>1. /\ fault = "none"
        /\ ready' = Tail(ready)
        /\ \/ fault' = "null" /\ UNCHANGED <<next, pend>>
           \/ /\ ready' # << >>
              /\ fault' = fault /\ next' = Head(ready') /\ pend' = TRUE
        /\ UNCHANGED <<current, late, started>>
    BY DEF GoToSleep, TaskRuns, SetNextReadyTaskToRun, SwitchTo
  <2>2. ready' \in Seq(AllTasks)
    BY <2>1, ListsTyped, BGIsReady, TailFacts
  <2>3. ready' # << >> => Head(ready') \in AllTasks
    BY <2>2, HeadIsTask
  <2> QED
    BY <2>1, <2>3, Zenon DEF Inv, TypeOK, TypeOfSwitch
<1>3. TypeOfTick'
  BY DEF tickVars, Inv, TypeOK, TypeOfTick
<1> QED
  BY <1>1, <1>2, <1>3

(* taskWake, for itself or for a resource.                                 *)
LEMMA WakeTyped ==
    ASSUME Inv, NEW t \in Tasks, MayWake(t), MakeReady(t),
           PreemptIfHeadChanged,
           NEW F \in SUBSET flags[t], SUSPENDED \notin F,
           flags' = [flags EXCEPT ![t] = F],
           resource' \in [AllTasks -> Resources \union {NoRes}],
           wakeReason' \in [AllTasks -> Reasons],
           fault' \in {"none", "handler"},
           UNCHANGED <<priority, tickVars>>
    PROVE  Inv'
<1>1. fault = "none" /\ t \in Listed(wait) /\ t \in AllTasks
  BY DEF MayWake, InterruptRuns, AllTasks
<1>2. Suspended' = Suspended \ {t}
  BY <1>1 DEF Suspended, Inv, TypeOK, TypeOfTCBs
<1>3. TypeOfLists' /\ PrioritiesInv' /\ ListsInv'
  BY <1>1, <1>2, ListsMadeReady
<1>4. TypeOfTCBs'
  <2>1. flags' \in [AllTasks -> SUBSET (CheckBits \union ResourceBits)]
    BY <1>1, FlagsOfTyped, FlagsTyped DEF Inv, TypeOK
  <2>2. sleepCntr' \in [AllTasks -> 0 .. CntMod - 1]
    <3>1. 0 \in 0 .. CntMod - 1
      BY TickAssumption
    <3> QED
      BY <3>1 DEF MakeReady, Inv, TypeOK, TypeOfTCBs
  <2> QED
    BY <2>1, <2>2 DEF Inv, TypeOK, TypeOfTCBs
<1>5. TypeOfSwitch'
  BY <1>1, MakeReadyLists, PreemptTyped
<1>6. TypeOfTick'
  BY DEF tickVars, Inv, TypeOK, TypeOfTick
<1>7. (cursor \in created \union {NoTask})'
  BY DEF tickVars, MakeReady, Inv
<1> QED
  BY <1>3, <1>4, <1>5, <1>6, <1>7 DEF Inv, TypeOK

LEMMA TimeoutTyped ==
    ASSUME Inv, fault = "none", NEW t \in AllTasks, TaskSleepTimeoutHandler(t)
    PROVE  /\ resource' \in [AllTasks -> Resources \union {NoRes}]
           /\ fault' \in {"none", "handler"}
BY DEF TaskSleepTimeoutHandler, Inv, TypeOK, TypeOfTCBs

-----------------------------------------------------------------------------
(* Every step preserves the invariant.                                     *)

LEMMA CreateTaskInv ==
    ASSUME Inv, NEW t \in Tasks, CreateTask(t)
    PROVE  Inv'
<1>1. fault = "none" /\ t \in AllTasks
  BY DEF CreateTask, AllTasks
<1>2. TypeOfLists' /\ PrioritiesInv' /\ ListsInv'
  BY <1>1, ListsCreated
<1>3. TypeOfTCBs'
  BY <1>1, TaskAssumption DEF CreateTask, Inv, TypeOK, TypeOfTCBs
<1>4. TypeOfSwitch' /\ TypeOfTick'
  BY DEF CreateTask, switchVars, tickVars, Inv, TypeOK, TypeOfSwitch, TypeOfTick
<1>5. (cursor \in created \union {NoTask})'
  BY DEF CreateTask, tickVars, Inv
<1> QED
  BY <1>2, <1>3, <1>4, <1>5 DEF Inv, TypeOK

LEMMA StartInv ==
    ASSUME Inv, Start
    PROVE  Inv'
<1>1. /\ fault = "none"
      /\ UNCHANGED <<ready, wait, created, priority, flags>>
  BY DEF Start, listVars
<1>2. TypeOfLists' /\ PrioritiesInv' /\ ListsInv'
  BY <1>1, ListsUnchanged DEF Suspended
<1>3. TypeOfTCBs'
  BY DEF Start, Inv, TypeOK, TypeOfTCBs
<1>4. TypeOfSwitch'
  <2>1. Head(ready) \in AllTasks
    BY <1>1, ListsTyped, BGIsReady, HeadIsTask
  <2> QED
    BY <2>1, Zenon DEF Start, SwitchTo, Inv, TypeOK, TypeOfSwitch
<1>5. TypeOfTick' /\ (cursor \in created \union {NoTask})'
  BY <1>1 DEF Start, tickVars, Inv, TypeOK, TypeOfTick
<1> QED
  BY <1>2, <1>3, <1>4, <1>5 DEF Inv, TypeOK

LEMMA DispatchInv ==
    ASSUME Inv, Dispatch
    PROVE  Inv'
<1>1. /\ fault = "none"
      /\ UNCHANGED <<ready, wait, created, priority, flags>>
  BY DEF Dispatch, listVars
<1>2. TypeOfLists' /\ PrioritiesInv' /\ ListsInv'
  BY <1>1, ListsUnchanged DEF Suspended
<1>3. TypeOfTCBs'
  BY DEF Dispatch, Inv, TypeOK, TypeOfTCBs
<1>4. TypeOfSwitch'
  <2>1. 0 \in 0 .. LateTicks
    BY TickAssumption
  <2> QED
    BY <2>1, Zenon DEF Dispatch, Inv, TypeOK, TypeOfSwitch
<1>5. TypeOfTick' /\ (cursor \in created \union {NoTask})'
  BY <1>1 DEF Dispatch, tickVars, Inv, TypeOK, TypeOfTick
<1> QED
  BY <1>2, <1>3, <1>4, <1>5 DEF Inv, TypeOK

LEMMA TaskSleepInv ==
    ASSUME Inv, NEW p \in Periods, TaskSleep(p)
    PROVE  Inv'
<1>1. /\ fault = "none"
      /\ GoToSleep(p)
      /\ SetNextReadyTaskToRun
      /\ flags' = [flags EXCEPT ![current] = @ \union {SLEEP}]
      /\ UNCHANGED <<resource, wakeReason, priority, tickVars>>
  BY DEF TaskSleep, GoToSleep, TaskRuns
<1>2. Suspended' = Suspended
  BY <1>1 DEF Suspended, SLEEP, SUSPENDED, Inv, TypeOK, TypeOfTCBs
<1>3. TypeOfLists' /\ PrioritiesInv' /\ ListsInv'
  BY <1>1, <1>2, ListsSlept
<1>4. TypeOfTCBs' /\ TypeOfSwitch' /\ TypeOfTick'
  <2>1. p \in 0 .. CntMod - 1 /\ {SLEEP} \subseteq CheckBits \union ResourceBits
    BY TickAssumption DEF CheckBits
  <2>2. resource' \in [AllTasks -> Resources \union {NoRes}]
    BY <1>1 DEF Inv, TypeOK, TypeOfTCBs
  <2> QED
    BY <2>1, <2>2, <1>1, SleepTyped
<1>5. (cursor \in created \union {NoTask})'
  BY <1>1 DEF SetNextReadyTaskToRun, tickVars, Inv
<1> QED
  BY <1>3, <1>4, <1>5 DEF Inv, TypeOK

LEMMA TaskSleepSetFreqInv ==
    ASSUME Inv, NEW n \in WakeTimes, TaskSleepSetFreq(n)
    PROVE  Inv'
<1> DEFINE p == IF n > tickCntr THEN n - tickCntr ELSE (MaxTick - tickCntr) + n
<1>1. /\ fault = "none"
      /\ GoToSleep(p)
      /\ SetNextReadyTaskToRun
      /\ flags' = [flags EXCEPT ![current] = @ \union {SLEEP}]
      /\ UNCHANGED <<resource, wakeReason, priority, tickVars>>
  BY DEF TaskSleepSetFreq, GoToSleep, TaskRuns
<1>2. p \in 0 .. CntMod - 1
  <2>1. n \in 0 .. CntMod - 1 /\ tickCntr \in 0 .. MaxTick - 1
    BY TickAssumption DEF Inv, TypeOK, TypeOfTick
  <2> QED
    BY <2>1, TickAssumption
<1> HIDE DEF p
<1>3. Suspended' = Suspended
  BY <1>1 DEF Suspended, SLEEP, SUSPENDED, Inv, TypeOK, TypeOfTCBs
<1>4. TypeOfLists' /\ PrioritiesInv' /\ ListsInv'
  BY <1>1, <1>3, ListsSlept
<1>5. TypeOfTCBs' /\ TypeOfSwitch' /\ TypeOfTick'
  <2>1. {SLEEP} \subseteq CheckBits \union ResourceBits
    BY DEF CheckBits
  <2>2. resource' \in [AllTasks -> Resources \union {NoRes}]
    BY <1>1 DEF Inv, TypeOK, TypeOfTCBs
  <2> QED
    BY <2>1, <2>2, <1>1, <1>2, SleepTyped
<1>6. (cursor \in created \union {NoTask})'
  BY <1>1 DEF SetNextReadyTaskToRun, tickVars, Inv
<1> QED
  BY <1>4, <1>5, <1>6 DEF Inv, TypeOK

LEMMA SetReasonForSleepInv ==
    ASSUME Inv, NEW r \in Resources, NEW p \in Periods \ {0},
           SetReasonForSleep(r, p)
    PROVE  Inv'
<1> DEFINE F == BitsOf[KindOf[r]] \union {SLEEP}
<1>1. /\ fault = "none"
      /\ GoToSleep(p)
      /\ SetNextReadyTaskToRun
      /\ flags' = [flags EXCEPT ![current] = @ \union F]
      /\ resource' = [resource EXCEPT ![current] = r]
      /\ UNCHANGED <<wakeReason, priority, tickVars>>
  BY DEF SetReasonForSleep, GoToSleep, TaskRuns
<1>2. F \subseteq CheckBits \union ResourceBits /\ SUSPENDED \notin F
  <2>1. BitsOf[KindOf[r]] \subseteq ResourceBits
    BY BitsAreFlags, ResourceAssumption
  <2> QED
    BY <2>1 DEF CheckBits, ResourceBits, SLEEP, SUSPENDED
<1> HIDE DEF F
<1>3. Suspended' = Suspended
  BY <1>1, <1>2 DEF Suspended, Inv, TypeOK, TypeOfTCBs
<1>4. TypeOfLists' /\ PrioritiesInv' /\ ListsInv'
  BY <1>1, <1>3, ListsSlept
<1>5. TypeOfTCBs' /\ TypeOfSwitch' /\ TypeOfTick'
  <2>1. p \in 0 .. CntMod - 1
    BY TickAssumption
  <2>2. resource' \in [AllTasks -> Resources \union {NoRes}]
    BY <1>1 DEF Inv, TypeOK, TypeOfTCBs
  <2> QED
    BY <2>1, <2>2, <1>1, <1>2, SleepTyped
<1>6. (cursor \in created \union {NoTask})'
  BY <1>1 DEF SetNextReadyTaskToRun, tickVars, Inv
<1> QED
  BY <1>4, <1>5, <1>6 DEF Inv, TypeOK

LEMMA GetReasonForWakeupInv ==
    ASSUME Inv, GetReasonForWakeup
    PROVE  Inv'
<1>1. /\ fault = "none"
      /\ UNCHANGED <<ready, wait, created, priority, flags>>
  BY DEF GetReasonForWakeup, TaskRuns, listVars
<1>2. TypeOfLists' /\ PrioritiesInv' /\ ListsInv'
  BY <1>1, ListsUnchanged DEF Suspended
<1>3. TypeOfTCBs'
  BY DEF GetReasonForWakeup, Inv, TypeOK, TypeOfTCBs, Reasons
<1>4. TypeOfSwitch' /\ TypeOfTick' /\ (cursor \in created \union {NoTask})'
  BY <1>1 DEF GetReasonForWakeup, switchVars, tickVars, Inv, TypeOK,
              TypeOfSwitch, TypeOfTick
<1> QED
  BY <1>2, <1>3, <1>4 DEF Inv, TypeOK

LEMMA TaskSuspendInv ==
    ASSUME Inv, NEW t \in Tasks, TaskSuspend(t)
    PROVE  Inv'
<1>1. fault = "none" /\ t \in AllTasks
  BY DEF TaskSuspend, TaskRuns, AllTasks
<1>2. TypeOfLists' /\ PrioritiesInv' /\ ListsInv'
  BY <1>1, ListsSuspended
<1>3. TypeOfTCBs'
  <2>1. flags' \in [AllTasks -> SUBSET (CheckBits \union ResourceBits)]
    <3> DEFINE F == flags[t] \union {SUSPENDED}
    <3>1. flags' = flags \/ flags' = [flags EXCEPT ![t] = F]
      BY DEF TaskSuspend
    <3>2. F \subseteq CheckBits \union ResourceBits
      BY <1>1, FlagsOfTyped DEF CheckBits, Inv, TypeOK
    <3> HIDE DEF F
    <3> QED
      BY <3>1, <3>2, FlagsTyped DEF Inv, TypeOK, TypeOfTCBs
  <2> QED
    BY <2>1 DEF TaskSuspend, Inv, TypeOK, TypeOfTCBs
<1>4. TypeOfSwitch'
  <2>1. ready' \in Seq(AllTasks) /\ ready' # << >>
    <3>1. CASE ready' = ready
      BY <3>1, <1>1, ListsTyped, BGIsReady
    <3>2. CASE t \in Listed(ready) /\ ready' = Unlink(ready, t)
      <4>1. t # BG
        BY DEF TaskSuspend
      <4> QED
        BY <4>1, <3>2, <1>1, ListsTyped, BGIsReady, UnlinkFacts
    <3> QED
      BY <3>1, <3>2 DEF TaskSuspend
  <2>2. Head(ready') \in AllTasks
    BY <2>1, HeadIsTask
  <2>3. fault' \in {"none", "links"}
    BY <1>1 DEF TaskSuspend
  <2>4. /\ next' \in AllTasks \union {NoTask}
        /\ pend' \in BOOLEAN
        /\ UNCHANGED <<current, late, started>>
    BY <2>2, Zenon DEF TaskSuspend, SwitchTo, Inv, TypeOK, TypeOfSwitch
  <2> QED
    BY <2>3, <2>4 DEF Inv, TypeOK, TypeOfSwitch
<1>5. TypeOfTick' /\ (cursor \in created \union {NoTask})'
  BY DEF TaskSuspend, tickVars, Inv, TypeOK, TypeOfTick
<1> QED
  BY <1>2, <1>3, <1>4, <1>5 DEF Inv, TypeOK

LEMMA TaskWakeInv ==
    ASSUME Inv, NEW t \in Tasks, TaskWake(t)
    PROVE  Inv'
<1> DEFINE F == flags[t] \ CheckBits
<1>1. /\ MayWake(t) /\ MakeReady(t) /\ PreemptIfHeadChanged
      /\ fault = "none" /\ t \in AllTasks
      /\ TaskSleepTimeoutHandler(t) \/ UNCHANGED <<resource, fault>>
      /\ flags' = [flags EXCEPT ![t] = F]
      /\ UNCHANGED <<wakeReason, priority, tickVars>>
  BY DEF TaskWake, MayWake, InterruptRuns, AllTasks
<1>2. /\ resource' \in [AllTasks -> Resources \union {NoRes}]
      /\ fault' \in {"none", "handler"}
  BY <1>1, TimeoutTyped DEF Inv, TypeOK, TypeOfTCBs
<1>3. wakeReason' \in [AllTasks -> Reasons]
  BY <1>1 DEF Inv, TypeOK, TypeOfTCBs
<1>4. F \subseteq flags[t] /\ SUSPENDED \notin F
  BY DEF CheckBits
<1> HIDE DEF F
<1> QED
  BY <1>1, <1>2, <1>3, <1>4, WakeTyped

LEMMA WakeFromResourceInv ==
    ASSUME Inv, NEW t \in Tasks, WakeFromResource(t)
    PROVE  Inv'
<1> DEFINE k == KindOf[resource[t]]
           F == (flags[t] \ BitsOf[k]) \ CheckBits
<1>1. /\ MayWake(t) /\ MakeReady(t) /\ PreemptIfHeadChanged
      /\ resource[t] # NoRes
      /\ fault = "none" /\ t \in AllTasks
      /\ resource' = [resource EXCEPT ![t] = NoRes]
      /\ flags' = [flags EXCEPT ![t] = F]
      /\ wakeReason' = [wakeReason EXCEPT ![t] = k]
      /\ UNCHANGED <<priority, tickVars, fault>>
  BY DEF WakeFromResource, MayWake, InterruptRuns, AllTasks
<1>2. k \in Reasons
  <2>1. resource[t] \in Resources
    BY <1>1 DEF Inv, TypeOK, TypeOfTCBs
  <2> QED
    BY <2>1, ResourceAssumption DEF Reasons
<1>3. F \subseteq flags[t] /\ SUSPENDED \notin F
  BY DEF CheckBits
<1> HIDE DEF F, k
<1>4. resource' \in [AllTasks -> Resources \union {NoRes}]
  BY <1>1 DEF Inv, TypeOK, TypeOfTCBs
<1>5. wakeReason' \in [AllTasks -> Reasons]
  BY <1>1, <1>2 DEF Inv, TypeOK, TypeOfTCBs
<1>6. fault' \in {"none", "handler"}
  BY <1>1
<1> QED
  BY <1>1, <1>3, <1>4, <1>5, <1>6, WakeTyped

LEMMA WrongListUnlinkedInv ==
    ASSUME Inv, NEW t \in Tasks, WrongListUnlinked(t)
    PROVE  Inv'
<1>1. /\ fault = "none"
      /\ UNCHANGED <<ready, wait, created, priority, flags>>
  BY DEF WrongListUnlinked, InterruptRuns, listVars
<1>2. TypeOfLists' /\ PrioritiesInv' /\ ListsInv'
  BY <1>1, ListsUnchanged DEF Suspended
<1>3. TypeOfTCBs'
  BY DEF WrongListUnlinked, Inv, TypeOK, TypeOfTCBs
<1>4. TypeOfSwitch' /\ TypeOfTick' /\ (cursor \in created \union {NoTask})'
  BY <1>1 DEF WrongListUnlinked, switchVars, tickVars, Inv, TypeOK,
              TypeOfSwitch, TypeOfTick
<1> QED
  BY <1>2, <1>3, <1>4 DEF Inv, TypeOK

LEMMA SetNewPriorityInv ==
    ASSUME Inv, NEW t \in Tasks, NEW p \in Priorities, SetNewPriority(t, p)
    PROVE  Inv'
<1>1. fault = "none" /\ t \in AllTasks
  BY DEF SetNewPriority, AllTasks
<1>2. TypeOfLists' /\ PrioritiesInv' /\ ListsInv'
  BY <1>1, ListsReordered
<1>3. TypeOfTCBs'
  BY TaskAssumption DEF SetNewPriority, Inv, TypeOK, TypeOfTCBs
<1>4. TypeOfSwitch'
  <2>1. fault' = "none"
    BY <1>1 DEF SetNewPriority
  <2>2. CASE UNCHANGED <<ready, switchVars>>
    BY <2>1, <2>2 DEF switchVars, Inv, TypeOK, TypeOfSwitch
  <2>3. CASE PreemptIfHeadChanged
    <3>1. ready' \in Seq(AllTasks) /\ ready' # << >>
      <4>1. created' \subseteq AllTasks /\ ready' \in Seq(created')
        BY <1>2 DEF TypeOfLists
      <4>2. ready' # << >>
        BY <2>1, <1>2 DEF ListsInv, SoundLists
      <4> QED
        BY <4>1, <4>2
    <3> QED
      BY <2>1, <2>3, <3>1, <1>1, PreemptTyped
  <2> QED
    BY <2>2, <2>3 DEF SetNewPriority
<1>5. TypeOfTick' /\ (cursor \in created \union {NoTask})'
  BY DEF SetNewPriority, tickVars, Inv, TypeOK, TypeOfTick
<1> QED
  BY <1>2, <1>3, <1>4, <1>5 DEF Inv, TypeOK

LEMMA TickStartInv ==
    ASSUME Inv, TickStart
    PROVE  Inv'
<1>1. /\ fault = "none"
      /\ UNCHANGED <<ready, wait, created, priority, flags>>
      /\ UNCHANGED <<current, next, pend, started, fault>>
  BY DEF TickStart, listVars
<1>2. TypeOfLists' /\ PrioritiesInv' /\ ListsInv'
  BY <1>1, ListsUnchanged DEF Suspended
<1>3. TypeOfTCBs'
  BY DEF TickStart, Inv, TypeOK, TypeOfTCBs
<1>4. TypeOfSwitch'
  <2>1. late' \in 0 .. LateTicks
    BY TickAssumption DEF TickStart, Inv, TypeOK, TypeOfSwitch
  <2> QED
    BY <2>1, <1>1 DEF Inv, TypeOK, TypeOfSwitch
<1>5. (cursor \in created \union {NoTask})'
  <2>1. wait # << >> => Head(wait) \in created
    BY DEF Inv, TypeOK, TypeOfLists
  <2> QED
    BY <2>1, <1>1 DEF TickStart, Inv
<1>6. TypeOfTick'
  <2>1. tickCntr' \in 0 .. MaxTick - 1
    BY TickAssumption DEF TickStart, Inv, TypeOK, TypeOfTick
  <2>2. inTick' \in BOOLEAN
    BY DEF TickStart, Inv, TypeOK, TypeOfTick
  <2>3. cursor' \in AllTasks \union {NoTask}
    BY <1>1, <1>5, ListsTyped
  <2> QED
    BY <2>1, <2>2, <2>3 DEF TypeOfTick
<1> QED
  BY <1>2, <1>3, <1>4, <1>5, <1>6 DEF Inv, TypeOK

LEMMA TickMeetsSuspendedInv ==
    ASSUME Inv, TickMeetsSuspended
    PROVE  Inv'
<1>1. /\ fault = "none"
      /\ UNCHANGED <<ready, wait, created, priority, flags>>
  BY DEF TickMeetsSuspended, Visiting, listVars
<1>2. TypeOfLists' /\ PrioritiesInv' /\ ListsInv'
  BY <1>1, ListsUnchanged DEF Suspended
<1>3. TypeOfTCBs'
  BY DEF TickMeetsSuspended, Inv, TypeOK, TypeOfTCBs
<1>4. TypeOfSwitch' /\ TypeOfTick' /\ (cursor \in created \union {NoTask})'
  BY <1>1 DEF TickMeetsSuspended, switchVars, Inv, TypeOK, TypeOfSwitch,
              TypeOfTick
<1> QED
  BY <1>2, <1>3, <1>4 DEF Inv, TypeOK

LEMMA TickCountsDownInv ==
    ASSUME Inv, TickCountsDown
    PROVE  Inv'
<1>1. /\ fault = "none" /\ Visiting
      /\ cursor' = CursorNext
      /\ UNCHANGED <<ready, wait, created, priority, flags>>
      /\ UNCHANGED <<current, next, pend, late, started, fault>>
      /\ UNCHANGED <<tickCntr, inTick>>
  BY DEF TickCountsDown, Visiting, listVars, switchVars
<1>2. TypeOfLists' /\ PrioritiesInv' /\ ListsInv'
  BY <1>1, ListsUnchanged DEF Suspended
<1>3. TypeOfTCBs'
  <2>1. cursor \in AllTasks
    BY <1>1, ListsTyped DEF Visiting, Inv
  <2>2. sleepCntr[cursor] \in 0 .. CntMod - 1
    BY <2>1 DEF Inv, TypeOK, TypeOfTCBs
  <2>3. (sleepCntr[cursor] - 1) % CntMod \in 0 .. CntMod - 1
    BY <2>2, TickAssumption
  <2>4. sleepCntr' \in [AllTasks -> 0 .. CntMod - 1]
    BY <2>1, <2>3 DEF TickCountsDown, Inv, TypeOK, TypeOfTCBs
  <2> QED
    BY <2>4 DEF TickCountsDown, Inv, TypeOK, TypeOfTCBs
<1>4. TypeOfSwitch'
  BY <1>1 DEF Inv, TypeOK, TypeOfSwitch
<1>5. (cursor \in created \union {NoTask})'
  BY <1>1, CursorNextCreated
<1>6. TypeOfTick'
  BY <1>1, <1>5, ListsTyped DEF Inv, TypeOK, TypeOfTick
<1> QED
  BY <1>2, <1>3, <1>4, <1>5, <1>6 DEF Inv, TypeOK

LEMMA TickWakesInv ==
    ASSUME Inv, TickWakes
    PROVE  Inv'
<1> DEFINE t == cursor
           F == flags[cursor] \ ({SLEEP} \union ResourceBits)
<1>1. /\ fault = "none" /\ Visiting
      /\ t \in Listed(wait) /\ t \notin Suspended
      /\ TaskSleepTimeoutHandler(t)
      /\ MakeReady(t)
      /\ flags' = [flags EXCEPT ![t] = F]
      /\ wakeReason' = [wakeReason EXCEPT ![t] = "timeout"]
      /\ cursor' = CursorNext
      /\ UNCHANGED <<priority, current, next, pend, late, started>>
      /\ UNCHANGED <<tickCntr, inTick>>
  BY DEF TickWakes, Visiting, switchVars, Suspended
<1>2. t \in AllTasks
  BY <1>1, ListsTyped
<1>3. F \subseteq flags[t]
  OBVIOUS
<1> HIDE DEF F, t
<1>4. Suspended' = Suspended \ {t}
  BY <1>1, <1>2, <1>3 DEF Suspended, Inv, TypeOK, TypeOfTCBs
<1>5. TypeOfLists' /\ PrioritiesInv' /\ ListsInv'
  BY <1>1, <1>4, ListsMadeReady
<1>6. /\ resource' \in [AllTasks -> Resources \union {NoRes}]
      /\ fault' \in {"none", "handler"}
  BY <1>1, <1>2, TimeoutTyped
<1>7. TypeOfTCBs'
  <2>1. flags' \in [AllTasks -> SUBSET (CheckBits \union ResourceBits)]
    BY <1>1, <1>2, <1>3, FlagsOfTyped, FlagsTyped DEF Inv, TypeOK
  <2>2. sleepCntr' \in [AllTasks -> 0 .. CntMod - 1]
    <3>1. 0 \in 0 .. CntMod - 1
      BY TickAssumption
    <3> QED
      BY <3>1, <1>1 DEF MakeReady, Inv, TypeOK, TypeOfTCBs
  <2>3. wakeReason' \in [AllTasks -> Reasons]
    BY <1>1 DEF Reasons, Inv, TypeOK, TypeOfTCBs
  <2> QED
    BY <2>1, <2>2, <2>3, <1>1, <1>6 DEF Inv, TypeOK, TypeOfTCBs
<1>8. TypeOfSwitch'
  BY <1>1, <1>6 DEF Inv, TypeOK, TypeOfSwitch
<1>9. (cursor \in created \union {NoTask})'
  BY <1>1, CursorNextCreated DEF MakeReady
<1>10. TypeOfTick'
  <2>1. created' = created
    BY <1>1 DEF MakeReady
  <2> QED
    BY <2>1, <1>1, <1>9, ListsTyped DEF Inv, TypeOK, TypeOfTick
<1> QED
  BY <1>5, <1>7, <1>8, <1>9, <1>10 DEF Inv, TypeOK

LEMMA TickMislinksInv ==
    ASSUME Inv, TickMislinks
    PROVE  Inv'
<1>1. /\ fault = "none"
      /\ UNCHANGED <<ready, wait, created, priority, flags>>
  BY DEF TickMislinks, Visiting, listVars
<1>2. TypeOfLists' /\ PrioritiesInv' /\ ListsInv'
  BY <1>1, ListsUnchanged DEF Suspended
<1>3. TypeOfTCBs'
  BY DEF TickMislinks, Inv, TypeOK, TypeOfTCBs
<1>4. TypeOfSwitch' /\ TypeOfTick' /\ (cursor \in created \union {NoTask})'
  BY <1>1 DEF TickMislinks, switchVars, tickVars, Inv, TypeOK,
              TypeOfSwitch, TypeOfTick
<1> QED
  BY <1>2, <1>3, <1>4 DEF Inv, TypeOK

LEMMA TickEndInv ==
    ASSUME Inv, TickEnd
    PROVE  Inv'
<1>1. /\ fault = "none" /\ fault' = "none"
      /\ UNCHANGED <<ready, wait, created, priority, flags>>
      /\ PreemptIfHeadChanged
  BY DEF TickEnd
<1>2. TypeOfLists' /\ PrioritiesInv' /\ ListsInv'
  BY <1>1, ListsUnchanged DEF Suspended
<1>3. TypeOfTCBs'
  BY DEF TickEnd, Inv, TypeOK, TypeOfTCBs
<1>4. TypeOfSwitch'
  <2>1. ready' \in Seq(AllTasks) /\ ready' # << >>
    BY <1>1, ListsTyped, BGIsReady
  <2> QED
    BY <2>1, <1>1, PreemptTyped
<1>5. TypeOfTick' /\ (cursor \in created \union {NoTask})'
  BY <1>1 DEF TickEnd, Inv, TypeOK, TypeOfTick
<1> QED
  BY <1>2, <1>3, <1>4, <1>5 DEF Inv, TypeOK

LEMMA StutterInv ==
    ASSUME Inv, UNCHANGED vars
    PROVE  Inv'
BY DEF vars, listVars, switchVars, tickVars, Inv, TypeOK, TypeOfLists,
       TypeOfTCBs, TypeOfSwitch, TypeOfTick, PrioritiesInv, ListsInv,
       LinkedOnce, SoundLists, Suspended

LEMMA NextInv ==
    ASSUME Inv, [Next]_vars
    PROVE  Inv'
<1>1. CASE Next
  <2>1. ASSUME NEW t \in Tasks,
               \/ CreateTask(t) \/ TaskSuspend(t) \/ TaskWake(t)
               \/ WakeFromResource(t) \/ WrongListUnlinked(t)
        PROVE  Inv'
    BY <2>1, CreateTaskInv, TaskSuspendInv, TaskWakeInv, WakeFromResourceInv,
       WrongListUnlinkedInv
  <2>2. ASSUME NEW t \in Tasks, NEW p \in Priorities, SetNewPriority(t, p)
        PROVE  Inv'
    BY <2>2, SetNewPriorityInv
  <2>3. ASSUME NEW p \in Periods, TaskSleep(p)
        PROVE  Inv'
    BY <2>3, TaskSleepInv
  <2>4. ASSUME NEW n \in WakeTimes, TaskSleepSetFreq(n)
        PROVE  Inv'
    BY <2>4, TaskSleepSetFreqInv
  <2>5. ASSUME NEW r \in Resources, NEW p \in Periods \ {0},
               SetReasonForSleep(r, p)
        PROVE  Inv'
    BY <2>5, SetReasonForSleepInv
  <2>6. CASE Start \/ Dispatch \/ GetReasonForWakeup
    BY <2>6, StartInv, DispatchInv, GetReasonForWakeupInv
  <2>7. CASE TickStart \/ TickVisit \/ TickEnd
    BY <2>7, TickStartInv, TickMeetsSuspendedInv, TickCountsDownInv,
       TickWakesInv, TickMislinksInv, TickEndInv DEF TickVisit
  <2> QED
    BY <1>1, <2>1, <2>2, <2>3, <2>4, <2>5, <2>6, <2>7 DEF Next, NonTick
<1> QED
  BY <1>1, StutterInv

LEMMA SpecInv == Spec => []Inv
<1>1. Inv /\ [Next]_vars => Inv'
  BY NextInv
<1> QED
  BY InitInv, <1>1, PTL DEF Spec

-----------------------------------------------------------------------------
(* Whatever calls tasks and interrupts make, and in whatever order with    *)
(* ticks and switches, every variable keeps its range: lists hold created  *)
(* tasks only, no counter leaves its width and no flag bit is unknown.     *)
THEOREM TypeCorrect == Spec => []TypeOK
<1>1. Inv => TypeOK
  BY DEF Inv
<1> QED
  BY SpecInv, <1>1, PTL

(* As long as no link went wrong, no sequence of calls links a task twice, *)
(* on one list or on both.  A link goes wrong where an interrupt moves     *)
(* nodes while the tick relinks the one it visits (sch.c:844-861), where   *)
(* the head of the wait list is suspended, and where flags or walk lead to *)
(* the wrong list (TickMislinks, TaskSuspend, WrongListUnlinked).          *)
THEOREM TasksLinkedOnce == Spec => [](fault # "links" => LinkedOnce)
<1>1. Inv => (fault # "links" => LinkedOnce)
  BY DEF Inv, ListsInv
<1> QED
  BY SpecInv, <1>1, PTL

(* As long as no link went wrong, as above, suspended tasks are at the end *)
(* of the wait list, so the tick may stop its walk at the first one and    *)
(* still visit every sleeper (sch.c:833), however sleeps, suspensions and  *)
(* wake-ups alternate, those between two nodes of the walk included.       *)
THEOREM SuspendedAtEnd == Spec => [](fault # "links" => SuspendedLast)
<1>1. Inv => (fault # "links" => SuspendedLast)
  <2> SUFFICES ASSUME Inv PROVE SuspendedLast
    OBVIOUS
  <2>1. \A i \in DOMAIN wait : wait[i] \in AllTasks
    BY ListsTyped
  <2>2. AtEnd(wait, Suspended)
    BY ListsTyped
  <2> QED
    BY <2>1, <2>2 DEF AtEnd, SuspendedLast, Suspended
<1> QED
  BY SpecInv, <1>1, PTL

-----------------------------------------------------------------------------
(***************************************************************************)
(* Scheduler when the environment keeps its usage rules.                   *)
(***************************************************************************)

(* Five of the seven rules are all that the lists and the switches need: a *)
(* more urgent interrupt may call the OS between two nodes of the tick's   *)
(* walk, and a blocked task may be woken.  What the five exclude: a sleep  *)
(* as short as the ticks before PendSV; an interrupt that wakes the task   *)
(* being switched out, or raises it above its successor; an interrupt      *)
(* while the tick wakes the node it visits; the suspension of the first    *)
(* waiting task; and a task created at run time.                           *)
RulesKept == Relaxed \subseteq {"isr_in_tick", "wake_blocked"}

(***************************************************************************)
(* The strengthening.  That the flags of a task tell its list depends on   *)
(* who is at the head of the ready list when a task goes to sleep; that    *)
(* the running task is there depends on where the last switch went; that   *)
(* this switch was still right when it was taken depends on the task that  *)
(* is being switched out not being back at the head by then; and that it   *)
(* is not, on the ticks it still has to sleep.                             *)
(***************************************************************************)

FlagsInv ==
    /\ FlagsTellList
    /\ \A t \in AllTasks \ created : flags[t] = {}

ListRules ==
    /\ SoundLists
    /\ FlagsInv
    /\ SortedByPrio(ready, priority)

SwitchInv ==
    /\ ~started => current = NoTask /\ ~pend /\ ~inTick
    /\ ~pend => late = 0
    /\ started /\ ~pend => current \in Listed(ready)
    /\ started /\ ~pend /\ ~inTick => current = Head(ready)
    /\ pend => current # Head(ready)
    /\ pend /\ ~inTick => next = Head(ready)

(* The waiting tasks that the tick in progress has not visited yet.        *)
ToVisit == IF inTick /\ cursor \in Listed(wait) THEN From(wait, cursor) ELSE {}

(* The task that is being switched out sleeps on until the switch is made, *)
(* whatever number of ticks still comes before that.                       *)
OutlastInv ==
    pend /\ current \in Listed(wait) /\ SUSPENDED \notin flags[current] =>
        \/ sleepCntr[current] = 0
        \/ /\ sleepCntr[current] + late > LateTicks
           /\ current \in ToVisit => sleepCntr[current] + late > LateTicks + 1

RuleInv ==
    /\ Inv
    /\ ListRules
    /\ SwitchInv
    /\ OutlastInv

-----------------------------------------------------------------------------
LEMMA RulesGive ==
    ASSUME RulesKept
    PROVE  /\ "short_sleep" \notin Relaxed
           /\ "late_wake" \notin Relaxed
           /\ "suspend_waiting" \notin Relaxed
           /\ "runtime_create" \notin Relaxed
BY DEF RulesKept

(* What the lists are, once they are known to be sound.                    *)
LEMMA ListsKnown ==
    ASSUME Inv, SoundLists
    PROVE  /\ ready \in Seq(AllTasks) /\ wait \in Seq(AllTasks)
           /\ IsInjective(ready) /\ IsInjective(wait)
           /\ Listed(ready) \intersect Listed(wait) = {}
           /\ Listed(ready) \union Listed(wait) = created
           /\ created \subseteq AllTasks
           /\ ready # << >> /\ Last(ready) = BG /\ BG \in Listed(ready)
           /\ NoTask \notin Listed(ready) /\ NoTask \notin Listed(wait)
           /\ Head(ready) \in Listed(ready)
           /\ priority \in [AllTasks -> Nat]
<1>1. /\ ready \in Seq(AllTasks) /\ wait \in Seq(AllTasks)
      /\ IsInjective(ready) /\ IsInjective(wait)
      /\ Listed(ready) \intersect Listed(wait) = {}
      /\ created \subseteq AllTasks
  BY ListsTyped
<1>2. ready # << >> /\ Last(ready) = BG /\ Listed(ready) \union Listed(wait) = created
  BY DEF SoundLists
<1>3. BG \in Listed(ready) /\ Head(ready) \in Listed(ready)
  BY <1>1, <1>2, ListedFacts DEF Last
<1>4. NoTask \notin AllTasks
  BY TaskAssumption
<1>5. priority \in [AllTasks -> Nat]
  BY DEF Inv, TypeOK, TypeOfTCBs
<1> QED
  BY <1>1, <1>2, <1>3, <1>4, <1>5

(* The same in the next state.                                             *)
LEMMA ListsKnownNext ==
    ASSUME Inv', SoundLists'
    PROVE  /\ ready' \in Seq(AllTasks) /\ wait' \in Seq(AllTasks)
           /\ IsInjective(ready') /\ IsInjective(wait')
           /\ Listed(ready') \intersect Listed(wait') = {}
           /\ Listed(ready') \union Listed(wait') = created'
           /\ ready' # << >>
           /\ NoTask \notin Listed(ready') /\ NoTask \notin Listed(wait')
           /\ Head(ready') \in Listed(ready')
<1>1. /\ created' \subseteq AllTasks
      /\ ready' \in Seq(created') /\ wait' \in Seq(created')
  BY DEF Inv, TypeOK, TypeOfLists
<1>2. ready' \in Seq(AllTasks) /\ wait' \in Seq(AllTasks)
  BY <1>1
<1>3. /\ IsInjective(ready') /\ IsInjective(wait')
      /\ Listed(ready') \intersect Listed(wait') = {}
  BY DEF Inv, ListsInv, LinkedOnce
<1>4. ready' # << >> /\ Listed(ready') \union Listed(wait') = created'
  BY DEF SoundLists
<1>5. Head(ready') \in Listed(ready')
  BY <1>2, <1>4, ListedFacts
<1>6. NoTask \notin AllTasks
  BY TaskAssumption
<1> QED
  BY <1>1, <1>2, <1>3, <1>4, <1>5, <1>6

(* A task that executes is at the head of the ready list, before the       *)
(* background task.                                                        *)
LEMMA RunningTask ==
    ASSUME RuleInv, TaskRuns
    PROVE  /\ fault = "none" /\ started /\ ~pend /\ ~inTick /\ late = 0
           /\ current = Head(ready) /\ current # BG
           /\ current \in Listed(ready) /\ current \notin Listed(wait)
           /\ current \in created /\ current \in Tasks
           /\ Tail(ready) # << >>
<1>1. /\ fault = "none" /\ started /\ ~pend /\ ~inTick /\ current # BG
  BY DEF TaskRuns
<1>2. current = Head(ready) /\ late = 0
  BY <1>1 DEF RuleInv, SwitchInv
<1>3. /\ ready \in Seq(AllTasks)
      /\ ready # << >> /\ Last(ready) = BG
      /\ Listed(ready) \intersect Listed(wait) = {}
      /\ Listed(ready) \union Listed(wait) = created
      /\ created \subseteq AllTasks
      /\ Head(ready) \in Listed(ready)
  BY ListsKnown DEF RuleInv, ListRules
<1>4. current \in Tasks
  BY <1>1, <1>2, <1>3 DEF AllTasks
<1>5. Tail(ready) # << >>
  BY <1>1, <1>2, <1>3, TailNotEmpty
<1> QED
  BY <1>1, <1>2, <1>3, <1>4, <1>5


-----------------------------------------------------------------------------
(* The lists, by what a step does to them.                                 *)

LEMMA RulesUnchanged ==
    ASSUME ListRules, UNCHANGED <<ready, wait, created, flags, priority>>
    PROVE  ListRules'
BY DEF ListRules, SoundLists, FlagsInv, FlagsTellList, SortedByPrio, Listed,
       Last

(* The flags of one task change, and it changes the list if they say so.   *)
LEMMA FlagsFollow ==
    ASSUME Inv, SoundLists, FlagsInv, SoundLists', created' = created,
           NEW t \in created, NEW F, flags' = [flags EXCEPT ![t] = F],
           t \in Listed(wait') <=> F \intersect CheckBits # {},
           \A x \in created \ {t} : x \in Listed(wait') <=> x \in Listed(wait)
    PROVE  FlagsInv'
<1>1. t \in AllTasks /\ created \subseteq AllTasks
  BY ListsKnown
<1>2. /\ flags'[t] = F
      /\ \A x \in AllTasks \ {t} : flags'[x] = flags[x]
  BY <1>1 DEF Inv, TypeOK, TypeOfTCBs
<1>3. ASSUME NEW x \in created
      PROVE  x \in Listed(wait') <=> flags'[x] \intersect CheckBits # {}
  <2>1. CASE x = t
    BY <2>1, <1>2
  <2>2. CASE x # t
    <3>1. flags'[x] = flags[x]
      BY <2>2, <1>1, <1>2
    <3>2. x \in Listed(wait) <=> flags[x] \intersect CheckBits # {}
      BY DEF FlagsInv, FlagsTellList
    <3> QED
      BY <2>2, <3>1, <3>2
  <2> QED
    BY <2>1, <2>2
<1>4. \A x \in AllTasks \ created : flags'[x] = {}
  BY <1>1, <1>2 DEF FlagsInv
<1> QED
  BY <1>3, <1>4 DEF FlagsInv, FlagsTellList

LEMMA RulesMadeReady ==
    ASSUME Inv, ListRules, fault = "none", NEW t \in Listed(wait),
           MakeReady(t), UNCHANGED priority,
           NEW F, F \intersect CheckBits = {},
           flags' = [flags EXCEPT ![t] = F]
    PROVE  /\ ListRules'
           /\ Head(ready') \in {t, Head(ready)}
<1>1. /\ ready \in Seq(AllTasks) /\ wait \in Seq(AllTasks)
      /\ Listed(ready) \intersect Listed(wait) = {}
      /\ Listed(ready) \union Listed(wait) = created
      /\ created \subseteq AllTasks
      /\ ready # << >> /\ Last(ready) = BG /\ BG \in Listed(ready)
      /\ priority \in [AllTasks -> Nat]
  BY ListsKnown DEF ListRules
<1>2. /\ t \in created \ {BG}
      /\ Listed(ready') = Listed(ready) \union {t}
      /\ Listed(wait') = Listed(wait) \ {t}
      /\ ready' # << >> /\ Last(ready') = BG
  BY MakeReadyLists
<1>3. created' = created /\ ready' = InsertByPrio(ready, t, priority)
  BY DEF MakeReady
<1>4. SoundLists'
  BY <1>1, <1>2, <1>3 DEF SoundLists
<1>5. FlagsInv'
  BY <1>2, <1>3, <1>4, FlagsFollow DEF ListRules
<1>6. priority[t] < priority[BG] /\ t \in AllTasks
  BY <1>1, <1>2 DEF Inv, PrioritiesInv
<1>7. CanInsert(ready, t, priority)
  BY <1>1, <1>6, Sentinel
<1>8. SortedByPrio(ready', priority)
  BY <1>1, <1>3, <1>6, <1>7, SortedInsert DEF ListRules
<1>9. Head(ready') \in {t, Head(ready)}
  BY <1>1, <1>3, <1>6, <1>7, HeadOfInsert
<1> QED
  BY <1>4, <1>5, <1>8, <1>9 DEF ListRules

LEMMA RulesSlept ==
    ASSUME RuleInv, TaskRuns, SetNextReadyTaskToRun, UNCHANGED priority,
           NEW F, SLEEP \in F,
           flags' = [flags EXCEPT ![current] = @ \union F]
    PROVE  /\ ListRules'
           /\ fault' = "none" /\ pend' /\ next' = Head(ready')
           /\ Listed(ready') = Listed(ready) \ {current}
           /\ current # Head(ready')
           /\ UNCHANGED <<current, late, started, created>>
<1>1. /\ ready \in Seq(AllTasks) /\ wait \in Seq(AllTasks)
      /\ IsInjective(ready) /\ IsInjective(wait)
      /\ Listed(ready) \intersect Listed(wait) = {}
      /\ Listed(ready) \union Listed(wait) = created
      /\ created \subseteq AllTasks
      /\ ready # << >> /\ Last(ready) = BG
  BY ListsKnown DEF RuleInv, ListRules
<1>2. /\ fault = "none" /\ current = Head(ready) /\ current \in created
      /\ Tail(ready) # << >> /\ current \notin Listed(wait)
  BY RunningTask
<1>3. /\ ready' = Tail(ready) /\ wait' = <<current>> \o wait
      /\ fault' = "none" /\ next' = Head(ready') /\ pend'
      /\ UNCHANGED <<current, late, started, created>>
  BY <1>2 DEF SetNextReadyTaskToRun, SwitchTo
<1>4. /\ ready' \in Seq(AllTasks)
      /\ Listed(ready') = Listed(ready) \ {current}
      /\ Last(ready') = BG
  BY <1>1, <1>2, <1>3, TailFacts
<1>5. Listed(wait') = Listed(wait) \union {current}
  BY <1>1, <1>2, <1>3, PrependFacts
<1>6. SoundLists'
  BY <1>1, <1>2, <1>3, <1>4, <1>5 DEF SoundLists
<1>7. FlagsInv'
  <2> DEFINE G == flags[current] \union F
  <2>1. G \intersect CheckBits # {}
    BY DEF CheckBits
  <2>2. flags' = [flags EXCEPT ![current] = G]
    OBVIOUS
  <2> HIDE DEF G
  <2> QED
    BY <1>2, <1>3, <1>5, <1>6, <2>1, <2>2, FlagsFollow DEF RuleInv, ListRules
<1>8. SortedByPrio(ready', priority')
  BY <1>1, <1>3, SortedTail DEF RuleInv, ListRules
<1>9. Head(ready') \in Listed(ready')
  <2>1. ready' # << >>
    BY <1>2, <1>3
  <2> QED
    BY <2>1, <1>4, HeadListed
<1> QED
  BY <1>3, <1>4, <1>6, <1>7, <1>8, <1>9 DEF ListRules

LEMMA RulesCreated ==
    ASSUME Inv, ListRules, NEW t \in Tasks, CreateTask(t)
    PROVE  ListRules'
<1>1. /\ t \in AllTasks \ created /\ fault = "none"
      /\ created' = created \union {t}
      /\ ready' = InsertByPrio(ready, t, priority')
      /\ priority' = [priority EXCEPT ![t] = BasePrio[t]]
      /\ UNCHANGED <<wait, flags, fault>>
  BY DEF CreateTask, AllTasks
<1>2. /\ ready \in Seq(AllTasks)
      /\ Listed(ready) \union Listed(wait) = created
      /\ created \subseteq AllTasks
      /\ ready # << >> /\ Last(ready) = BG
      /\ priority \in [AllTasks -> Nat]
  BY ListsKnown DEF ListRules
<1>3. SoundLists'
  BY <1>1, ListsCreated DEF ListsInv
<1>4. FlagsInv'
  <2>1. flags[t] = {} /\ t \notin Listed(wait)
    BY <1>1, <1>2 DEF ListRules, FlagsInv
  <2> QED
    BY <2>1, <1>1 DEF ListRules, FlagsInv, FlagsTellList
<1>5. /\ priority' \in [AllTasks -> Nat]
      /\ \A x \in Listed(ready) : priority'[x] = priority[x]
  BY <1>1, <1>2, TaskAssumption
<1>6. SortedByPrio(ready, priority')
  BY <1>2, <1>5, SortedSame DEF ListRules
<1>7. CanInsert(ready, t, priority')
  <2>1. priority'[t] < priority'[BG]
    <3>1. PrioritiesInv'
      BY <1>1, ListsCreated
    <3>2. t # BG
      BY TaskAssumption
    <3> QED
      BY <1>1, <3>1, <3>2 DEF PrioritiesInv
  <2> QED
    BY <2>1, <1>1, <1>2, <1>5, Sentinel
<1>8. SortedByPrio(ready', priority')
  BY <1>1, <1>2, <1>5, <1>6, <1>7, SortedInsert
<1> QED
  BY <1>3, <1>4, <1>8 DEF ListRules

LEMMA RulesReordered ==
    ASSUME Inv, ListRules, NEW t \in Tasks, NEW p \in Priorities,
           SetNewPriority(t, p)
    PROVE  /\ ListRules'
           /\ Listed(ready') = Listed(ready)
<1>1. /\ t \in created /\ t # BG /\ fault = "none"
      /\ priority' = [priority EXCEPT ![t] = p]
      /\ UNCHANGED <<wait, created, flags, fault>>
      /\ \/ flags[t] \intersect CheckBits # {} /\ ready' = ready
         \/ /\ t \in Listed(ready)
            /\ ready' = InsertByPrio(Unlink(ready, t), t, priority')
  BY DEF SetNewPriority
<1>2. /\ ready \in Seq(AllTasks) /\ IsInjective(ready)
      /\ Listed(ready) \intersect Listed(wait) = {}
      /\ Listed(ready) \union Listed(wait) = created
      /\ created \subseteq AllTasks
      /\ ready # << >> /\ Last(ready) = BG /\ BG \in Listed(ready)
      /\ priority \in [AllTasks -> Nat]
  BY ListsKnown DEF ListRules
<1>3. SoundLists'
  BY <1>1, ListsReordered DEF ListsInv
<1>4. FlagsInv'
  BY <1>1 DEF ListRules, FlagsInv, FlagsTellList
<1>5. /\ priority' \in [AllTasks -> Nat]
      /\ \A x \in AllTasks \ {t} : priority'[x] = priority[x]
  BY <1>1, <1>2, TaskAssumption
<1>6. CASE flags[t] \intersect CheckBits # {} /\ ready' = ready
  <2>1. t \notin Listed(ready)
    BY <1>1, <1>2, <1>6 DEF ListRules, FlagsInv, FlagsTellList
  <2>2. \A x \in Listed(ready) : priority'[x] = priority[x]
    BY <2>1, <1>2, <1>5
  <2>3. SortedByPrio(ready, priority')
    BY <2>2, <1>2, SortedSame DEF ListRules
  <2> QED
    BY <2>3, <1>3, <1>4, <1>6 DEF ListRules
<1>7. CASE /\ t \in Listed(ready)
           /\ ready' = InsertByPrio(Unlink(ready, t), t, priority')
  <2> DEFINE u == Unlink(ready, t)
  <2>1. /\ u \in Seq(AllTasks)
        /\ Listed(u) = Listed(ready) \ {t}
        /\ IsInjective(u)
        /\ u # << >> /\ Last(u) = BG
        /\ SortedByPrio(u, priority)
    BY <1>1, <1>2, <1>7, UnlinkFacts, SortedUnlink DEF ListRules
  <2>2. ready' = InsertByPrio(u, t, priority')
    BY <1>7
  <2> HIDE DEF u
  <2>3. t \in AllTasks /\ \A x \in Listed(u) : priority'[x] = priority[x]
    BY <1>1, <1>2, <1>5, <2>1
  <2>4. SortedByPrio(u, priority')
    BY <2>1, <2>3, SortedSame
  <2>5. priority'[t] < priority'[BG]
    BY <1>1, ListsReordered DEF PrioritiesInv
  <2>6. CanInsert(u, t, priority')
    BY <1>5, <2>1, <2>3, <2>5, Sentinel
  <2>7. SortedByPrio(ready', priority')
    BY <1>5, <2>1, <2>2, <2>3, <2>4, <2>6, SortedInsert
  <2>8. Listed(ready') = Listed(u) \union {t}
    BY <1>5, <2>1, <2>2, <2>3, <2>6, InsertByPrioFacts
  <2> QED
    BY <1>3, <1>4, <1>7, <2>1, <2>7, <2>8 DEF ListRules
<1> QED
  BY <1>1, <1>6, <1>7

LEMMA RulesSuspended ==
    ASSUME Inv, ListRules, RulesKept, NEW t \in Tasks, TaskSuspend(t)
    PROVE  /\ ListRules'
           /\ fault' = "none"
           /\ \/ ready' = ready
              \/ t \in Listed(ready) /\ ready' = Unlink(ready, t)
           /\ t = current /\ t \in Listed(ready) =>
                 /\ ready' = Unlink(ready, t)
                 /\ SUSPENDED \in flags'[t]
<1>1. /\ t \in created /\ t # BG /\ fault = "none"
      /\ UNCHANGED <<created, priority>>
      /\ \/ /\ UNCHANGED <<ready, wait, flags, fault>>
            /\ flags[t] \intersect CheckBits = {SUSPENDED}
         \/ /\ flags' = [flags EXCEPT ![t] = @ \union {SUSPENDED}]
            /\ fault' = fault
            /\ \/ /\ t \in Listed(ready)
                  /\ ready' = Unlink(ready, t)
                  /\ wait' = Append(wait, t)
               \/ /\ t \in Listed(wait)
                  /\ wait' = Append(Unlink(wait, t), t)
                  /\ ready' = ready
  BY RulesGive DEF TaskSuspend, TaskRuns
<1>2. /\ ready \in Seq(AllTasks) /\ wait \in Seq(AllTasks)
      /\ IsInjective(ready) /\ IsInjective(wait)
      /\ Listed(ready) \intersect Listed(wait) = {}
      /\ Listed(ready) \union Listed(wait) = created
      /\ created \subseteq AllTasks
  BY ListsKnown DEF ListRules
<1>3. fault' = "none"
  BY <1>1
<1>4. SoundLists'
  BY <1>1, <1>3, ListsSuspended DEF ListsInv
<1>5. CASE /\ UNCHANGED <<ready, wait, flags, fault>>
           /\ flags[t] \intersect CheckBits = {SUSPENDED}
  <2>1. t \notin Listed(ready)
    BY <1>1, <1>2, <1>5 DEF ListRules, FlagsInv, FlagsTellList
  <2> QED
    BY <1>1, <1>3, <1>5, <2>1, RulesUnchanged
<1>6. CASE /\ flags' = [flags EXCEPT ![t] = @ \union {SUSPENDED}]
           /\ \/ /\ t \in Listed(ready)
                 /\ ready' = Unlink(ready, t)
                 /\ wait' = Append(wait, t)
              \/ /\ t \in Listed(wait)
                 /\ wait' = Append(Unlink(wait, t), t)
                 /\ ready' = ready
  <2> DEFINE F == flags[t] \union {SUSPENDED}
  <2>1. F \intersect CheckBits # {}
    BY DEF CheckBits
  <2>2. flags' = [flags EXCEPT ![t] = F]
    BY <1>6
  <2>3. SUSPENDED \in flags'[t]
    BY <1>1, <1>2, <1>6 DEF Inv, TypeOK, TypeOfTCBs
  <2> HIDE DEF F
  <2>4. CASE /\ t \in Listed(ready)
             /\ ready' = Unlink(ready, t)
             /\ wait' = Append(wait, t)
    <3>1. Listed(wait') = Listed(wait) \union {t}
      BY <1>1, <1>2, <2>4, AppendFacts
    <3>2. FlagsInv'
      BY <1>1, <1>4, <2>1, <2>2, <3>1, FlagsFollow DEF ListRules
    <3>3. SortedByPrio(ready', priority')
      BY <1>1, <1>2, <2>4, SortedUnlink DEF ListRules
    <3> QED
      BY <1>3, <1>4, <2>3, <2>4, <3>2, <3>3 DEF ListRules
  <2>5. CASE /\ t \in Listed(wait)
             /\ wait' = Append(Unlink(wait, t), t)
             /\ ready' = ready
    <3> DEFINE u == Unlink(wait, t)
    <3>1. u \in Seq(AllTasks) /\ Listed(u) = Listed(wait) \ {t}
      BY <1>2, <2>5, UnlinkFacts
    <3>2. wait' = Append(u, t) /\ t \in AllTasks
      BY <1>1, <1>2, <2>5
    <3> HIDE DEF u
    <3>3. Listed(wait') = Listed(u) \union {t}
      BY <3>1, <3>2, AppendFacts
    <3>4. FlagsInv'
      BY <1>1, <1>4, <2>1, <2>2, <3>1, <3>3, FlagsFollow DEF ListRules
    <3>5. t \notin Listed(ready)
      BY <1>2, <2>5
    <3> QED
      BY <1>1, <1>3, <1>4, <2>5, <3>4, <3>5 DEF ListRules
  <2> QED
    BY <2>4, <2>5, <1>6
<1> QED
  BY <1>1, <1>5, <1>6

-----------------------------------------------------------------------------
(* The walk of the tick.                                                   *)

LEMMA VisitIsWaiting ==
    ASSUME Inv, SoundLists
    PROVE  ToVisit \subseteq Listed(wait)
BY ListsKnown, FromListed DEF ToVisit

(* A wake-up during the walk at most shortens it.                          *)
LEMMA VisitAfterWake ==
    ASSUME Inv, SoundLists, NEW t \in Listed(wait), wait' = Unlink(wait, t),
           UNCHANGED <<inTick, cursor>>
    PROVE  ToVisit' \subseteq ToVisit
<1>1. wait \in Seq(AllTasks) /\ IsInjective(wait)
  BY ListsKnown
<1>2. Listed(wait') = Listed(wait) \ {t}
  BY <1>1, UnlinkFacts
<1>3. CASE inTick /\ cursor \in Listed(wait')
  <2>1. cursor \in Listed(wait) /\ t # cursor
    BY <1>2, <1>3
  <2>2. From(wait', cursor) = From(wait, cursor) \ {t}
    BY <1>1, <2>1, FromUnlink
  <2> QED
    BY <1>3, <2>1, <2>2 DEF ToVisit
<1>4. CASE ~(inTick /\ cursor \in Listed(wait'))
  BY <1>4 DEF ToVisit
<1> QED
  BY <1>3, <1>4

(* The walk goes on to the node behind the one it visits.                  *)
LEMMA VisitGoesOn ==
    ASSUME Inv, SoundLists, Visiting, cursor' = CursorNext, inTick' = inTick,
           \/ wait' = wait
           \/ cursor \in Listed(wait) /\ wait' = Unlink(wait, cursor)
    PROVE  /\ ToVisit' = ToVisit \ {cursor}
           /\ cursor \in Listed(wait) => cursor \in ToVisit
           /\ cursor \in Listed(wait) => cursor' \in Listed(wait') \union {NoTask}
<1>1. /\ wait \in Seq(AllTasks) /\ IsInjective(wait)
      /\ ready \in Seq(AllTasks) /\ IsInjective(ready)
      /\ Listed(ready) \intersect Listed(wait) = {}
      /\ Listed(ready) \union Listed(wait) = created
      /\ NoTask \notin Listed(wait) /\ NoTask \notin Listed(ready)
  BY ListsKnown
<1>2. inTick /\ cursor # NoTask /\ cursor \in created
  BY DEF Visiting, Inv
<1>3. CASE cursor \in Listed(wait)
  <2> DEFINE n == NextNode(wait, cursor, NoTask)
  <2>1. cursor' = n
    BY <1>3 DEF CursorNext
  <2>2. /\ n = NoTask => From(wait, cursor) = {cursor}
        /\ n # NoTask => /\ n \in Listed(wait) /\ n # cursor
                         /\ From(wait, n) = From(wait, cursor) \ {cursor}
    BY <1>1, <1>3, FromNext
  <2> HIDE DEF n
  <2>3. ToVisit = From(wait, cursor)
    BY <1>2, <1>3 DEF ToVisit
  <2>4. cursor \in ToVisit
    <3>1. Position(wait, cursor) \in 1 .. Len(wait)
          /\ wait[Position(wait, cursor)] = cursor
      BY <1>1, <1>3, PositionFacts
    <3>2. Position(wait, cursor) <= Position(wait, cursor)
      BY <3>1
    <3> QED
      BY <1>1, <1>3, <2>3, <3>1, <3>2, FromIs
  <2>5. CASE n = NoTask
    <3>1. cursor' \notin Listed(wait')
      <4>1. Listed(wait') \subseteq Listed(wait)
        BY <1>1, <1>3, UnlinkFacts
      <4> QED
        BY <4>1, <1>1, <2>1, <2>5
    <3>2. ToVisit' = {}
      BY <3>1 DEF ToVisit
    <3> QED
      BY <3>2, <2>1, <2>2, <2>3, <2>4, <2>5
  <2>6. CASE n # NoTask
    <3>1. CASE wait' = wait
      BY <3>1, <1>2, <2>1, <2>2, <2>3, <2>4, <2>6 DEF ToVisit
    <3>2. CASE wait' = Unlink(wait, cursor)
      <4>1. /\ n \in Listed(wait')
            /\ From(wait', n) = From(wait, n) \ {cursor}
        BY <3>2, <1>1, <1>3, <2>2, <2>6, FromUnlink
      <4>2. ToVisit' = From(wait', n)
        BY <4>1, <1>2, <2>1 DEF ToVisit
      <4> QED
        BY <4>1, <4>2, <2>1, <2>2, <2>3, <2>4, <2>6
    <3> QED
      BY <3>1, <3>2
  <2> QED
    BY <2>5, <2>6
<1>4. CASE cursor \notin Listed(wait)
  <2>1. cursor \in Listed(ready) /\ wait' = wait
    BY <1>1, <1>2, <1>4
  <2>2. cursor' \in Listed(ready) \union {NoTask}
    BY <1>1, <1>4, <2>1, NextNodeCreated DEF CursorNext
  <2>3. cursor' \notin Listed(wait')
    BY <1>1, <2>1, <2>2
  <2> QED
    BY <1>4, <2>3 DEF ToVisit
<1> QED
  BY <1>3, <1>4

-----------------------------------------------------------------------------
(* Every step preserves the strengthening.                                 *)

LEMMA OutlastReady ==
    ASSUME pend' => current' \notin Listed(wait')
    PROVE  OutlastInv'
BY DEF OutlastInv

LEMMA OutlastSame ==
    ASSUME OutlastInv, pend, UNCHANGED <<current, late>>,
           Listed(wait') \subseteq Listed(wait),
           current \in Listed(wait) =>
              /\ sleepCntr'[current] = sleepCntr[current]
              /\ flags'[current] = flags[current]
              /\ current \in ToVisit' => current \in ToVisit
    PROVE  OutlastInv'
<1> SUFFICES ASSUME current \in Listed(wait'), SUSPENDED \notin flags'[current]
             PROVE  \/ sleepCntr'[current] = 0
                    \/ /\ sleepCntr'[current] + late > LateTicks
                       /\ current \in ToVisit' =>
                             sleepCntr'[current] + late > LateTicks + 1
  BY DEF OutlastInv
<1>1. /\ current \in Listed(wait)
      /\ sleepCntr'[current] = sleepCntr[current]
      /\ flags'[current] = flags[current]
      /\ current \in ToVisit' => current \in ToVisit
  OBVIOUS
<1> HIDE DEF ToVisit
<1>2. \/ sleepCntr[current] = 0
      \/ /\ sleepCntr[current] + late > LateTicks
         /\ current \in ToVisit => sleepCntr[current] + late > LateTicks + 1
  BY <1>1 DEF OutlastInv
<1> QED
  BY <1>1, <1>2

LEMMA PreemptSwitch ==
    ASSUME SwitchInv, started, PreemptIfHeadChanged,
           pend => Head(ready') # current,
           ~pend => current \in Listed(ready')
    PROVE  SwitchInv'
<1>1. UNCHANGED <<current, late, started>>
  BY DEF PreemptIfHeadChanged
<1>2. CASE Head(ready') # current
  <2>1. next' = Head(ready') /\ pend' = TRUE
    BY <1>2 DEF PreemptIfHeadChanged, SwitchTo
  <2> QED
    BY <1>1, <1>2, <2>1 DEF SwitchInv
<1>3. CASE Head(ready') = current
  <2>1. UNCHANGED <<next, pend>>
    BY <1>3 DEF PreemptIfHeadChanged
  <2>2. ~pend
    BY <1>3
  <2> QED
    BY <1>1, <1>3, <2>1, <2>2 DEF SwitchInv
<1> QED
  BY <1>2, <1>3

LEMMA WakeRules ==
    ASSUME RuleInv, RulesKept, Inv', NEW t \in Tasks, MayWake(t), MakeReady(t),
           PreemptIfHeadChanged, NEW F, F \intersect CheckBits = {},
           flags' = [flags EXCEPT ![t] = F], UNCHANGED <<priority, tickVars>>
    PROVE  RuleInv'
<1>1. /\ fault = "none" /\ started
      /\ t \in Listed(wait)
      /\ pend => t # current
  BY RulesGive DEF MayWake, InterruptRuns
<1>2. ListRules' /\ Head(ready') \in {t, Head(ready)}
  BY <1>1, RulesMadeReady DEF RuleInv
<1>3. /\ Listed(ready') = Listed(ready) \union {t}
      /\ Listed(wait') = Listed(wait) \ {t}
      /\ Listed(ready') \intersect Listed(wait') = {}
  BY <1>1, <1>2, MakeReadyLists, ListsKnownNext DEF RuleInv, ListRules
<1>4. SwitchInv'
  <2>1. pend => Head(ready') # current
    BY <1>1, <1>2 DEF RuleInv, SwitchInv
  <2>2. ~pend => current \in Listed(ready')
    BY <1>1, <1>3 DEF RuleInv, SwitchInv
  <2> QED
    BY <1>1, <2>1, <2>2, PreemptSwitch DEF RuleInv
<1>5. OutlastInv'
  <2>1. UNCHANGED <<current, late>>
    BY DEF PreemptIfHeadChanged
  <2>2. CASE ~pend
    <3>1. current \in Listed(ready')
      BY <2>2, <1>1, <1>3 DEF RuleInv, SwitchInv
    <3> QED
      BY <2>1, <3>1, <1>3, OutlastReady
  <2>3. CASE pend
    <3>1. current \in Listed(wait) =>
             /\ sleepCntr'[current] = sleepCntr[current]
             /\ flags'[current] = flags[current]
      <4>1. t # current
        BY <1>1, <2>3
      <4>2. current \in Listed(wait) => current \in AllTasks
        BY ListsKnown DEF RuleInv, ListRules
      <4> QED
        BY <4>1, <4>2 DEF MakeReady, RuleInv, Inv, TypeOK, TypeOfTCBs
    <3>2. ToVisit' \subseteq ToVisit
      BY <1>1, VisitAfterWake DEF MakeReady, tickVars, RuleInv, ListRules
    <3> QED
      BY <2>1, <2>3, <3>1, <3>2, <1>3, OutlastSame DEF RuleInv
  <2> QED
    BY <2>2, <2>3
<1> QED
  BY <1>2, <1>4, <1>5 DEF RuleInv

LEMMA TaskWakeRules ==
    ASSUME RuleInv, RulesKept, NEW t \in Tasks, TaskWake(t)
    PROVE  RuleInv'
<1> DEFINE F == flags[t] \ CheckBits
<1>1. /\ MayWake(t) /\ MakeReady(t) /\ PreemptIfHeadChanged
      /\ flags' = [flags EXCEPT ![t] = F]
      /\ UNCHANGED <<priority, tickVars>>
  BY DEF TaskWake
<1>2. F \intersect CheckBits = {}
  OBVIOUS
<1>3. Inv'
  BY TaskWakeInv DEF RuleInv
<1> HIDE DEF F
<1> QED
  BY <1>1, <1>2, <1>3, WakeRules

LEMMA WakeFromResourceRules ==
    ASSUME RuleInv, RulesKept, NEW t \in Tasks, WakeFromResource(t)
    PROVE  RuleInv'
<1> DEFINE F == (flags[t] \ BitsOf[KindOf[resource[t]]]) \ CheckBits
<1>1. /\ MayWake(t) /\ MakeReady(t) /\ PreemptIfHeadChanged
      /\ flags' = [flags EXCEPT ![t] = F]
      /\ UNCHANGED <<priority, tickVars>>
  BY DEF WakeFromResource
<1>2. F \intersect CheckBits = {}
  OBVIOUS
<1>3. Inv'
  BY WakeFromResourceInv DEF RuleInv
<1> HIDE DEF F
<1> QED
  BY <1>1, <1>2, <1>3, WakeRules

LEMMA CreateTaskRules ==
    ASSUME RuleInv, RulesKept, NEW t \in Tasks, CreateTask(t)
    PROVE  RuleInv'
<1>1. ~started /\ UNCHANGED <<switchVars, tickVars>>
  BY RulesGive DEF CreateTask
<1>2. ListRules' /\ Inv'
  BY RulesCreated, CreateTaskInv DEF RuleInv
<1>3. SwitchInv' /\ ~pend'
  BY <1>1 DEF RuleInv, SwitchInv, switchVars, tickVars
<1> QED
  BY <1>2, <1>3, OutlastReady DEF RuleInv

LEMMA StartRules ==
    ASSUME RuleInv, Start
    PROVE  RuleInv'
<1>1. /\ UNCHANGED <<ready, wait, created, flags, priority>>
      /\ current = NoTask /\ ~inTick
      /\ started' /\ pend' /\ next' = Head(ready')
      /\ UNCHANGED <<current, late, inTick>>
  BY DEF Start, SwitchTo, listVars, tickVars, RuleInv, SwitchInv
<1>2. ListRules' /\ Inv'
  BY <1>1, RulesUnchanged, StartInv DEF RuleInv
<1>3. NoTask # Head(ready') /\ NoTask \notin Listed(wait')
  BY <1>2, ListsKnownNext DEF ListRules
<1>4. SwitchInv'
  BY <1>1, <1>3 DEF SwitchInv
<1>5. OutlastInv'
  BY <1>1, <1>3, OutlastReady
<1> QED
  BY <1>2, <1>4, <1>5 DEF RuleInv

LEMMA DispatchRules ==
    ASSUME RuleInv, Dispatch
    PROVE  RuleInv'
<1>1. /\ UNCHANGED <<ready, wait, created, flags, priority>>
      /\ current' = Head(ready) /\ ~pend' /\ late' = 0 /\ started
      /\ UNCHANGED <<next, started, inTick>>
  BY DEF Dispatch, listVars, tickVars, RuleInv, SwitchInv
<1>2. ListRules' /\ Inv'
  BY <1>1, RulesUnchanged, DispatchInv DEF RuleInv
<1>3. Head(ready) \in Listed(ready)
  BY ListsKnown DEF RuleInv, ListRules
<1>4. SwitchInv'
  BY <1>1, <1>3 DEF SwitchInv
<1> QED
  BY <1>1, <1>2, <1>4, OutlastReady DEF RuleInv

LEMMA SleepRules ==
    ASSUME RuleInv, RulesKept, Inv', NEW p, GoToSleep(p),
           NEW F, SLEEP \in F, flags' = [flags EXCEPT ![current] = @ \union F],
           UNCHANGED <<priority, tickVars>>
    PROVE  RuleInv'
<1>1. /\ TaskRuns /\ SetNextReadyTaskToRun
      /\ p = 0 \/ p > LateTicks
      /\ sleepCntr' = [sleepCntr EXCEPT ![current] = p]
  BY RulesGive DEF GoToSleep, OutlastsSwitch
<1>2. /\ started /\ ~pend /\ ~inTick /\ late = 0 /\ current \in created
  BY <1>1, RunningTask
<1>3. /\ ListRules'
      /\ pend' /\ next' = Head(ready')
      /\ current # Head(ready')
      /\ UNCHANGED <<current, late, started>>
  BY <1>1, RulesSlept
<1>4. SwitchInv'
  BY <1>2, <1>3 DEF SwitchInv, tickVars
<1>5. OutlastInv'
  <2>1. sleepCntr'[current'] = p
    BY <1>1, <1>2, <1>3, ListsKnown
       DEF RuleInv, ListRules, Inv, TypeOK, TypeOfTCBs
  <2>2. ToVisit' = {}
    BY <1>2 DEF ToVisit, tickVars
  <2>3. late' = 0 /\ LateTicks \in Nat
    BY <1>2, <1>3, TickAssumption
  <2>4. p = 0 \/ p + late' > LateTicks
    <3>1. p > LateTicks => p + 0 > LateTicks
      <4>1. p \in Nat
        BY <2>1, <1>2, <1>3, ListsKnown
           DEF RuleInv, ListRules, Inv, TypeOK, TypeOfTCBs
      <4> QED
        BY <4>1, <2>3
    <3> QED
      BY <3>1, <1>1, <2>3
  <2> QED
    BY <2>1, <2>2, <2>4 DEF OutlastInv
<1> QED
  BY <1>3, <1>4, <1>5 DEF RuleInv

LEMMA TaskSleepRules ==
    ASSUME RuleInv, RulesKept, NEW p \in Periods, TaskSleep(p)
    PROVE  RuleInv'
<1>1. /\ GoToSleep(p)
      /\ flags' = [flags EXCEPT ![current] = @ \union {SLEEP}]
      /\ UNCHANGED <<priority, tickVars>>
  BY DEF TaskSleep
<1>2. Inv'
  BY TaskSleepInv DEF RuleInv
<1>3. SLEEP \in {SLEEP}
  OBVIOUS
<1> QED
  BY <1>1, <1>2, <1>3, SleepRules

LEMMA TaskSleepSetFreqRules ==
    ASSUME RuleInv, RulesKept, NEW n \in WakeTimes, TaskSleepSetFreq(n)
    PROVE  RuleInv'
<1> DEFINE p == IF n > tickCntr THEN n - tickCntr ELSE (MaxTick - tickCntr) + n
<1>1. /\ GoToSleep(p)
      /\ flags' = [flags EXCEPT ![current] = @ \union {SLEEP}]
      /\ UNCHANGED <<priority, tickVars>>
  BY DEF TaskSleepSetFreq
<1>2. Inv'
  BY TaskSleepSetFreqInv DEF RuleInv
<1>3. SLEEP \in {SLEEP}
  OBVIOUS
<1> HIDE DEF p
<1> QED
  BY <1>1, <1>2, <1>3, SleepRules

LEMMA SetReasonForSleepRules ==
    ASSUME RuleInv, RulesKept, NEW r \in Resources, NEW p \in Periods \ {0},
           SetReasonForSleep(r, p)
    PROVE  RuleInv'
<1> DEFINE F == BitsOf[KindOf[r]] \union {SLEEP}
<1>1. /\ GoToSleep(p)
      /\ flags' = [flags EXCEPT ![current] = @ \union F]
      /\ UNCHANGED <<priority, tickVars>>
  <2>1. \A x : (x \union BitsOf[KindOf[r]]) \union {SLEEP} = x \union F
    OBVIOUS
  <2> QED
    BY <2>1 DEF SetReasonForSleep
<1>2. Inv'
  BY SetReasonForSleepInv DEF RuleInv
<1>3. SLEEP \in F
  OBVIOUS
<1> HIDE DEF F
<1> QED
  BY <1>1, <1>2, <1>3, SleepRules

LEMMA GetReasonForWakeupRules ==
    ASSUME RuleInv, GetReasonForWakeup
    PROVE  RuleInv'
<1>1. /\ UNCHANGED <<ready, wait, created, flags, priority>>
      /\ UNCHANGED <<switchVars, tickVars, sleepCntr>>
  BY DEF GetReasonForWakeup, listVars
<1>2. ListRules' /\ Inv'
  BY <1>1, RulesUnchanged, GetReasonForWakeupInv DEF RuleInv
<1>3. SwitchInv' /\ OutlastInv'
  BY <1>1 DEF RuleInv, SwitchInv, OutlastInv, ToVisit, From, switchVars, tickVars
<1> QED
  BY <1>2, <1>3 DEF RuleInv

LEMMA TaskSuspendRules ==
    ASSUME RuleInv, RulesKept, NEW t \in Tasks, TaskSuspend(t)
    PROVE  RuleInv'
<1>1. /\ TaskRuns
      /\ IF t = current THEN SwitchTo(Head(ready')) ELSE UNCHANGED <<next, pend>>
      /\ UNCHANGED <<current, late, started, tickVars>>
  BY DEF TaskSuspend
<1>2. /\ started /\ ~pend /\ ~inTick /\ late = 0
      /\ current = Head(ready) /\ current \in Listed(ready)
  BY <1>1, RunningTask
<1>3. /\ ListRules'
      /\ \/ ready' = ready
         \/ t \in Listed(ready) /\ ready' = Unlink(ready, t)
      /\ t = current => ready' = Unlink(ready, t) /\ SUSPENDED \in flags'[t]
  BY <1>2, RulesSuspended DEF RuleInv
<1>4. Inv'
  BY TaskSuspendInv DEF RuleInv
<1>5. Head(ready') \in Listed(ready')
  BY <1>3, <1>4, ListsKnownNext DEF ListRules
<1>6. ready \in Seq(AllTasks) /\ IsInjective(ready)
  BY ListsKnown DEF RuleInv, ListRules
<1>7. CASE t = current
  <2>1. Listed(ready') = Listed(ready) \ {t}
    BY <1>2, <1>3, <1>6, <1>7, UnlinkFacts
  <2>2. pend' /\ next' = Head(ready') /\ current' # Head(ready')
    BY <1>1, <1>5, <1>7, <2>1 DEF SwitchTo
  <2>3. SwitchInv'
    BY <1>1, <1>2, <2>2 DEF SwitchInv, tickVars
  <2>4. OutlastInv'
    BY <1>1, <1>3, <1>7 DEF OutlastInv
  <2> QED
    BY <1>3, <1>4, <2>3, <2>4 DEF RuleInv
<1>8. CASE t # current
  <2>1. Head(ready') = Head(ready)
    BY <1>2, <1>3, <1>6, <1>8, HeadOfUnlink
  <2>2. ~pend'
    BY <1>1, <1>2, <1>8
  <2>3. SwitchInv'
    BY <1>1, <1>2, <1>5, <2>1, <2>2 DEF SwitchInv, tickVars
  <2> QED
    BY <1>3, <1>4, <2>2, <2>3, OutlastReady DEF RuleInv
<1> QED
  BY <1>7, <1>8

LEMMA WrongListUnlinkedNever ==
    ASSUME RuleInv, NEW t \in Tasks, WrongListUnlinked(t)
    PROVE  FALSE
BY DEF RuleInv, ListRules, FlagsInv, FlagsTellList, WrongListUnlinked

LEMMA SetNewPriorityRules ==
    ASSUME RuleInv, RulesKept, NEW t \in Tasks, NEW p \in Priorities,
           SetNewPriority(t, p)
    PROVE  RuleInv'
<1>1. /\ started
      /\ UNCHANGED <<wait, flags, sleepCntr, tickVars>>
      /\ \/ UNCHANGED <<ready, switchVars>>
         \/ /\ pend => Head(ready') # current
            /\ PreemptIfHeadChanged
  BY RulesGive DEF SetNewPriority
<1>2. ListRules' /\ Listed(ready') = Listed(ready)
  BY RulesReordered DEF RuleInv
<1>3. Inv'
  BY SetNewPriorityInv DEF RuleInv
<1>4. UNCHANGED <<current, late>>
  BY <1>1 DEF switchVars, PreemptIfHeadChanged
<1>5. SwitchInv'
  <2>1. CASE UNCHANGED <<ready, switchVars>>
    BY <1>1, <2>1 DEF RuleInv, SwitchInv, switchVars, tickVars
  <2>2. CASE (pend => Head(ready') # current) /\ PreemptIfHeadChanged
    <3>1. ~pend => current \in Listed(ready')
      BY <1>1, <1>2 DEF RuleInv, SwitchInv
    <3> QED
      BY <1>1, <2>2, <3>1, PreemptSwitch DEF RuleInv
  <2> QED
    BY <1>1, <2>1, <2>2
<1>6. OutlastInv'
  <2>1. CASE pend
    <3>1. ToVisit' = ToVisit
      BY <1>1 DEF ToVisit, tickVars, From
    <3> QED
      BY <2>1, <3>1, <1>1, <1>4, OutlastSame DEF RuleInv
  <2>2. CASE ~pend
    <3>1. current \in Listed(ready) /\ Listed(ready) \intersect Listed(wait) = {}
      BY <1>1, <2>2, ListsKnown DEF RuleInv, ListRules, SwitchInv
    <3> QED
      BY <3>1, <1>1, <1>4, OutlastReady
  <2> QED
    BY <2>1, <2>2
<1> QED
  BY <1>2, <1>3, <1>5, <1>6 DEF RuleInv

LEMMA TickStartRules ==
    ASSUME RuleInv, TickStart
    PROVE  RuleInv'
<1>1. /\ started /\ ~inTick
      /\ late' = IF pend THEN late + 1 ELSE late
      /\ UNCHANGED <<ready, wait, created, flags, priority>>
      /\ UNCHANGED <<current, next, pend, started, sleepCntr>>
  BY DEF TickStart, listVars
<1>2. ListRules' /\ Inv'
  BY <1>1, RulesUnchanged, TickStartInv DEF RuleInv
<1>3. SwitchInv'
  BY <1>1 DEF RuleInv, SwitchInv
<1>4. OutlastInv'
  <2> SUFFICES ASSUME pend, current \in Listed(wait),
                      SUSPENDED \notin flags[current], sleepCntr[current] # 0
               PROVE  sleepCntr[current] + late' > LateTicks + 1
    <3>1. late' \in Nat /\ sleepCntr[current] \in Nat =>
             (sleepCntr[current] + late' > LateTicks + 1 =>
                 sleepCntr[current] + late' > LateTicks)
      BY TickAssumption
    <3>2. late' \in Nat
      BY <1>2 DEF Inv, TypeOK, TypeOfSwitch
    <3>3. current \in Listed(wait) => sleepCntr[current] \in Nat
      BY ListsKnown DEF RuleInv, ListRules, Inv, TypeOK, TypeOfTCBs
    <3> QED
      BY <1>1, <3>1, <3>2, <3>3 DEF OutlastInv
  <2>1. sleepCntr[current] + late > LateTicks
    BY DEF RuleInv, OutlastInv
  <2>2. sleepCntr[current] \in Nat /\ late \in Nat
    BY ListsKnown DEF RuleInv, ListRules, Inv, TypeOK, TypeOfTCBs, TypeOfSwitch
  <2> QED
    BY <1>1, <2>1, <2>2, TickAssumption
<1> QED
  BY <1>2, <1>3, <1>4 DEF RuleInv

LEMMA TickMeetsSuspendedRules ==
    ASSUME RuleInv, TickMeetsSuspended
    PROVE  RuleInv'
<1>1. /\ cursor' = NoTask
      /\ UNCHANGED <<ready, wait, created, flags, priority>>
      /\ UNCHANGED <<current, next, pend, late, started, inTick, sleepCntr>>
  BY DEF TickMeetsSuspended, listVars, switchVars
<1>2. ListRules' /\ Inv'
  BY <1>1, RulesUnchanged, TickMeetsSuspendedInv DEF RuleInv
<1>3. SwitchInv'
  BY <1>1 DEF RuleInv, SwitchInv
<1>4. OutlastInv'
  <2>1. NoTask \notin Listed(wait')
    BY <1>2, ListsKnownNext DEF ListRules
  <2>2. ToVisit' = {}
    BY <2>1, <1>1 DEF ToVisit
  <2> QED
    BY <1>1, <2>2 DEF RuleInv, OutlastInv
<1> QED
  BY <1>2, <1>3, <1>4 DEF RuleInv

LEMMA TickCountsDownRules ==
    ASSUME RuleInv, TickCountsDown
    PROVE  RuleInv'
<1>1. /\ Visiting /\ cursor' = CursorNext /\ sleepCntr[cursor] # 1
      /\ sleepCntr' = [sleepCntr EXCEPT ![cursor] = (@ - 1) % CntMod]
      /\ UNCHANGED <<ready, wait, created, flags, priority>>
      /\ UNCHANGED <<current, next, pend, late, started, inTick>>
  BY DEF TickCountsDown, listVars, switchVars
<1>2. ListRules' /\ Inv'
  BY <1>1, RulesUnchanged, TickCountsDownInv DEF RuleInv
<1>3. SwitchInv'
  BY <1>1 DEF RuleInv, SwitchInv
<1>4. /\ ToVisit' = ToVisit \ {cursor}
      /\ cursor \in Listed(wait) => cursor \in ToVisit
  <2>1. wait' = wait /\ inTick' = inTick
    BY <1>1
  <2>2. Inv /\ SoundLists
    BY DEF RuleInv, ListRules
  <2> QED
    BY <1>1, <2>1, <2>2, VisitGoesOn
<1>5. OutlastInv'
  <2>1. CASE current # cursor \/ ~pend
    <3>1. sleepCntr'[current] = sleepCntr[current] \/ ~pend
      BY <1>1, <2>1 DEF RuleInv, Inv, TypeOK, TypeOfTCBs
    <3> QED
      BY <1>1, <1>4, <3>1, OutlastSame DEF RuleInv, OutlastInv
  <2>2. CASE current = cursor /\ pend
    <3> SUFFICES ASSUME current \in Listed(wait), SUSPENDED \notin flags[current]
                 PROVE  sleepCntr'[current] + late > LateTicks
      BY <1>1, <1>4, <2>2 DEF OutlastInv
    <3> DEFINE c == sleepCntr[current]
    <3>1. current \in AllTasks
      BY ListsKnown DEF RuleInv, ListRules
    <3>2. c \in 0 .. CntMod - 1 /\ late \in Nat
      BY <3>1 DEF RuleInv, Inv, TypeOK, TypeOfTCBs, TypeOfSwitch
    <3>3. sleepCntr'[current] = (c - 1) % CntMod
      BY <1>1, <2>2, <3>1 DEF RuleInv, Inv, TypeOK, TypeOfTCBs
    <3>4. c = 0 \/ c + late > LateTicks + 1
      BY <1>4, <2>2 DEF RuleInv, OutlastInv
    <3> HIDE DEF c
    <3>5. CntMod \in Nat /\ LateTicks \in Nat /\ LateTicks + 1 < CntMod
      BY TickAssumption
    <3>6. CASE c = 0
      <4>1. (0 - 1) % CntMod = CntMod - 1
        BY <3>5
      <4> QED
        BY <3>2, <3>3, <3>5, <3>6, <4>1
    <3>7. CASE c # 0
      <4>1. (c - 1) % CntMod = c - 1
        BY <3>2, <3>5, <3>7
      <4> QED
        BY <3>2, <3>3, <3>4, <3>5, <3>7, <4>1
    <3> QED
      BY <3>6, <3>7
  <2> QED
    BY <2>1, <2>2
<1> QED
  BY <1>2, <1>3, <1>5 DEF RuleInv

LEMMA TickWakesRules ==
    ASSUME RuleInv, TickWakes
    PROVE  RuleInv'
<1> DEFINE t == cursor
           F == flags[t] \ ({SLEEP} \union ResourceBits)
<1>1. /\ Visiting /\ t \in Listed(wait) /\ SUSPENDED \notin flags[t]
      /\ sleepCntr[t] = 1
      /\ MakeReady(t)
      /\ flags' = [flags EXCEPT ![t] = F]
      /\ cursor' = CursorNext
      /\ UNCHANGED <<priority, current, next, pend, late, started, inTick>>
  BY DEF TickWakes, switchVars
<1>2. fault = "none" /\ inTick /\ started
  BY <1>1 DEF Visiting, RuleInv, SwitchInv
<1>3. F \intersect CheckBits = {}
  BY <1>1 DEF CheckBits
<1>4. Inv'
  BY TickWakesInv DEF RuleInv
<1>5. wait' = Unlink(wait, t)
  BY <1>1 DEF MakeReady
<1>6. /\ ToVisit' = ToVisit \ {t}
      /\ t \in ToVisit
  BY <1>1, <1>5, VisitGoesOn DEF RuleInv, ListRules
<1>7. pend => t # current
  <2> SUFFICES ASSUME pend, t = current PROVE FALSE
    OBVIOUS
  <2>1. 1 + late > LateTicks + 1
    BY <1>1, <1>6 DEF RuleInv, OutlastInv
  <2>2. late \in 0 .. LateTicks
    BY DEF RuleInv, Inv, TypeOK, TypeOfSwitch
  <2> QED
    BY <2>1, <2>2, TickAssumption
<1> HIDE DEF F, t
<1>8. ListRules' /\ Head(ready') \in {t, Head(ready)}
  BY <1>1, <1>2, <1>3, RulesMadeReady DEF RuleInv
<1>9. /\ Listed(ready') = Listed(ready) \union {t}
      /\ Listed(wait') = Listed(wait) \ {t}
      /\ Listed(ready') \intersect Listed(wait') = {}
  BY <1>1, <1>2, <1>4, <1>8, MakeReadyLists, ListsKnownNext
     DEF RuleInv, ListRules
<1>10. SwitchInv'
  <2>1. pend => Head(ready') # current
    BY <1>7, <1>8 DEF RuleInv, SwitchInv
  <2>2. ~pend => current \in Listed(ready')
    BY <1>2, <1>9 DEF RuleInv, SwitchInv
  <2>3. inTick'
    BY <1>1, <1>2
  <2> QED
    BY <1>1, <1>2, <2>1, <2>2, <2>3 DEF RuleInv, SwitchInv
<1>11. OutlastInv'
  <2>1. CASE ~pend
    BY <2>1, <1>1 DEF OutlastInv
  <2>2. CASE pend
    <3>1. current \in Listed(wait) =>
             /\ sleepCntr'[current] = sleepCntr[current]
             /\ flags'[current] = flags[current]
      <4>1. current \in Listed(wait) => current \in AllTasks
        BY ListsKnown DEF RuleInv, ListRules
      <4> QED
        BY <1>1, <1>7, <2>2, <4>1
           DEF MakeReady, RuleInv, Inv, TypeOK, TypeOfTCBs
    <3> QED
      BY <1>1, <1>6, <1>9, <2>2, <3>1, OutlastSame DEF RuleInv
  <2> QED
    BY <2>1, <2>2
<1> QED
  BY <1>4, <1>8, <1>10, <1>11 DEF RuleInv

LEMMA TickMislinksRules ==
    ASSUME RuleInv, TickMislinks
    PROVE  RuleInv'
<1>1. /\ UNCHANGED <<ready, wait, created, flags, priority>>
      /\ UNCHANGED <<switchVars, tickVars, sleepCntr>>
  BY DEF TickMislinks, listVars
<1>2. ListRules' /\ Inv'
  BY <1>1, RulesUnchanged, TickMislinksInv DEF RuleInv
<1>3. SwitchInv' /\ OutlastInv'
  BY <1>1 DEF RuleInv, SwitchInv, OutlastInv, ToVisit, From, switchVars, tickVars
<1> QED
  BY <1>2, <1>3 DEF RuleInv

LEMMA TickEndRules ==
    ASSUME RuleInv, TickEnd
    PROVE  RuleInv'
<1>1. /\ inTick /\ ~inTick' /\ PreemptIfHeadChanged
      /\ UNCHANGED <<ready, wait, created, flags, priority, sleepCntr>>
      /\ UNCHANGED <<current, late>>
  BY DEF TickEnd, PreemptIfHeadChanged
<1>2. ListRules' /\ Inv'
  BY <1>1, RulesUnchanged, TickEndInv DEF RuleInv
<1>3. SwitchInv'
  <2>1. /\ started
        /\ pend => Head(ready') # current
        /\ ~pend => current \in Listed(ready')
    BY <1>1 DEF RuleInv, SwitchInv
  <2> QED
    BY <1>1, <2>1, PreemptSwitch DEF RuleInv
<1>4. OutlastInv'
  <2>1. ToVisit' = {}
    BY <1>1 DEF ToVisit
  <2>2. CASE pend
    BY <1>1, <2>1, <2>2, OutlastSame DEF RuleInv
  <2>3. CASE ~pend
    <3>1. current \in Listed(ready) /\ Listed(ready) \intersect Listed(wait) = {}
      BY <1>1, <2>3, ListsKnown DEF RuleInv, ListRules, SwitchInv
    <3> QED
      BY <3>1, <1>1, OutlastReady
  <2> QED
    BY <2>2, <2>3
<1> QED
  BY <1>2, <1>3, <1>4 DEF RuleInv

LEMMA StutterRules ==
    ASSUME RuleInv, UNCHANGED vars
    PROVE  RuleInv'
<1>1. /\ UNCHANGED <<ready, wait, created, flags, priority>>
      /\ UNCHANGED <<switchVars, tickVars, sleepCntr>>
  BY DEF vars, listVars
<1>2. ListRules' /\ Inv'
  BY <1>1, RulesUnchanged, StutterInv DEF RuleInv
<1>3. SwitchInv' /\ OutlastInv'
  BY <1>1 DEF RuleInv, SwitchInv, OutlastInv, ToVisit, From, switchVars, tickVars
<1> QED
  BY <1>2, <1>3 DEF RuleInv

LEMMA NextRules ==
    ASSUME RuleInv, RulesKept, [Next]_vars
    PROVE  RuleInv'
<1>1. CASE Next
  <2>1. ASSUME NEW t \in Tasks,
               \/ CreateTask(t) \/ TaskSuspend(t) \/ TaskWake(t)
               \/ WakeFromResource(t) \/ WrongListUnlinked(t)
        PROVE  RuleInv'
    BY <2>1, CreateTaskRules, TaskSuspendRules, TaskWakeRules,
       WakeFromResourceRules, WrongListUnlinkedNever
  <2>2. ASSUME NEW t \in Tasks, NEW p \in Priorities, SetNewPriority(t, p)
        PROVE  RuleInv'
    BY <2>2, SetNewPriorityRules
  <2>3. ASSUME NEW p \in Periods, TaskSleep(p)
        PROVE  RuleInv'
    BY <2>3, TaskSleepRules
  <2>4. ASSUME NEW n \in WakeTimes, TaskSleepSetFreq(n)
        PROVE  RuleInv'
    BY <2>4, TaskSleepSetFreqRules
  <2>5. ASSUME NEW r \in Resources, NEW p \in Periods \ {0},
               SetReasonForSleep(r, p)
        PROVE  RuleInv'
    BY <2>5, SetReasonForSleepRules
  <2>6. CASE Start \/ Dispatch \/ GetReasonForWakeup
    BY <2>6, StartRules, DispatchRules, GetReasonForWakeupRules
  <2>7. CASE TickStart \/ TickVisit \/ TickEnd
    BY <2>7, TickStartRules, TickMeetsSuspendedRules, TickCountsDownRules,
       TickWakesRules, TickMislinksRules, TickEndRules DEF TickVisit
  <2> QED
    BY <1>1, <2>1, <2>2, <2>3, <2>4, <2>5, <2>6, <2>7 DEF Next, NonTick
<1> QED
  BY <1>1, StutterRules

LEMMA InitRules == Init => RuleInv
<1> SUFFICES ASSUME Init PROVE RuleInv
  OBVIOUS
<1>1. Inv
  BY InitInv
<1>2. /\ ready = <<BG>> /\ wait = << >> /\ created = {BG}
      /\ flags = [t \in AllTasks |-> {}]
      /\ ~started /\ ~pend /\ ~inTick /\ late = 0 /\ current = NoTask
  BY DEF Init
<1>3. DOMAIN ready = {1} /\ Listed(ready) = {BG} /\ Listed(wait) = {}
  BY <1>2 DEF Listed
<1>4. SoundLists
  BY <1>2, <1>3 DEF SoundLists, Last
<1>5. FlagsInv
  <2>1. BG \in AllTasks
    BY DEF AllTasks
  <2> QED
    BY <2>1, <1>2, <1>3 DEF FlagsInv, FlagsTellList
<1>6. SortedByPrio(ready, priority)
  BY <1>3 DEF SortedByPrio
<1>7. SwitchInv /\ OutlastInv
  BY <1>2 DEF SwitchInv, OutlastInv
<1> QED
  BY <1>1, <1>4, <1>5, <1>6, <1>7 DEF RuleInv, ListRules

LEMMA SpecRules ==
    ASSUME RulesKept
    PROVE  Spec => []RuleInv
<1>1. RuleInv /\ [Next]_vars => RuleInv'
  BY NextRules
<1> QED
  BY InitRules, <1>1, PTL DEF Spec

-----------------------------------------------------------------------------
(* Under RulesKept no task is lost: every created task is linked on the    *)
(* ready list or on the wait list, on one only and once.  Interrupts come  *)
(* between two nodes of the tick's walk, not within the visit of one.      *)
THEOREM TasksOnOneList ==
    ASSUME RulesKept
    PROVE  Spec => []EachTaskOnOneList
<1>1. RuleInv => EachTaskOnOneList
  BY DEF RuleInv, ListRules, SoundLists, Inv, ListsInv, EachTaskOnOneList
<1> QED
  BY SpecRules, <1>1, PTL

(* Under RulesKept the ready list stays in priority order and keeps the    *)
(* background task at its end, through insertions, lent priorities and     *)
(* switches, and through interrupts between two nodes of the tick's walk.  *)
THEOREM ReadyListInOrder ==
    ASSUME RulesKept
    PROVE  Spec => []ReadyInOrder
<1>1. RuleInv => ReadyInOrder
  BY DEF RuleInv, ListRules, SoundLists, ReadyInOrder
<1> QED
  BY SpecRules, <1>1, PTL

(* taskWake, taskSuspend and setNewPriority go by the flags of a task, and *)
(* these always tell the list it is on: setNextReadyTaskToRun never moved  *)
(* another task than the caller.                                           *)
THEOREM FlagsTell ==
    ASSUME RulesKept
    PROVE  Spec => []FlagsTellList
<1>1. RuleInv => FlagsTellList
  BY DEF RuleInv, ListRules, FlagsInv
<1> QED
  BY SpecRules, <1>1, PTL

(* Whenever a task executes, it is runnable and no runnable task is more   *)
(* urgent: the promise of a preemptive scheduler with fixed priorities.    *)
THEOREM MostUrgentTaskRuns ==
    ASSUME RulesKept
    PROVE  Spec => []MostUrgentRuns
<1>1. RuleInv => MostUrgentRuns
  <2> SUFFICES ASSUME RuleInv, started, ~pend, ~inTick
               PROVE  /\ flags[current] \intersect CheckBits = {}
                      /\ \A t \in created : flags[t] \intersect CheckBits = {} =>
                            priority[current] <= priority[t]
    BY DEF MostUrgentRuns
  <2>1. /\ ready \in Seq(AllTasks)
        /\ Listed(ready) \intersect Listed(wait) = {}
        /\ Listed(ready) \union Listed(wait) = created
        /\ priority \in [AllTasks -> Nat]
    BY ListsKnown DEF RuleInv, ListRules
  <2>2. current = Head(ready) /\ current \in Listed(ready)
    BY DEF RuleInv, SwitchInv
  <2>3. \A t \in created :
           t \in Listed(ready) <=> flags[t] \intersect CheckBits = {}
    BY <2>1 DEF RuleInv, ListRules, FlagsInv, FlagsTellList
  <2>4. \A t \in Listed(ready) : priority[current] <= priority[t]
    BY <2>1, <2>2, HeadIsMostUrgent DEF RuleInv, ListRules
  <2> QED
    BY <2>1, <2>2, <2>3, <2>4
<1> QED
  BY SpecRules, <1>1, PTL

(* Under RulesKept a pending switch leads to the task that is first at the *)
(* moment it is taken.  Ticks and wake-ups of other tasks may come before; *)
(* that the task being switched out becomes ready again meanwhile, by a    *)
(* sleep as short as these ticks or by an interrupt, is what two of the    *)
(* rules exclude and not what is proved: see run short_sleep.              *)
THEOREM PendingSwitchIsUpToDate ==
    ASSUME RulesKept
    PROVE  Spec => []SwitchIsUpToDate
<1>1. RuleInv => SwitchIsUpToDate
  BY DEF RuleInv, SwitchInv, SwitchIsUpToDate
<1> QED
  BY SpecRules, <1>1, PTL

-----------------------------------------------------------------------------
(* Who leaves the ready list: only a task that joins the wait list.        *)
LEMMA LeaversWait ==
    ASSUME RuleInv, RuleInv', created \subseteq created', NEW X,
           Listed(wait') \subseteq Listed(wait) \union X
    PROVE  Listed(ready) \ Listed(ready') \subseteq X
<1>1. /\ Listed(ready) \intersect Listed(wait) = {}
      /\ Listed(ready) \subseteq created
  BY ListsKnown DEF RuleInv, ListRules
<1>2. Listed(ready') \union Listed(wait') = created'
  BY ListsKnownNext DEF RuleInv, ListRules
<1> QED
  BY <1>1, <1>2

(* A step that is neither a sleep nor a suspension puts no task on the     *)
(* wait list.                                                              *)
LEMMA WaitersDoNotJoin ==
    ASSUME RuleInv,
           \/ \E t \in Tasks : \/ CreateTask(t)
                               \/ TaskWake(t)
                               \/ WakeFromResource(t)
                               \/ WrongListUnlinked(t)
           \/ \E t \in Tasks, p \in Priorities : SetNewPriority(t, p)
           \/ Start \/ Dispatch \/ GetReasonForWakeup
           \/ TickStart \/ TickVisit \/ TickEnd
    PROVE  Listed(wait') \subseteq Listed(wait) /\ created \subseteq created'
<1>1. wait \in Seq(AllTasks) /\ IsInjective(wait)
  BY ListsKnown DEF RuleInv, ListRules
<1>2. ASSUME NEW t \in Listed(wait), MakeReady(t)
      PROVE  Listed(wait') \subseteq Listed(wait) /\ created' = created
  BY <1>1, <1>2, UnlinkFacts DEF MakeReady
<1>3. \/ wait' = wait /\ created \subseteq created'
      \/ \E t \in Listed(wait) : MakeReady(t)
  BY DEF CreateTask, TaskWake, WakeFromResource, WrongListUnlinked, MayWake,
         SetNewPriority, Start, Dispatch, GetReasonForWakeup, TickStart,
         TickVisit, TickMeetsSuspended, TickCountsDown, TickWakes,
         TickMislinks, TickEnd, listVars
<1> QED
  BY <1>2, <1>3

LEMMA LeaversSleep ==
    ASSUME RuleInv, RulesKept, [Next]_vars,
           NEW t \in Listed(ready) \ Listed(ready')
    PROVE  t = current \/ SUSPENDED \in flags'[t]
<1>1. RuleInv'
  BY NextRules
<1>2. CASE UNCHANGED vars
  BY <1>2 DEF vars, listVars
<1>3. ASSUME Listed(wait') \subseteq Listed(wait), created \subseteq created'
      PROVE  FALSE
  <2>1. Listed(wait') \subseteq Listed(wait) \union {}
    BY <1>3
  <2> QED
    BY <2>1, <1>1, <1>3, LeaversWait
<1>4. ASSUME NEW p, GoToSleep(p)
      PROVE  t = current
  <2>1. TaskRuns /\ ready' = Tail(ready)
    BY <1>4 DEF GoToSleep, SetNextReadyTaskToRun
  <2>2. current = Head(ready)
    BY <2>1, RunningTask
  <2>3. Listed(ready') = Listed(ready) \ {current}
    BY <2>1, <2>2, ListsKnown, TailFacts DEF RuleInv, ListRules
  <2> QED
    BY <2>3
<1>5. ASSUME NEW u \in Tasks, TaskSuspend(u)
      PROVE  SUSPENDED \in flags'[t]
  <2>1. ready' = Unlink(ready, u) /\ u \in Listed(ready)
    <3>1. TaskRuns
      BY <1>5 DEF TaskSuspend
    <3> QED
      BY <3>1, <1>5, RunningTask, RulesSuspended DEF RuleInv
  <2>2. t = u
    BY <2>1, ListsKnown, UnlinkFacts DEF RuleInv, ListRules
  <2>3. flags' = [flags EXCEPT ![u] = @ \union {SUSPENDED}]
    <3>1. flags[u] \intersect CheckBits = {}
      BY <2>1, ListsKnown DEF RuleInv, ListRules, FlagsInv, FlagsTellList
    <3> QED
      BY <3>1, <1>5 DEF TaskSuspend
  <2> QED
    BY <2>2, <2>3 DEF RuleInv, Inv, TypeOK, TypeOfTCBs, AllTasks
<1>6. CASE \/ \E u \in Tasks : \/ CreateTask(u)
                               \/ TaskWake(u)
                               \/ WakeFromResource(u)
                               \/ WrongListUnlinked(u)
           \/ \E u \in Tasks, p \in Priorities : SetNewPriority(u, p)
           \/ Start \/ Dispatch \/ GetReasonForWakeup
           \/ TickStart \/ TickVisit \/ TickEnd
  BY <1>3, <1>6, WaitersDoNotJoin
<1>7. CASE \/ \E p \in Periods : TaskSleep(p)
           \/ \E n \in WakeTimes : TaskSleepSetFreq(n)
           \/ \E r \in Resources, p \in Periods \ {0} : SetReasonForSleep(r, p)
  BY <1>4, <1>7 DEF TaskSleep, TaskSleepSetFreq, SetReasonForSleep
<1> QED
  BY <1>2, <1>5, <1>6, <1>7 DEF Next, NonTick

(* The head that setNextReadyTaskToRun takes off the ready list is always  *)
(* the caller: no step moves a ready task that did not ask to sleep and    *)
(* was not suspended.                                                      *)
THEOREM OnlySleepersLeave ==
    ASSUME RulesKept
    PROVE  Spec => OnlySleeperIsMoved
<1>1. RuleInv /\ [Next]_vars =>
         [\A t \in Listed(ready) \ Listed(ready') :
             t = current \/ SUSPENDED \in flags'[t]]_vars
  BY LeaversSleep
<1> QED
  BY SpecRules, <1>1, PTL DEF Spec, OnlySleeperIsMoved

-----------------------------------------------------------------------------
(***************************************************************************)
(* Faults.  The tick calls the handler of the resource that the flag bits  *)
(* name, with the resource pointer: both are set and cleared together.     *)
(* And it unlinks the node it visits from the wait list: it is still on it *)
(* if no other interrupt comes between.                                    *)
(***************************************************************************)

HeldInv ==
    \A t \in AllTasks :
        IF resource[t] = NoRes
          THEN HeldBits(t) = {}
          ELSE /\ SLEEP \in flags[t]
               /\ HeldBits(t) = BitsOf[KindOf[resource[t]]]

WalkInv == inTick => cursor \in Listed(wait) \union {NoTask}

(* The bits of a kind are never none.                                      *)
LEMMA BitsOfKind ==
    ASSUME NEW r \in Resources
    PROVE  BitsOf[KindOf[r]] \subseteq ResourceBits /\ BitsOf[KindOf[r]] # {}
<1>1. KindOf[r] \in Kinds
  BY ResourceAssumption
<1> QED
  BY <1>1 DEF Kinds, BitsOf, ResourceBits

LEMMA HeldSame ==
    ASSUME HeldInv, UNCHANGED <<flags, resource>>
    PROVE  HeldInv'
BY DEF HeldInv, HeldBits

(* One task's flags and resource change.                                   *)
LEMMA HeldFollows ==
    ASSUME Inv, HeldInv, NEW t \in AllTasks, NEW F, NEW r,
           flags' = [flags EXCEPT ![t] = F],
           resource' = [resource EXCEPT ![t] = r],
           IF r = NoRes THEN F \intersect ResourceBits = {}
                        ELSE /\ SLEEP \in F
                             /\ F \intersect ResourceBits = BitsOf[KindOf[r]]
    PROVE  HeldInv'
<1>1. /\ flags'[t] = F /\ resource'[t] = r
      /\ \A x \in AllTasks \ {t} :
            flags'[x] = flags[x] /\ resource'[x] = resource[x]
  BY DEF Inv, TypeOK, TypeOfTCBs
<1> QED
  BY <1>1 DEF HeldInv, HeldBits

(* A task on the ready list holds no resource.                             *)
LEMMA ReadyHoldsNothing ==
    ASSUME RuleInv, HeldInv, NEW t \in Listed(ready)
    PROVE  resource[t] = NoRes /\ HeldBits(t) = {}
<1>1. t \in created /\ t \in AllTasks /\ t \notin Listed(wait)
  BY ListsKnown DEF RuleInv, ListRules
<1>2. SLEEP \notin flags[t]
  BY <1>1 DEF RuleInv, ListRules, FlagsInv, FlagsTellList, CheckBits
<1> QED
  BY <1>1, <1>2 DEF HeldInv

(* The flags of one task change, its resource does not.                    *)
LEMMA HeldKept ==
    ASSUME Inv, HeldInv, NEW t \in AllTasks, NEW F,
           flags' = [flags EXCEPT ![t] = F], resource' = resource,
           F \intersect ResourceBits = HeldBits(t),
           resource[t] # NoRes => SLEEP \in F
    PROVE  HeldInv'
<1>1. resource' = [resource EXCEPT ![t] = resource[t]]
  BY DEF Inv, TypeOK, TypeOfTCBs
<1>2. IF resource[t] = NoRes
        THEN F \intersect ResourceBits = {}
        ELSE /\ SLEEP \in F
             /\ F \intersect ResourceBits = BitsOf[KindOf[resource[t]]]
  BY DEF HeldInv
<1> QED
  BY <1>1, <1>2, HeldFollows

LEMMA HeldNext ==
    ASSUME RuleInv, RulesKept, "wake_blocked" \notin Relaxed, HeldInv,
           [Next]_vars
    PROVE  HeldInv'
<1>0. SLEEP \notin ResourceBits /\ CheckBits \intersect ResourceBits = {}
      /\ SUSPENDED \notin ResourceBits
  BY DEF SLEEP, SUSPENDED, CheckBits, ResourceBits
<1>1. ASSUME NEW p \in Periods, TaskSleep(p)
      PROVE  HeldInv'
  <2> DEFINE F == flags[current] \union {SLEEP}
  <2>1. /\ TaskRuns /\ flags' = [flags EXCEPT ![current] = F]
        /\ resource' = resource
    BY <1>1 DEF TaskSleep, GoToSleep
  <2>2. current \in AllTasks /\ resource[current] = NoRes
    BY <2>1, RunningTask, ReadyHoldsNothing DEF AllTasks
  <2>3. F \intersect ResourceBits = HeldBits(current)
    BY <1>0 DEF HeldBits
  <2> HIDE DEF F
  <2> QED
    BY <2>1, <2>2, <2>3, HeldKept DEF RuleInv
<1>2. ASSUME NEW n \in WakeTimes, TaskSleepSetFreq(n)
      PROVE  HeldInv'
  <2> DEFINE F == flags[current] \union {SLEEP}
  <2>1. /\ TaskRuns /\ flags' = [flags EXCEPT ![current] = F]
        /\ resource' = resource
    BY <1>2 DEF TaskSleepSetFreq, GoToSleep
  <2>2. current \in AllTasks /\ resource[current] = NoRes
    BY <2>1, RunningTask, ReadyHoldsNothing DEF AllTasks
  <2>3. F \intersect ResourceBits = HeldBits(current)
    BY <1>0 DEF HeldBits
  <2> HIDE DEF F
  <2> QED
    BY <2>1, <2>2, <2>3, HeldKept DEF RuleInv
<1>3. ASSUME NEW r \in Resources, NEW p \in Periods \ {0},
             SetReasonForSleep(r, p)
      PROVE  HeldInv'
  <2> DEFINE B == BitsOf[KindOf[r]]
             F == flags[current] \union B \union {SLEEP}
  <2>1. /\ TaskRuns /\ flags' = [flags EXCEPT ![current] = F]
        /\ resource' = [resource EXCEPT ![current] = r]
    BY <1>3 DEF SetReasonForSleep, GoToSleep
  <2>2. current \in AllTasks /\ HeldBits(current) = {}
    BY <2>1, RunningTask, ReadyHoldsNothing DEF AllTasks
  <2>3. B \subseteq ResourceBits /\ r # NoRes
    BY BitsOfKind, ResourceAssumption
  <2>4. F \intersect ResourceBits = B /\ SLEEP \in F
    <3> HIDE DEF B
    <3> QED
      BY <1>0, <2>2, <2>3 DEF HeldBits
  <2> HIDE DEF F
  <2> QED
    BY <2>1, <2>2, <2>3, <2>4, HeldFollows DEF RuleInv
<1>4. ASSUME NEW t \in Tasks, TaskSuspend(t)
      PROVE  HeldInv'
  <2> DEFINE F == flags[t] \union {SUSPENDED}
  <2>1. /\ flags' = flags \/ flags' = [flags EXCEPT ![t] = F]
        /\ resource' = resource
    BY <1>4 DEF TaskSuspend
  <2>2. t \in AllTasks
    BY DEF AllTasks
  <2>3. F \intersect ResourceBits = HeldBits(t)
    BY <1>0 DEF HeldBits
  <2>4. resource[t] # NoRes => SLEEP \in F
    BY <2>2 DEF HeldInv
  <2> HIDE DEF F
  <2> QED
    BY <2>1, <2>2, <2>3, <2>4, HeldKept, HeldSame DEF RuleInv
<1>5. ASSUME NEW t \in Tasks, TaskWake(t)
      PROVE  HeldInv'
  <2> DEFINE F == flags[t] \ CheckBits
  <2>1. /\ resource[t] = NoRes /\ resource' = resource
        /\ flags' = [flags EXCEPT ![t] = F]
    BY <1>5 DEF TaskWake
  <2>2. t \in AllTasks
    BY DEF AllTasks
  <2>3. F \intersect ResourceBits = HeldBits(t)
    BY <1>0 DEF HeldBits
  <2> HIDE DEF F
  <2> QED
    BY <2>1, <2>2, <2>3, HeldKept DEF RuleInv
<1>6. ASSUME NEW t \in Tasks, WakeFromResource(t)
      PROVE  HeldInv'
  <2> DEFINE B == BitsOf[KindOf[resource[t]]]
             F == (flags[t] \ B) \ CheckBits
  <2>1. /\ resource[t] # NoRes
        /\ resource' = [resource EXCEPT ![t] = NoRes]
        /\ flags' = [flags EXCEPT ![t] = F]
    BY <1>6 DEF WakeFromResource
  <2>2. t \in AllTasks
    BY DEF AllTasks
  <2>3. HeldBits(t) = B
    BY <2>1, <2>2 DEF HeldInv
  <2>4. F \intersect ResourceBits = {}
    <3> HIDE DEF B
    <3> QED
      BY <2>3 DEF HeldBits
  <2> HIDE DEF F
  <2> QED
    BY <2>1, <2>2, <2>4, HeldFollows DEF RuleInv
<1>7. CASE TickWakes
  <2> DEFINE t == cursor
             F == flags[t] \ ({SLEEP} \union ResourceBits)
  <2>1. /\ t \in Listed(wait)
        /\ resource' = IF HeldBits(t) = {} THEN resource
                                           ELSE [resource EXCEPT ![t] = NoRes]
        /\ flags' = [flags EXCEPT ![t] = F]
    BY <1>7 DEF TickWakes, TaskSleepTimeoutHandler
  <2>2. t \in AllTasks
    BY <2>1, ListsKnown DEF RuleInv, ListRules
  <2>3. F \intersect ResourceBits = {}
    OBVIOUS
  <2> HIDE DEF F, t
  <2>4. HeldBits(t) = {} => resource[t] = NoRes
    BY <2>2, BitsOfKind DEF HeldInv, RuleInv, Inv, TypeOK, TypeOfTCBs
  <2>5. CASE HeldBits(t) = {}
    BY <2>1, <2>2, <2>3, <2>4, <2>5, HeldKept DEF RuleInv
  <2>6. CASE HeldBits(t) # {}
    BY <2>1, <2>2, <2>3, <2>6, HeldFollows DEF RuleInv
  <2> QED
    BY <2>5, <2>6
<1>8. CASE \/ \E t \in Tasks : CreateTask(t) \/ WrongListUnlinked(t)
           \/ \E t \in Tasks, p \in Priorities : SetNewPriority(t, p)
           \/ Start \/ Dispatch \/ GetReasonForWakeup \/ TickStart
           \/ TickMeetsSuspended \/ TickCountsDown \/ TickMislinks
           \/ TickEnd \/ UNCHANGED vars
  <2>1. UNCHANGED <<flags, resource>>
    BY <1>8 DEF CreateTask, WrongListUnlinked, SetNewPriority, Start, Dispatch,
                GetReasonForWakeup, TickStart, TickMeetsSuspended,
                TickCountsDown, TickMislinks, TickEnd, vars
  <2> QED
    BY <2>1, HeldSame
<1> QED
  BY <1>1, <1>2, <1>3, <1>4, <1>5, <1>6, <1>7, <1>8
     DEF Next, NonTick, TickVisit

LEMMA WalkNext ==
    ASSUME RuleInv, RulesKept, "isr_in_tick" \notin Relaxed, WalkInv,
           [Next]_vars
    PROVE  WalkInv'
<1>1. CASE TickStart
  <2>1. inTick' => wait # << >> /\ cursor' = Head(wait) /\ wait' = wait
    BY <1>1 DEF TickStart, listVars
  <2>2. wait # << >> => Head(wait) \in Listed(wait)
    BY ListsKnown, HeadListed DEF RuleInv, ListRules
  <2> QED
    BY <2>1, <2>2 DEF WalkInv
<1>2. CASE TickCountsDown \/ TickWakes
  <2>1. /\ Visiting /\ cursor' = CursorNext /\ inTick' = inTick
        /\ \/ wait' = wait
           \/ cursor \in Listed(wait) /\ wait' = Unlink(wait, cursor)
    BY <1>2 DEF TickCountsDown, TickWakes, MakeReady, listVars
  <2>2. cursor \in Listed(wait)
    BY <2>1 DEF WalkInv, Visiting
  <2>3. cursor' \in Listed(wait') \union {NoTask}
    <3>1. Inv /\ SoundLists
      BY DEF RuleInv, ListRules
    <3> QED
      BY <2>1, <2>2, <3>1, VisitGoesOn
  <2> QED
    BY <2>3 DEF WalkInv
<1>3. CASE TickMeetsSuspended
  BY <1>3 DEF TickMeetsSuspended, WalkInv
<1>4. CASE \/ \E p \in Periods : TaskSleep(p)
           \/ \E n \in WakeTimes : TaskSleepSetFreq(n)
           \/ \E r \in Resources, p \in Periods \ {0} : SetReasonForSleep(r, p)
           \/ GetReasonForWakeup
           \/ \E t \in Tasks : TaskSuspend(t)
  <2>1. TaskRuns /\ inTick' = inTick
    BY <1>4 DEF TaskSleep, TaskSleepSetFreq, SetReasonForSleep, GoToSleep,
                GetReasonForWakeup, TaskSuspend, tickVars
  <2> QED
    BY <2>1 DEF TaskRuns, WalkInv
<1>5. CASE \E t \in Tasks : \/ TaskWake(t)
                            \/ WakeFromResource(t)
                            \/ WrongListUnlinked(t)
  <2>1. InterruptRuns /\ inTick' = inTick
    BY <1>5 DEF TaskWake, WakeFromResource, WrongListUnlinked, MayWake, tickVars
  <2> QED
    BY <2>1 DEF InterruptRuns, WalkInv
<1>6. CASE \/ \E t \in Tasks : CreateTask(t)
           \/ \E t \in Tasks, p \in Priorities : SetNewPriority(t, p)
           \/ Start \/ Dispatch \/ TickMislinks \/ UNCHANGED vars
  <2>1. UNCHANGED <<wait, inTick, cursor>>
    BY <1>6 DEF CreateTask, SetNewPriority, Start, Dispatch, TickMislinks,
                listVars, tickVars, vars
  <2> QED
    BY <2>1 DEF WalkInv
<1>7. CASE TickEnd
  BY <1>7 DEF TickEnd, WalkInv
<1> QED
  BY <1>1, <1>2, <1>3, <1>4, <1>5, <1>6, <1>7 DEF Next, NonTick, TickVisit

LEMMA FaultNext ==
    ASSUME RuleInv, Relaxed = {}, HeldInv, WalkInv, NoFault, [Next]_vars
    PROVE  NoFault'
<1>1. RulesKept
  BY DEF RulesKept
<1>2. ASSUME NEW p, GoToSleep(p)
      PROVE  NoFault'
  BY <1>2, RunningTask DEF GoToSleep, SetNextReadyTaskToRun, NoFault
<1>3. ASSUME NEW t \in Tasks, TaskSuspend(t)
      PROVE  NoFault'
  BY <1>1, <1>3, RulesSuspended DEF RuleInv, NoFault
<1>4. ASSUME NEW t \in Tasks, WrongListUnlinked(t)
      PROVE  NoFault'
  BY <1>4, WrongListUnlinkedNever
<1>5. CASE TickWakes
  <2>1. cursor \in AllTasks
    BY <1>5, ListsKnown DEF TickWakes, RuleInv, ListRules
  <2>2. HandlerDefined(cursor)
    BY <2>1 DEF HeldInv, HandlerDefined
  <2> QED
    BY <1>5, <2>2 DEF TickWakes, TaskSleepTimeoutHandler, NoFault
<1>6. CASE TickMislinks
  <2>1. "isr_in_visit" \notin Relaxed
    OBVIOUS
  <2> QED
    BY <1>6, <2>1, ListsKnown
       DEF TickMislinks, Visiting, WalkInv, RuleInv, ListRules
<1>7. CASE \/ \E p \in Periods : TaskSleep(p)
           \/ \E n \in WakeTimes : TaskSleepSetFreq(n)
           \/ \E r \in Resources, p \in Periods \ {0} : SetReasonForSleep(r, p)
  BY <1>2, <1>7 DEF TaskSleep, TaskSleepSetFreq, SetReasonForSleep
<1>8. CASE \/ \E t \in Tasks : \/ CreateTask(t)
                               \/ TaskWake(t)
                               \/ WakeFromResource(t)
           \/ \E t \in Tasks, p \in Priorities : SetNewPriority(t, p)
           \/ Start \/ Dispatch \/ GetReasonForWakeup \/ TickStart
           \/ TickMeetsSuspended \/ TickCountsDown \/ TickEnd
           \/ UNCHANGED vars
  BY <1>8 DEF CreateTask, TaskWake, WakeFromResource, SetNewPriority, Start,
              Dispatch, GetReasonForWakeup, TickStart, TickMeetsSuspended,
              TickCountsDown, TickEnd, vars, NoFault
<1> QED
  BY <1>3, <1>4, <1>5, <1>6, <1>7, <1>8 DEF Next, NonTick, TickVisit

(* Under every usage rule nothing undefined or fatal is reached: no list   *)
(* runs empty, no node is unlinked through the wrong head, and the timeout *)
(* handler always finds the resource that the flag bits name.              *)
THEOREM NeverFaults ==
    ASSUME Relaxed = {}
    PROVE  Spec => []NoFault
<1> DEFINE FaultInv == HeldInv /\ WalkInv /\ NoFault
<1>1. RulesKept
  BY DEF RulesKept
<1>2. Init => FaultInv
  BY DEF Init, HeldInv, HeldBits, WalkInv, NoFault
<1>3. RuleInv /\ FaultInv /\ [Next]_vars => FaultInv'
  BY <1>1, HeldNext, WalkNext, FaultNext
<1>4. FaultInv => NoFault
  OBVIOUS
<1>5. Spec => []RuleInv
  BY <1>1, SpecRules
<1> HIDE DEF FaultInv
<1> QED
  BY <1>2, <1>3, <1>4, <1>5, PTL DEF Spec

-----------------------------------------------------------------------------
(***************************************************************************)
(* Several tasks woken in one critical section, as a flush of a queue and  *)
(* a post of event flags do.                                               *)
(***************************************************************************)

(* rd and wt are the lists when the tasks in woken have changed over.      *)
Linked(woken, rd, wt) ==
    /\ rd \in Seq(AllTasks) /\ IsInjective(rd)
    /\ rd # << >> /\ Last(rd) = BG
    /\ Listed(rd) = Listed(ready) \union woken
    /\ SortedByPrio(rd, priority)
    /\ Head(rd) \in woken \union {Head(ready)}
    /\ wt \in Seq(AllTasks) /\ IsInjective(wt)
    /\ Listed(wt) = Listed(wait) \ woken
    /\ AtEnd(wt, Suspended)
    /\ cursor \in Listed(wt) => From(wt, cursor) \subseteq From(wait, cursor)

LEMMA LinkedNone ==
    ASSUME RuleInv, fault = "none"
    PROVE  Linked({}, ready, wait)
BY ListsKnown DEF Linked, RuleInv, ListRules, Inv, ListsInv

LEMMA LinkedOneMore ==
    ASSUME RuleInv, NEW woken, NEW t \in Listed(wait) \ woken,
           NEW rd, NEW wt, Linked(woken, rd, wt)
    PROVE  Linked(woken \union {t}, InsertByPrio(rd, t, priority), Unlink(wt, t))
<1> DEFINE rd2 == InsertByPrio(rd, t, priority)
           wt2 == Unlink(wt, t)
<1>1. /\ t \in created /\ t \in AllTasks /\ t \notin Listed(ready)
      /\ priority \in [AllTasks -> Nat] /\ priority[t] < priority[BG]
  BY ListsKnown DEF RuleInv, ListRules, Inv, PrioritiesInv
<1>2. t \notin Listed(rd) /\ t \in Listed(wt)
  BY <1>1 DEF Linked
<1>3. CanInsert(rd, t, priority)
  BY <1>1, Sentinel DEF Linked
<1>4. /\ rd2 \in Seq(AllTasks)
      /\ Listed(rd2) = Listed(rd) \union {t}
      /\ IsInjective(rd2) /\ rd2 # << >> /\ Last(rd2) = BG
  BY <1>1, <1>2, ReadyInsert DEF Linked
<1>5. SortedByPrio(rd2, priority) /\ Head(rd2) \in {t, Head(rd)}
  BY <1>1, <1>3, SortedInsert, HeadOfInsert DEF Linked
<1>6. /\ wt2 \in Seq(AllTasks)
      /\ Listed(wt2) = Listed(wt) \ {t}
      /\ IsInjective(wt2) /\ AtEnd(wt2, Suspended)
  BY <1>2, UnlinkFacts, AtEndUnlink DEF Linked
<1>7. ASSUME cursor \in Listed(wt2)
      PROVE  From(wt2, cursor) \subseteq From(wait, cursor)
  <2>1. cursor \in Listed(wt) /\ cursor # t
    BY <1>6, <1>7
  <2>2. From(wt2, cursor) = From(wt, cursor) \ {t}
    BY <1>2, <2>1, FromUnlink DEF Linked
  <2> QED
    BY <2>1, <2>2 DEF Linked
<1> HIDE DEF rd2, wt2
<1>8. Linked(woken \union {t}, rd2, wt2)
  BY <1>4, <1>5, <1>6, <1>7 DEF Linked
<1> QED
  BY <1>8 DEF rd2, wt2

(* The step: the bits in gone are cleared with those of the two states.    *)
WakesGroup(woken, gone) ==
    /\ woken \subseteq Listed(wait) /\ woken \subseteq created \ {BG}
    /\ pend /\ current \in woken => "late_wake" \in Relaxed
    /\ flags' = [t \in AllTasks |->
                   IF t \in woken THEN flags[t] \ (gone \union CheckBits)
                                  ELSE flags[t]]
    /\ resource' = [t \in AllTasks |->
                      IF t \in woken THEN NoRes ELSE resource[t]]
    /\ sleepCntr' = [t \in AllTasks |->
                       IF t \in woken THEN 0 ELSE sleepCntr[t]]
    /\ wakeReason' \in [AllTasks -> Reasons]
    /\ Linked(woken, ready', wait')
    /\ IF woken = {} THEN UNCHANGED switchVars ELSE PreemptIfHeadChanged
    /\ UNCHANGED <<created, priority, tickVars, fault>>

LEMMA GroupFlags ==
    ASSUME NEW woken, NEW gone, WakesGroup(woken, gone), NEW t \in AllTasks
    PROVE  IF t \in woken
             THEN /\ flags'[t] = flags[t] \ (gone \union CheckBits)
                  /\ resource'[t] = NoRes /\ sleepCntr'[t] = 0
             ELSE /\ flags'[t] = flags[t] /\ resource'[t] = resource[t]
                  /\ sleepCntr'[t] = sleepCntr[t]
BY DEF WakesGroup

LEMMA GroupInv ==
    ASSUME RuleInv, fault = "none", NEW woken, NEW gone, WakesGroup(woken, gone)
    PROVE  Inv'
<1>1. /\ woken \subseteq Listed(wait)
      /\ woken \subseteq created \ {BG}
      /\ ready' \in Seq(AllTasks) /\ IsInjective(ready')
      /\ ready' # << >> /\ Last(ready') = BG
      /\ Listed(ready') = Listed(ready) \union woken
      /\ wait' \in Seq(AllTasks) /\ IsInjective(wait')
      /\ Listed(wait') = Listed(wait) \ woken
      /\ AtEnd(wait', Suspended)
  BY DEF WakesGroup, Linked
<1>2. /\ created' = created /\ created \subseteq AllTasks
      /\ priority' = priority /\ fault' = fault
      /\ UNCHANGED tickVars
      /\ Listed(ready) \intersect Listed(wait) = {}
      /\ Listed(ready) \union Listed(wait) = created
  BY ListsKnown DEF WakesGroup, RuleInv, ListRules
<1>3. \A t \in AllTasks :
         IF t \in woken
             THEN /\ flags'[t] = flags[t] \ (gone \union CheckBits)
                  /\ resource'[t] = NoRes /\ sleepCntr'[t] = 0
             ELSE /\ flags'[t] = flags[t] /\ resource'[t] = resource[t]
                  /\ sleepCntr'[t] = sleepCntr[t]
  BY GroupFlags
<1>4. Suspended' = Suspended \ woken
  BY <1>3 DEF Suspended, CheckBits
<1>5. TypeOfLists'
  BY <1>1, <1>2, SeqOfListed DEF TypeOfLists
<1>6. PrioritiesInv'
  BY <1>2 DEF PrioritiesInv, RuleInv, Inv
<1>7. ListsInv'
  <2>1. LinkedOnce' /\ SoundLists'
    BY <1>1, <1>2 DEF LinkedOnce, SoundLists
  <2>2. Listed(ready') \intersect Suspended' = {}
    BY <1>1, <1>4 DEF RuleInv, Inv, ListsInv
  <2>3. AtEnd(wait', Suspended')
    <3>1. \A x \in Listed(wait') : x \in Suspended <=> x \in Suspended'
      BY <1>1, <1>4
    <3> QED
      BY <1>1, <3>1, AtEndSame
  <2>4. Suspended' \subseteq created'
    BY <1>2, <1>4 DEF RuleInv, Inv, ListsInv
  <2> QED
    BY <2>1, <2>2, <2>3, <2>4 DEF ListsInv
<1>8. TypeOfTCBs'
  <2>1. /\ flags' = [t \in AllTasks |-> flags'[t]]
        /\ resource' = [t \in AllTasks |-> resource'[t]]
        /\ sleepCntr' = [t \in AllTasks |-> sleepCntr'[t]]
        /\ wakeReason' \in [AllTasks -> Reasons]
    BY DEF WakesGroup
  <2>2. 0 \in 0 .. CntMod - 1
    BY TickAssumption
  <2>3. \A t \in AllTasks :
           /\ flags'[t] \in SUBSET (CheckBits \union ResourceBits)
           /\ resource'[t] \in Resources \union {NoRes}
           /\ sleepCntr'[t] \in 0 .. CntMod - 1
    BY <1>3, <2>2 DEF RuleInv, Inv, TypeOK, TypeOfTCBs
  <2>4. /\ flags' \in [AllTasks -> SUBSET (CheckBits \union ResourceBits)]
        /\ resource' \in [AllTasks -> Resources \union {NoRes}]
        /\ sleepCntr' \in [AllTasks -> 0 .. CntMod - 1]
    BY <2>1, <2>3
  <2> QED
    BY <1>2, <2>1, <2>4 DEF RuleInv, Inv, TypeOK, TypeOfTCBs
<1>9. TypeOfSwitch'
  <2>1. CASE PreemptIfHeadChanged
    BY <1>1, <1>2, <2>1, PreemptTyped DEF RuleInv
  <2>2. CASE UNCHANGED switchVars
    BY <1>2, <2>2 DEF switchVars, RuleInv, Inv, TypeOK, TypeOfSwitch
  <2>3. PreemptIfHeadChanged \/ UNCHANGED switchVars
    BY Zenon DEF WakesGroup
  <2> QED
    BY <2>1, <2>2, <2>3
<1>10. TypeOfTick' /\ (cursor \in created \union {NoTask})'
  BY <1>2 DEF tickVars, RuleInv, Inv, TypeOK, TypeOfTick
<1> QED
  BY <1>5, <1>6, <1>7, <1>8, <1>9, <1>10 DEF Inv, TypeOK

LEMMA GroupRules ==
    ASSUME RuleInv, RulesKept, NEW woken, NEW gone, WakesGroup(woken, gone),
           InterruptRuns
    PROVE  RuleInv'
<1>1. fault = "none" /\ started
  BY DEF InterruptRuns
<1>2. /\ woken \subseteq Listed(wait) /\ woken \subseteq created \ {BG}
      /\ ready' # << >> /\ Last(ready') = BG
      /\ Listed(ready') = Listed(ready) \union woken
      /\ SortedByPrio(ready', priority)
      /\ Head(ready') \in woken \union {Head(ready)}
      /\ Listed(wait') = Listed(wait) \ woken
  BY DEF WakesGroup, Linked
<1>3. \A t \in woken : pend => t # current
  BY RulesGive DEF WakesGroup
<1>4. \A t \in AllTasks :
         IF t \in woken
             THEN flags'[t] = flags[t] \ (gone \union CheckBits)
             ELSE flags'[t] = flags[t] /\ sleepCntr'[t] = sleepCntr[t]
  BY GroupFlags
<1>5. /\ created' = created /\ created \subseteq AllTasks
      /\ priority' = priority
      /\ UNCHANGED <<current, late, started>>
      /\ UNCHANGED tickVars
      /\ Listed(ready) \intersect Listed(wait) = {}
      /\ Listed(ready) \union Listed(wait) = created
      /\ woken = {} => UNCHANGED switchVars
      /\ woken # {} => PreemptIfHeadChanged
  BY ListsKnown
     DEF WakesGroup, RuleInv, ListRules, switchVars, PreemptIfHeadChanged
<1>6. Inv'
  BY <1>1, GroupInv
<1>7. ListRules'
  <2>1. SoundLists'
    BY <1>2, <1>5 DEF SoundLists
  <2>2. FlagsTellList'
    BY <1>2, <1>4, <1>5
       DEF FlagsTellList, RuleInv, ListRules, FlagsInv, CheckBits
  <2>3. \A t \in AllTasks \ created : flags'[t] = {}
    BY <1>2, <1>4 DEF RuleInv, ListRules, FlagsInv
  <2> QED
    BY <1>2, <1>5, <2>1, <2>2, <2>3 DEF ListRules, FlagsInv
<1>8. pend => Head(ready') # current
  BY <1>2, <1>3 DEF RuleInv, SwitchInv
<1>9. ~pend => current \in Listed(ready')
  BY <1>1, <1>2 DEF RuleInv, SwitchInv
<1>10. SwitchInv'
  <2>1. CASE woken # {}
    BY <1>1, <1>5, <1>8, <1>9, <2>1, PreemptSwitch DEF RuleInv
  <2>2. CASE woken = {}
    <3>1. Head(ready') = Head(ready) /\ Listed(ready') = Listed(ready)
      BY <1>2, <2>2
    <3> QED
      BY <1>5, <2>2, <3>1 DEF SwitchInv, RuleInv, switchVars, tickVars
  <2> QED
    BY <2>1, <2>2
<1>11. ToVisit' \subseteq ToVisit
  BY <1>2, <1>5 DEF WakesGroup, Linked, ToVisit, tickVars
<1>12. OutlastInv'
  <2>1. CASE ~pend
    BY <1>2, <1>5, <1>9, <2>1, OutlastReady
  <2>2. CASE pend
    <3>1. current \in Listed(wait) =>
             /\ sleepCntr'[current] = sleepCntr[current]
             /\ flags'[current] = flags[current]
      BY <1>3, <1>4, <1>5, <2>2
    <3> QED
      BY <1>2, <1>5, <1>11, <2>2, <3>1, OutlastSame DEF RuleInv
  <2> QED
    BY <2>1, <2>2
<1> QED
  BY <1>6, <1>7, <1>10, <1>12 DEF RuleInv

LEMMA GroupHeld ==
    ASSUME HeldInv, NEW woken, NEW gone, WakesGroup(woken, gone),
           \A t \in woken : HeldBits(t) \subseteq gone
    PROVE  HeldInv'
<1>1. ASSUME NEW t \in AllTasks
      PROVE  IF resource'[t] = NoRes
               THEN HeldBits(t)' = {}
               ELSE /\ SLEEP \in flags'[t]
                    /\ HeldBits(t)' = BitsOf[KindOf[resource'[t]]]
  <2>1. CASE t \in woken
    <3>1. flags[t] \intersect ResourceBits \subseteq gone
      BY <2>1 DEF HeldBits
    <3>2. flags'[t] = flags[t] \ (gone \union CheckBits) /\ resource'[t] = NoRes
      BY <2>1, GroupFlags
    <3> QED
      BY <3>1, <3>2 DEF HeldBits
  <2>2. CASE t \notin woken
    <3>1. flags'[t] = flags[t] /\ resource'[t] = resource[t]
      BY <2>2, GroupFlags
    <3> QED
      BY <3>1 DEF HeldInv, HeldBits
  <2> QED
    BY <2>1, <2>2
<1> QED
  BY <1>1 DEF HeldInv

=============================================================================
