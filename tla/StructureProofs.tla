-------------------------- MODULE StructureProofs ---------------------------
(***************************************************************************)
(* Theorems about the two data structures that the kernel is built on:     *)
(* the pointer lists of ListMgr, for any nodes, lists and priorities, and  *)
(* the partitions of Memory, for any number of tasks and any partitions.   *)
(***************************************************************************)
EXTENDS ListMgr, Memory, FiniteSetTheorems, TLAPS

(***************************************************************************)
(* ListMgr.                                                                *)
(***************************************************************************)

(***************************************************************************)
(* r is s with n put in at i, and s without the element at i.              *)
(***************************************************************************)

PutIn(s, i, n, r) ==
    /\ r \in Seq(Nodes) /\ Len(r) = Len(s) + 1
    /\ \A j \in 1 .. i - 1 : r[j] = s[j]
    /\ r[i] = n
    /\ \A j \in i .. Len(s) : r[j + 1] = s[j]

TakenOut(s, i, r) ==
    /\ r \in Seq(Nodes) /\ Len(r) = Len(s) - 1
    /\ \A j \in 1 .. i - 1 : r[j] = s[j]
    /\ \A j \in i .. Len(s) - 1 : r[j] = s[j + 1]

LEMMA InsertPutsIn ==
    ASSUME NEW s \in Seq(Nodes), NEW n \in Nodes, NEW i \in 1 .. Len(s) + 1
    PROVE  PutIn(s, i, n, InsertAt(s, i, n))
<1> DEFINE a == SubSeq(s, 1, i - 1) \o <<n>>
           c == SubSeq(s, i, Len(s))
<1>1. a \in Seq(Nodes) /\ Len(a) = i
  OBVIOUS
<1>2. a[i] = n /\ \A j \in 1 .. i - 1 : a[j] = s[j]
  OBVIOUS
<1>3. c \in Seq(Nodes) /\ Len(c) = Len(s) - i + 1
  OBVIOUS
<1>4. \A j \in i .. Len(s) : c[j - i + 1] = s[j]
  OBVIOUS
<1> HIDE DEF a, c
<1>5. a \o c \in Seq(Nodes) /\ Len(a \o c) = Len(s) + 1
  BY <1>1, <1>3
<1>6. \A j \in 1 .. i : (a \o c)[j] = a[j]
  BY <1>1, <1>3
<1>7. ASSUME NEW j \in i .. Len(s) PROVE (a \o c)[j + 1] = s[j]
  <2>1. (a \o c)[j + 1] = c[j - i + 1]
    BY <1>1, <1>3
  <2> QED
    BY <2>1, <1>4
<1>8. InsertAt(s, i, n) = a \o c
  BY DEF InsertAt, a, c
<1> QED
  BY <1>2, <1>5, <1>6, <1>7, <1>8 DEF PutIn

LEMMA FrontPutsIn ==
    ASSUME NEW s \in Seq(Nodes), NEW n \in Nodes
    PROVE  PutIn(s, 1, n, <<n>> \o s)
BY DEF PutIn

LEMMA EndPutsIn ==
    ASSUME NEW s \in Seq(Nodes), NEW n \in Nodes
    PROVE  PutIn(s, Len(s) + 1, n, Append(s, n))
BY DEF PutIn

LEMMA RemoveTakesOut ==
    ASSUME NEW s \in Seq(Nodes), NEW i \in 1 .. Len(s)
    PROVE  TakenOut(s, i, RemoveAt(s, i))
<1> DEFINE a == SubSeq(s, 1, i - 1)
           c == SubSeq(s, i + 1, Len(s))
<1>1. a \in Seq(Nodes) /\ Len(a) = i - 1
  OBVIOUS
<1>2. \A j \in 1 .. i - 1 : a[j] = s[j]
  OBVIOUS
<1>3. c \in Seq(Nodes) /\ Len(c) = Len(s) - i
  OBVIOUS
<1>4. \A j \in i .. Len(s) - 1 : c[j - i + 1] = s[j + 1]
  OBVIOUS
<1> HIDE DEF a, c
<1>5. a \o c \in Seq(Nodes) /\ Len(a \o c) = Len(s) - 1
  BY <1>1, <1>3
<1>6. \A j \in 1 .. i - 1 : (a \o c)[j] = a[j]
  BY <1>1, <1>3
<1>7. ASSUME NEW j \in i .. Len(s) - 1 PROVE (a \o c)[j] = s[j + 1]
  <2>1. (a \o c)[j] = c[j - i + 1]
    BY <1>1, <1>3
  <2> QED
    BY <2>1, <1>4
<1>8. RemoveAt(s, i) = a \o c
  BY DEF RemoveAt, a, c
<1> QED
  BY <1>2, <1>5, <1>6, <1>7, <1>8 DEF TakenOut

LEMMA TailTakesOut ==
    ASSUME NEW s \in Seq(Nodes), s # << >>
    PROVE  TakenOut(s, 1, Tail(s))
BY DEF TakenOut

-----------------------------------------------------------------------------
(***************************************************************************)
(* The strengthening: a walk is at a node of its list, and has passed none *)
(* that it was looking for.                                                *)
(***************************************************************************)

WalkAt(i) ==
    LET s == content[op.list]
        n == op.node
    IN  /\ op.at = s[i]
        /\ \/ op.walk = "end" /\ OnNoList(n)
           \/ /\ op.walk = "prio" /\ OnNoList(n)
              /\ LessUrgent(s, n, Prio) # {}
              /\ Prio[s[1]] < Prio[n]
              /\ \A j \in 1 .. i - 1 : Prio[s[j]] <= Prio[n]
           \/ /\ op.walk = "tcb" /\ OnList(op.list, n)
              /\ \A j \in 1 .. i - 1 : s[j] # n

WalkInv == op # Idle => \E i \in DOMAIN content[op.list] : WalkAt(i)

ListInv == Represents /\ WalkInv

LEMMA NullIsNone ==
    ASSUME NEW n \in Nodes
    PROVE  n # Null
BY NodeAssumption

(* The operation in progress.                                              *)
LEMMA WalkShape ==
    ASSUME PointersTyped, op # Idle
    PROVE  /\ op.walk \in {"end", "prio", "tcb"}
           /\ op.list \in Lists /\ op.node \in Nodes
           /\ op.at \in Nodes \union {Null}
BY DEF PointersTyped

LEMMA IdleWalks ==
    Idle.walk \notin {"end", "prio", "tcb"}
BY DEF Idle

(* A list's elements, and the list a node is on.                           *)
LEMMA Elements ==
    ASSUME Represents, NEW l \in Lists
    PROVE  /\ content[l] \in Seq(Nodes) /\ Len(content[l]) \in Nat
           /\ DOMAIN content[l] = 1 .. Len(content[l])
           /\ \A i \in 1 .. Len(content[l]) :
                 content[l][i] \in Nodes /\ OnList(l, content[l][i])
           /\ \A i, j \in 1 .. Len(content[l]) :
                 content[l][i] = content[l][j] => i = j
           /\ head[l] = Null <=> content[l] = << >>
<1>1. /\ content[l] \in Seq(Nodes)
      /\ Spells(l, content[l]) /\ IsInjective(content[l])
  BY DEF Represents, PointersTyped
<1>2. \A i \in 1 .. Len(content[l]) : content[l][i] \in Nodes
  BY <1>1
<1>3. content[l] # << >> => 1 \in 1 .. Len(content[l])
  BY <1>1
<1> QED
  BY <1>1, <1>2, <1>3, NullIsNone DEF Spells, IsInjective, OnList

(* What the pointers at a node and the head are.                           *)
LEMMA Links ==
    ASSUME Represents, NEW l \in Lists, NEW i \in 1 .. Len(content[l])
    PROVE  /\ content[l][i] \in Nodes
           /\ nextNode[content[l][i]] =
                 IF i = Len(content[l]) THEN Null ELSE content[l][i + 1]
           /\ previousNode[content[l][i]] =
                 IF i = 1 THEN Null ELSE content[l][i - 1]
           /\ head[l] = content[l][1]
<1>1. DOMAIN content[l] = 1 .. Len(content[l]) /\ content[l] # << >>
  BY Elements
<1>2. Spells(l, content[l])
  BY DEF Represents
<1>3. /\ nextNode[content[l][i]] =
            IF i = Len(content[l]) THEN Null ELSE content[l][i + 1]
      /\ previousNode[content[l][i]] =
            IF i = 1 THEN Null ELSE content[l][i - 1]
  BY <1>1, <1>2 DEF Spells
<1>4. head[l] = content[l][1]
  BY <1>1, <1>2 DEF Spells
<1>5. content[l][i] \in Nodes
  BY Elements
<1> QED
  BY <1>3, <1>4, <1>5

LEMMA OneList ==
    ASSUME Represents, NEW l \in Lists, NEW k \in Lists, NEW n,
           OnList(l, n), OnList(k, n)
    PROVE  l = k
BY DEF Represents, OnList

-----------------------------------------------------------------------------
(* The pointers when a node is linked in or unlinked.                      *)

LinkedIn(l, i, n) ==
    LET s == content[l]
    IN  /\ head' = [head EXCEPT ![l] = IF i = 1 THEN n ELSE @]
        /\ nextNode' = [m \in Nodes |->
              IF m = n THEN IF i = Len(s) + 1 THEN Null ELSE s[i]
              ELSE IF i > 1 /\ m = s[i - 1] THEN n ELSE nextNode[m]]
        /\ previousNode' = [m \in Nodes |->
              IF m = n THEN IF i = 1 THEN Null ELSE s[i - 1]
              ELSE IF i <= Len(s) /\ m = s[i] THEN n ELSE previousNode[m]]

LinkedOut(l, i) ==
    LET s == content[l]
        after == IF i = Len(s) THEN Null ELSE s[i + 1]
        before == IF i = 1 THEN Null ELSE s[i - 1]
    IN  /\ head' = [head EXCEPT ![l] = IF i = 1 THEN after ELSE @]
        /\ nextNode' = [m \in Nodes |->
              IF m = s[i] THEN Null
              ELSE IF m = before THEN after ELSE nextNode[m]]
        /\ previousNode' = [m \in Nodes |->
              IF m = s[i] THEN Null
              ELSE IF m = after THEN before ELSE previousNode[m]]

(* A list none of whose nodes and whose head are not touched.              *)
LEMMA SpellsSame ==
    ASSUME Represents, NEW k \in Lists, content'[k] = content[k],
           head'[k] = head[k],
           \A i \in 1 .. Len(content[k]) :
              /\ nextNode'[content[k][i]] = nextNode[content[k][i]]
              /\ previousNode'[content[k][i]] = previousNode[content[k][i]]
    PROVE  Spells(k, content[k])' /\ IsInjective(content[k])'
<1>1. Spells(k, content[k]) /\ IsInjective(content[k])
  BY DEF Represents
<1>2. DOMAIN content[k] = 1 .. Len(content[k])
  BY Elements
<1> QED
  BY <1>1, <1>2 DEF Spells

LEMMA LinkIn ==
    ASSUME Represents, NEW l \in Lists, NEW n \in Nodes, OnNoList(n),
           NEW i \in 1 .. Len(content[l]) + 1, LinkedIn(l, i, n),
           NEW r, PutIn(content[l], i, n, r),
           content' = [content EXCEPT ![l] = r], op' = Idle
    PROVE  ListInv'
<1>1. PICK s : s = content[l]
  OBVIOUS
<1>2. /\ s \in Seq(Nodes) /\ Len(s) \in Nat
      /\ DOMAIN s = 1 .. Len(s)
      /\ \A j \in 1 .. Len(s) : s[j] \in Nodes /\ s[j] # n
      /\ \A j, k \in 1 .. Len(s) : s[j] = s[k] => j = k
  BY <1>1, Elements DEF OnNoList
<1>3. /\ i \in 1 .. Len(s) + 1
      /\ r \in Seq(Nodes) /\ Len(r) = Len(s) + 1
      /\ DOMAIN r = 1 .. Len(s) + 1 /\ r[i] = n
      /\ \A j \in 1 .. i - 1 : r[j] = s[j]
      /\ \A j \in i .. Len(s) : r[j + 1] = s[j]
  BY <1>1 DEF PutIn
<1>b. /\ Len(s) \in Nat /\ i \in Nat /\ 1 <= i /\ i <= Len(s) + 1
      /\ Len(r) = Len(s) + 1
  BY <1>2, <1>3
<1>a. ASSUME NEW j \in 1 .. Len(s) + 1
      PROVE  \/ j < i /\ j \in 1 .. Len(s) /\ r[j] = s[j]
             \/ j = i /\ r[j] = n
             \/ j > i /\ j - 1 \in 1 .. Len(s) /\ r[j] = s[j - 1]
  <2>1. CASE j < i
    BY <1>2, <1>3, <2>1
  <2>2. CASE j > i
    <3>1. j - 1 \in i .. Len(s) /\ (j - 1) + 1 = j /\ j - 1 \in 1 .. Len(s)
      BY <1>2, <1>3, <2>2
    <3> QED
      BY <1>3, <2>2, <3>1
  <2> QED
    BY <1>3, <2>1, <2>2
<1>4. /\ \A j \in 1 .. Len(s) :
            /\ nextNode[s[j]] = IF j = Len(s) THEN Null ELSE s[j + 1]
            /\ previousNode[s[j]] = IF j = 1 THEN Null ELSE s[j - 1]
      /\ s # << >> => head[l] = s[1]
  <2>1. s # << >> => 1 \in 1 .. Len(s)
    BY <1>2
  <2> QED
    BY <1>1, <2>1, Links
<1>5. /\ content'[l] = r
      /\ \A k \in Lists \ {l} : content'[k] = content[k]
      /\ content' \in [Lists -> Seq(Nodes)]
  BY <1>3 DEF Represents, PointersTyped
<1>6. /\ head'[l] = IF i = 1 THEN n ELSE head[l]
      /\ \A k \in Lists \ {l} : head'[k] = head[k]
      /\ head' \in [Lists -> Nodes \union {Null}]
  BY DEF LinkedIn, Represents, PointersTyped
<1>7. \A m \in Nodes :
         /\ nextNode'[m] =
              IF m = n THEN IF i = Len(s) + 1 THEN Null ELSE s[i]
              ELSE IF i > 1 /\ m = s[i - 1] THEN n ELSE nextNode[m]
         /\ previousNode'[m] =
              IF m = n THEN IF i = 1 THEN Null ELSE s[i - 1]
              ELSE IF i <= Len(s) /\ m = s[i] THEN n ELSE previousNode[m]
  BY <1>1 DEF LinkedIn
<1>8. PointersTyped'
  <2>1. /\ i # Len(s) + 1 => s[i] \in Nodes
        /\ i # 1 => s[i - 1] \in Nodes
    BY <1>2, <1>3
  <2>2. \A m \in Nodes :
           /\ nextNode'[m] \in Nodes \union {Null}
           /\ previousNode'[m] \in Nodes \union {Null}
    BY <1>7, <2>1 DEF Represents, PointersTyped
  <2>3. /\ nextNode' = [m \in Nodes |-> nextNode'[m]]
        /\ previousNode' = [m \in Nodes |-> previousNode'[m]]
    BY DEF LinkedIn
  <2>4. /\ nextNode' \in [Nodes -> Nodes \union {Null}]
        /\ previousNode' \in [Nodes -> Nodes \union {Null}]
    BY <2>2, <2>3
  <2> QED
    BY <1>5, <1>6, <2>4 DEF PointersTyped
<1>9. ASSUME NEW j \in 1 .. Len(r)
      PROVE  /\ nextNode'[r[j]] = IF j = Len(r) THEN Null ELSE r[j + 1]
             /\ previousNode'[r[j]] = IF j = 1 THEN Null ELSE r[j - 1]
  <2>1. ASSUME NEW k \in 1 .. Len(s)
        PROVE  /\ nextNode'[s[k]] = IF k = i - 1 THEN n
                                    ELSE IF k = Len(s) THEN Null ELSE s[k + 1]
               /\ previousNode'[s[k]] = IF k = i THEN n
                                        ELSE IF k = 1 THEN Null ELSE s[k - 1]
    <3>1. i > 1 /\ s[k] = s[i - 1] <=> k = i - 1
      BY <1>2, <1>3
    <3>2. i <= Len(s) /\ s[k] = s[i] <=> k = i
      BY <1>2, <1>3
    <3>3. s[k] \in Nodes /\ s[k] # n
      BY <1>2
    <3>4. /\ nextNode'[s[k]] = IF i > 1 /\ s[k] = s[i - 1] THEN n
                               ELSE nextNode[s[k]]
          /\ previousNode'[s[k]] = IF i <= Len(s) /\ s[k] = s[i] THEN n
                                   ELSE previousNode[s[k]]
      BY <1>7, <3>3
    <3> QED
      BY <1>4, <3>1, <3>2, <3>4
  <2>2. CASE j = i
    <3>1. i # Len(s) + 1 => r[i + 1] = s[i]
      BY <1>2, <1>3
    <3>2. i # 1 => r[i - 1] = s[i - 1]
      BY <1>2, <1>3
    <3> QED
      BY <1>3, <1>7, <2>2, <3>1, <3>2
  <2>3. CASE j < i
    <3>1. j \in Nat /\ 1 <= j /\ j \in 1 .. Len(s) /\ j # Len(r) /\ j # i
      BY <1>b, <2>3
    <3>2. r[j] = s[j]
      BY <1>b, <1>3, <2>3, <3>1
    <3>3. j # 1 => r[j - 1] = s[j - 1]
      <4>1. j # 1 => j - 1 \in 1 .. i - 1
        BY <1>b, <2>3, <3>1
      <4> QED
        BY <1>3, <4>1
    <3>4. CASE j = i - 1
      <4>1. r[j + 1] = n
        BY <1>3, <1>b, <3>4
      <4> QED
        BY <2>1, <3>1, <3>2, <3>3, <3>4, <4>1
    <3>5. CASE j # i - 1
      <4>1. j + 1 \in 1 .. i - 1 /\ j # Len(s)
        BY <1>b, <2>3, <3>1, <3>5
      <4>2. r[j + 1] = s[j + 1]
        BY <1>3, <4>1
      <4> QED
        BY <2>1, <3>1, <3>2, <3>3, <3>5, <4>1, <4>2
    <3> QED
      BY <3>4, <3>5
  <2>4. CASE j > i
    <3>1. PICK k \in 1 .. Len(s) : k = j - 1 /\ r[j] = s[k]
      BY <1>3, <1>a, <2>4
    <3>2. j # 1 /\ k # i - 1 /\ j = k + 1 /\ (j = Len(r) <=> k = Len(s))
      BY <1>2, <1>3, <2>4, <3>1
    <3>3. k # Len(s) => r[j + 1] = s[k + 1]
      <4>1. k # Len(s) => j + 1 \in 1 .. Len(s) + 1
        BY <1>b, <3>1, <3>2
      <4>2. j + 1 > i /\ j + 1 # i /\ (j + 1) - 1 = k + 1
        BY <1>b, <2>4, <3>1, <3>2
      <4> QED
        BY <1>a, <1>b, <4>1, <4>2
    <3>4. IF k = i THEN r[j - 1] = n ELSE r[j - 1] = s[k - 1] /\ k # 1
      <4>1. j - 1 \in 1 .. Len(s) + 1 /\ j - 1 = k /\ k >= i
        BY <1>2, <1>3, <2>4, <3>1
      <4> QED
        BY <1>a, <4>1
    <3> QED
      BY <2>1, <3>1, <3>2, <3>3, <3>4
  <2> QED
    BY <1>2, <1>3, <2>2, <2>3, <2>4
<1>10. head'[l] = r[1] /\ r # << >>
  <2>1. CASE i = 1
    BY <1>2, <1>3, <1>6, <2>1
  <2>2. CASE i # 1
    <3>1. s # << >> /\ r[1] = s[1]
      BY <1>2, <1>3, <2>2
    <3> QED
      BY <1>3, <1>4, <1>6, <2>2, <3>1
  <2> QED
    BY <2>1, <2>2
<1>11. Spells(l, content[l])'
  BY <1>3, <1>5, <1>9, <1>10 DEF Spells
<1>12. IsInjective(content[l])'
  <2>1. ASSUME NEW j \in 1 .. Len(r), NEW k \in 1 .. Len(r), r[j] = r[k]
        PROVE  j = k
    <3>1. j \in 1 .. Len(s) + 1 /\ k \in 1 .. Len(s) + 1
      BY <1>3
    <3> QED
      BY <1>2, <1>a, <2>1, <3>1
  <2> QED
    BY <1>3, <1>5, <2>1 DEF IsInjective
<1>13. ASSUME NEW k \in Lists \ {l}
       PROVE  /\ Spells(k, content[k])' /\ IsInjective(content[k])'
              /\ \A a \in 1 .. Len(content[k]) :
                    /\ content[k][a] # n
                    /\ \A j \in 1 .. Len(s) : content[k][a] # s[j]
  <2>1. ASSUME NEW a \in 1 .. Len(content[k])
        PROVE  /\ content[k][a] # n /\ content[k][a] \in Nodes
               /\ \A j \in 1 .. Len(s) : content[k][a] # s[j]
    <3>1. content[k][a] \in Nodes /\ OnList(k, content[k][a])
      BY Elements
    <3>2. content[k][a] # n
      BY <3>1 DEF OnNoList
    <3>3. ASSUME NEW j \in 1 .. Len(s) PROVE content[k][a] # s[j]
      <4>1. OnList(l, s[j])
        BY <1>1, Elements
      <4> QED
        BY <3>1, <4>1, OneList
    <3> QED
      BY <3>1, <3>2, <3>3
  <2>2. \A a \in 1 .. Len(content[k]) :
           /\ nextNode'[content[k][a]] = nextNode[content[k][a]]
           /\ previousNode'[content[k][a]] = previousNode[content[k][a]]
    BY <1>2, <1>3, <1>7, <2>1
  <2> QED
    BY <1>5, <1>6, <2>1, <2>2, SpellsSame
<1>14. ASSUME NEW k \in Lists, NEW h \in Lists, k # h,
              NEW a \in DOMAIN content'[k], NEW b \in DOMAIN content'[h]
       PROVE  content'[k][a] # content'[h][b]
  <2>1. \A x \in 1 .. Len(r) :
           r[x] = n \/ \E j \in 1 .. Len(s) : r[x] = s[j]
    BY <1>3, <1>a
  <2>2. \A x \in Lists : DOMAIN content[x] = 1 .. Len(content[x])
    BY Elements
  <2>3. CASE k = l
    BY <1>3, <1>5, <1>13, <1>14, <2>1, <2>2, <2>3
  <2>4. CASE h = l
    BY <1>3, <1>5, <1>13, <1>14, <2>1, <2>2, <2>4
  <2>5. CASE k # l /\ h # l
    BY <1>5, <1>14, <2>5 DEF Represents
  <2> QED
    BY <2>3, <2>4, <2>5
<1>15. Represents'
  BY <1>8, <1>11, <1>12, <1>13, <1>14 DEF Represents
<1> QED
  BY <1>15 DEF ListInv, WalkInv

LEMMA LinkOut ==
    ASSUME Represents, NEW l \in Lists,
           NEW i \in 1 .. Len(content[l]), LinkedOut(l, i),
           NEW r, TakenOut(content[l], i, r),
           content' = [content EXCEPT ![l] = r], op' = Idle
    PROVE  ListInv'
<1>1. PICK s, after, before :
         /\ s = content[l]
         /\ after = IF i = Len(s) THEN Null ELSE s[i + 1]
         /\ before = IF i = 1 THEN Null ELSE s[i - 1]
  OBVIOUS
<1>2. /\ s \in Seq(Nodes) /\ Len(s) \in Nat
      /\ DOMAIN s = 1 .. Len(s)
      /\ \A j \in 1 .. Len(s) : s[j] \in Nodes
      /\ \A j, k \in 1 .. Len(s) : s[j] = s[k] => j = k
  BY <1>1, Elements
<1>b. /\ Len(s) \in Nat /\ i \in Nat /\ 1 <= i /\ i <= Len(s)
      /\ i \in 1 .. Len(s) /\ Len(r) = Len(s) - 1
  BY <1>1, <1>2 DEF TakenOut
<1>3. /\ r \in Seq(Nodes) /\ DOMAIN r = 1 .. Len(s) - 1
      /\ \A j \in 1 .. i - 1 : r[j] = s[j]
      /\ \A j \in i .. Len(s) - 1 : r[j] = s[j + 1]
  BY <1>1 DEF TakenOut
<1>a. ASSUME NEW j \in 1 .. Len(s) - 1
      PROVE  /\ j \in Nat /\ 1 <= j /\ j \in 1 .. Len(s)
             /\ j + 1 \in 1 .. Len(s) /\ j < Len(s)
             /\ j < i => r[j] = s[j]
             /\ j >= i => r[j] = s[j + 1]
  BY <1>b, <1>3
<1>4. /\ \A j \in 1 .. Len(s) :
            /\ nextNode[s[j]] = IF j = Len(s) THEN Null ELSE s[j + 1]
            /\ previousNode[s[j]] = IF j = 1 THEN Null ELSE s[j - 1]
      /\ s # << >> => head[l] = s[1]
  <2>1. s # << >> => 1 \in 1 .. Len(s)
    BY <1>2
  <2> QED
    BY <1>1, <2>1, Links
<1>5. /\ content'[l] = r
      /\ \A k \in Lists \ {l} : content'[k] = content[k]
      /\ content' \in [Lists -> Seq(Nodes)]
  BY <1>3 DEF Represents, PointersTyped
<1>c. after \in Nodes \union {Null} /\ before \in Nodes \union {Null}
  <2>1. i # Len(s) => i + 1 \in 1 .. Len(s)
    BY <1>b
  <2>2. i # 1 => i - 1 \in 1 .. Len(s)
    BY <1>b
  <2> QED
    BY <1>1, <1>2, <2>1, <2>2
<1>6. /\ head' = [head EXCEPT ![l] = IF i = 1 THEN after ELSE @]
      /\ head'[l] = IF i = 1 THEN after ELSE head[l]
      /\ \A k \in Lists \ {l} : head'[k] = head[k]
      /\ head' \in [Lists -> Nodes \union {Null}]
  BY <1>1, <1>c DEF LinkedOut, Represents, PointersTyped
<1>7. /\ nextNode' = [m \in Nodes |->
            IF m = s[i] THEN Null
            ELSE IF m = before THEN after ELSE nextNode[m]]
      /\ previousNode' = [m \in Nodes |->
            IF m = s[i] THEN Null
            ELSE IF m = after THEN before ELSE previousNode[m]]
  BY <1>1 DEF LinkedOut
<1>8. PointersTyped'
  <2>1. /\ nextNode' \in [Nodes -> Nodes \union {Null}]
        /\ previousNode' \in [Nodes -> Nodes \union {Null}]
    BY <1>7, <1>c DEF Represents, PointersTyped
  <2> QED
    BY <1>5, <1>6, <2>1 DEF PointersTyped
<1>9. ASSUME NEW j \in 1 .. Len(s) - 1
      PROVE  /\ nextNode'[r[j]] = IF j = Len(s) - 1 THEN Null ELSE r[j + 1]
             /\ previousNode'[r[j]] = IF j = 1 THEN Null ELSE r[j - 1]
  <2>1. ASSUME NEW k \in 1 .. Len(s), k # i
        PROVE  /\ nextNode'[s[k]] = IF k = i - 1 THEN after
                                    ELSE IF k = Len(s) THEN Null ELSE s[k + 1]
               /\ previousNode'[s[k]] = IF k = i + 1 THEN before
                                        ELSE IF k = 1 THEN Null ELSE s[k - 1]
    <3>1. s[k] # s[i] /\ s[k] \in Nodes /\ s[k] # Null
      BY <1>2, <1>b, <2>1, NullIsNone
    <3>2. s[k] = before <=> k = i - 1
      <4>1. CASE i = 1
        BY <1>1, <3>1, <4>1
      <4>2. CASE i # 1
        <5>1. i - 1 \in 1 .. Len(s)
          BY <1>b, <4>2
        <5> QED
          BY <1>1, <1>2, <4>2, <5>1
      <4> QED
        BY <4>1, <4>2
    <3>3. s[k] = after <=> k = i + 1
      <4>1. CASE i = Len(s)
        BY <1>1, <3>1, <4>1
      <4>2. CASE i # Len(s)
        <5>1. i + 1 \in 1 .. Len(s)
          BY <1>b, <4>2
        <5> QED
          BY <1>1, <1>2, <4>2, <5>1
      <4> QED
        BY <4>1, <4>2
    <3>4. /\ nextNode'[s[k]] = IF s[k] = before THEN after ELSE nextNode[s[k]]
          /\ previousNode'[s[k]] = IF s[k] = after THEN before
                                   ELSE previousNode[s[k]]
      BY <1>7, <3>1
    <3> QED
      BY <1>4, <3>2, <3>3, <3>4
  <2>2. CASE j < i
    <3>1. r[j] = s[j] /\ j \in 1 .. Len(s) /\ j # i /\ j # i + 1 /\ j # Len(s)
      BY <1>a, <1>b, <2>2
    <3>2. j # 1 => r[j - 1] = s[j - 1]
      <4>1. j # 1 => j - 1 \in 1 .. i - 1
        BY <1>a, <1>b, <2>2
      <4> QED
        BY <1>3, <4>1
    <3>3. CASE j = i - 1
      <4>1. j = Len(s) - 1 <=> i = Len(s)
        BY <1>b, <3>3
      <4>2. i # Len(s) => r[j + 1] = s[i + 1]
        <5>1. i # Len(s) => i \in i .. Len(s) - 1 /\ j + 1 = i
          BY <1>b, <3>3
        <5> QED
          BY <1>3, <5>1
      <4>3. after = IF j = Len(s) - 1 THEN Null ELSE r[j + 1]
        <5>1. after = IF i = Len(s) THEN Null ELSE s[i + 1]
          BY <1>1
        <5> QED
          BY <4>1, <4>2, <5>1
      <4>4. nextNode'[s[j]] = after
        BY <2>1, <3>1, <3>3
      <4>5. previousNode'[s[j]] = IF j = 1 THEN Null ELSE s[j - 1]
        BY <2>1, <3>1
      <4> QED
        BY <3>1, <3>2, <4>3, <4>4, <4>5
    <3>4. CASE j # i - 1
      <4>1. j + 1 \in 1 .. i - 1 /\ j # Len(s) - 1
        BY <1>a, <1>b, <2>2, <3>4
      <4>2. r[j + 1] = s[j + 1]
        BY <1>3, <4>1
      <4> QED
        BY <2>1, <3>1, <3>2, <3>4, <4>1, <4>2
    <3> QED
      BY <3>3, <3>4
  <2>3. CASE j >= i
    <3>1. PICK k \in 1 .. Len(s) : k = j + 1 /\ r[j] = s[k]
      BY <1>a, <2>3
    <3>2. /\ k # i /\ k # i - 1 /\ k # 1 /\ k - 1 = j
          /\ k = Len(s) <=> j = Len(s) - 1
      BY <1>a, <1>b, <2>3, <3>1
    <3>3. k # Len(s) => r[j + 1] = s[k + 1]
      <4>1. k # Len(s) => k \in i .. Len(s) - 1
        BY <1>a, <1>b, <2>3, <3>1
      <4> QED
        BY <1>3, <3>1, <4>1
    <3>4. CASE j = i
      <4>1. j # 1 => r[j - 1] = s[i - 1]
        <5>1. j # 1 => j - 1 \in 1 .. i - 1 /\ j - 1 = i - 1
          BY <1>a, <1>b, <3>4
        <5> QED
          BY <1>3, <5>1
      <4>2. k = i + 1
        BY <3>1, <3>4
      <4>3. before = IF j = 1 THEN Null ELSE r[j - 1]
        <5>1. before = IF i = 1 THEN Null ELSE s[i - 1]
          BY <1>1
        <5> QED
          BY <3>4, <4>1, <5>1
      <4>4. previousNode'[s[k]] = before
        BY <2>1, <3>1, <3>2, <4>2
      <4>5. nextNode'[s[k]] = IF k = Len(s) THEN Null ELSE s[k + 1]
        BY <2>1, <3>1, <3>2
      <4>6. nextNode'[r[j]] = IF j = Len(s) - 1 THEN Null ELSE r[j + 1]
        BY <3>1, <3>2, <3>3, <4>5
      <4> QED
        BY <3>1, <4>3, <4>4, <4>6
    <3>5. CASE j # i
      <4>1. j - 1 \in i .. Len(s) - 1 /\ (j - 1) + 1 = j /\ j # 1 /\ k # i + 1
        BY <1>a, <1>b, <2>3, <3>1, <3>5
      <4>2. r[j - 1] = s[j]
        BY <1>3, <4>1
      <4> QED
        BY <2>1, <3>1, <3>2, <3>3, <4>1, <4>2
    <3> QED
      BY <3>4, <3>5
  <2> QED
    BY <1>a, <1>b, <2>2, <2>3
<1>10. head'[l] = IF r = << >> THEN Null ELSE r[1]
  <2>0. s # << >> /\ (r = << >> <=> Len(s) = 1)
    BY <1>2, <1>3, <1>b
  <2>1. CASE i = 1
    <3>1. Len(s) # 1 => r[1] = s[2]
      <4>1. Len(s) # 1 => 1 \in i .. Len(s) - 1 /\ 1 + 1 = 2
        BY <1>b, <2>1
      <4> QED
        BY <1>3, <4>1
    <3> QED
      BY <1>1, <1>6, <2>0, <2>1, <3>1
  <2>2. CASE i # 1
    <3>1. 1 \in 1 .. i - 1 /\ Len(s) # 1
      BY <1>b, <2>2
    <3>2. r[1] = s[1]
      BY <1>3, <3>1
    <3> QED
      BY <1>4, <1>6, <2>0, <2>2, <3>1, <3>2
  <2> QED
    BY <2>1, <2>2
<1>11. Spells(l, content[l])'
  <2>1. DOMAIN r = 1 .. Len(s) - 1 /\ Len(r) = Len(s) - 1
    BY <1>3, <1>b
  <2> QED
    BY <1>5, <1>9, <1>10, <2>1 DEF Spells
<1>12. IsInjective(content[l])'
  <2>1. ASSUME NEW j \in 1 .. Len(s) - 1, NEW k \in 1 .. Len(s) - 1, r[j] = r[k]
        PROVE  j = k
    <3>1. CASE j < i /\ k < i
      BY <1>2, <1>a, <2>1, <3>1
    <3>2. CASE j >= i /\ k >= i
      <4>1. j + 1 = k + 1
        BY <1>2, <1>a, <2>1, <3>2
      <4> QED
        BY <1>a, <4>1
    <3>3. CASE j < i /\ k >= i
      <4>1. j = k + 1
        BY <1>2, <1>a, <2>1, <3>3
      <4> QED
        BY <1>a, <1>b, <3>3, <4>1
    <3>4. CASE j >= i /\ k < i
      <4>1. j + 1 = k
        BY <1>2, <1>a, <2>1, <3>4
      <4> QED
        BY <1>a, <1>b, <3>4, <4>1
    <3> QED
      BY <1>a, <1>b, <3>1, <3>2, <3>3, <3>4
  <2> QED
    BY <1>3, <1>5, <2>1 DEF IsInjective
<1>13. ASSUME NEW k \in Lists \ {l}
       PROVE  /\ Spells(k, content[k])' /\ IsInjective(content[k])'
              /\ \A a \in 1 .. Len(content[k]) :
                    \A j \in 1 .. Len(s) : content[k][a] # s[j]
  <2>1. ASSUME NEW a \in 1 .. Len(content[k])
        PROVE  /\ content[k][a] \in Nodes
               /\ \A j \in 1 .. Len(s) : content[k][a] # s[j]
    <3>1. content[k][a] \in Nodes /\ OnList(k, content[k][a])
      BY Elements
    <3>2. ASSUME NEW j \in 1 .. Len(s) PROVE content[k][a] # s[j]
      <4>1. OnList(l, s[j])
        BY <1>1, Elements
      <4> QED
        BY <3>1, <4>1, OneList
    <3> QED
      BY <3>1, <3>2
  <2>2. /\ after = Null \/ \E j \in 1 .. Len(s) : after = s[j]
        /\ before = Null \/ \E j \in 1 .. Len(s) : before = s[j]
    <3>1. i # Len(s) => i + 1 \in 1 .. Len(s)
      BY <1>b
    <3>2. i # 1 => i - 1 \in 1 .. Len(s)
      BY <1>b
    <3> QED
      BY <1>1, <3>1, <3>2
  <2>3. \A a \in 1 .. Len(content[k]) :
           /\ nextNode'[content[k][a]] = nextNode[content[k][a]]
           /\ previousNode'[content[k][a]] = previousNode[content[k][a]]
    BY <1>7, <1>b, <2>1, <2>2, NullIsNone
  <2> QED
    BY <1>5, <1>6, <2>1, <2>3, SpellsSame
<1>14. ASSUME NEW k \in Lists, NEW h \in Lists, k # h,
              NEW a \in DOMAIN content'[k], NEW b \in DOMAIN content'[h]
       PROVE  content'[k][a] # content'[h][b]
  <2>1. \A x \in 1 .. Len(s) - 1 : \E j \in 1 .. Len(s) : r[x] = s[j]
    BY <1>a, <1>b
  <2>2. \A x \in Lists \ {l} : DOMAIN content'[x] = 1 .. Len(content[x])
    BY <1>5, Elements
  <2>0. DOMAIN content'[l] = 1 .. Len(s) - 1
    BY <1>3, <1>5
  <2>3. CASE k = l
    <3>1. PICK j \in 1 .. Len(s) : content'[k][a] = s[j]
      BY <1>5, <2>0, <2>1, <2>3
    <3>2. h \in Lists \ {l} /\ b \in 1 .. Len(content[h])
      BY <1>14, <2>2, <2>3
    <3> QED
      BY <1>5, <1>13, <3>1, <3>2
  <2>4. CASE h = l
    <3>1. PICK j \in 1 .. Len(s) : content'[h][b] = s[j]
      BY <1>5, <2>0, <2>1, <2>4
    <3>2. k \in Lists \ {l} /\ a \in 1 .. Len(content[k])
      BY <1>14, <2>2, <2>4
    <3> QED
      BY <1>5, <1>13, <3>1, <3>2
  <2>5. CASE k # l /\ h # l
    BY <1>5, <1>14, <2>5 DEF Represents
  <2> QED
    BY <2>3, <2>4, <2>5
<1>15. Represents'
  BY <1>8, <1>11, <1>12, <1>13, <1>14 DEF Represents
<1> QED
  BY <1>15 DEF ListInv, WalkInv

-----------------------------------------------------------------------------
(* The operations link in and unlink as the two lemmas above ask.          *)

LEMMA OnlyNodeLinksIn ==
    ASSUME Represents, NEW l \in Lists, NEW n \in Nodes,
           content[l] = << >>, MakeOnlyNode(l, n)
    PROVE  LinkedIn(l, 1, n)
<1>1. Len(content[l]) = 0
  OBVIOUS
<1>2. /\ head' = [head EXCEPT ![l] = IF 1 = 1 THEN n ELSE @]
      /\ nextNode' = [nextNode EXCEPT ![n] = Null]
      /\ previousNode' = [previousNode EXCEPT ![n] = Null]
  BY DEF MakeOnlyNode
<1>3. nextNode' = [m \in Nodes |->
         IF m = n THEN IF 1 = Len(content[l]) + 1 THEN Null ELSE content[l][1]
         ELSE IF 1 > 1 /\ m = content[l][1 - 1] THEN n ELSE nextNode[m]]
  <2>1. 1 = Len(content[l]) + 1 /\ ~(1 > 1)
    BY <1>1
  <2>2. nextNode' = [m \in Nodes |-> IF m = n THEN Null ELSE nextNode[m]]
    BY <1>2 DEF Represents, PointersTyped
  <2> QED
    BY <2>1, <2>2
<1>4. previousNode' = [m \in Nodes |->
         IF m = n THEN IF 1 = 1 THEN Null ELSE content[l][1 - 1]
         ELSE IF 1 <= Len(content[l]) /\ m = content[l][1] THEN n
         ELSE previousNode[m]]
  <2>1. ~(1 <= Len(content[l]))
    BY <1>1
  <2>2. previousNode' = [m \in Nodes |-> IF m = n THEN Null
                                         ELSE previousNode[m]]
    BY <1>2 DEF Represents, PointersTyped
  <2> QED
    BY <2>1, <2>2
<1> QED
  BY <1>2, <1>3, <1>4 DEF LinkedIn

LEMMA HeadLinksIn ==
    ASSUME Represents, NEW l \in Lists, NEW n \in Nodes, OnNoList(n),
           content[l] # << >>, MakeHead(l, n)
    PROVE  LinkedIn(l, 1, n)
<1>1. PICK s, h : s = content[l] /\ h = head[l]
  OBVIOUS
<1>2. 1 \in 1 .. Len(s) /\ Len(s) \in Nat /\ Len(s) >= 1
  BY <1>1, Elements
<1>3. h = s[1] /\ h \in Nodes /\ h # n
  BY <1>1, <1>2, Links, Elements DEF OnNoList
<1>4. nextNode' = [m \in Nodes |-> IF m = n THEN h ELSE nextNode[m]]
  BY <1>1 DEF MakeHead, Represents, PointersTyped
<1>5. previousNode' = [m \in Nodes |-> IF m = n THEN Null
                                       ELSE IF m = h THEN n
                                       ELSE previousNode[m]]
  BY <1>1, <1>3 DEF MakeHead, Represents, PointersTyped
<1>6. head' = [head EXCEPT ![l] = n]
  BY DEF MakeHead
<1>7. 1 # Len(s) + 1 /\ 1 <= Len(s) /\ ~(1 > 1)
  BY <1>2
<1>8. nextNode' = [m \in Nodes |->
         IF m = n THEN IF 1 = Len(s) + 1 THEN Null ELSE s[1]
         ELSE IF 1 > 1 /\ m = s[1 - 1] THEN n ELSE nextNode[m]]
  BY <1>3, <1>4, <1>7
<1>9. previousNode' = [m \in Nodes |->
         IF m = n THEN IF 1 = 1 THEN Null ELSE s[1 - 1]
         ELSE IF 1 <= Len(s) /\ m = s[1] THEN n ELSE previousNode[m]]
  BY <1>3, <1>5, <1>7
<1>10. head' = [head EXCEPT ![l] = IF 1 = 1 THEN n ELSE @]
  BY <1>6
<1>11. nextNode' = [m \in Nodes |->
          IF m = n THEN IF 1 = Len(content[l]) + 1 THEN Null ELSE content[l][1]
          ELSE IF 1 > 1 /\ m = content[l][1 - 1] THEN n ELSE nextNode[m]]
  BY <1>1, <1>8
<1>12. previousNode' = [m \in Nodes |->
          IF m = n THEN IF 1 = 1 THEN Null ELSE content[l][1 - 1]
          ELSE IF 1 <= Len(content[l]) /\ m = content[l][1] THEN n
          ELSE previousNode[m]]
  BY <1>1, <1>9
<1> QED
  BY <1>10, <1>11, <1>12 DEF LinkedIn

LEMMA PositionIs ==
    ASSUME Represents, NEW l \in Lists, NEW i \in 1 .. Len(content[l])
    PROVE  Position(content[l], content[l][i]) = i
<1>1. DOMAIN content[l] = 1 .. Len(content[l])
  BY Elements
<1>2. \A j \in 1 .. Len(content[l]) :
         content[l][j] = content[l][i] => j = i
  BY Elements
<1>3. \E j \in DOMAIN content[l] : content[l][j] = content[l][i]
  BY <1>1
<1>4. /\ Position(content[l], content[l][i]) \in DOMAIN content[l]
      /\ content[l][Position(content[l], content[l][i])] = content[l][i]
  BY <1>3 DEF Position
<1> QED
  BY <1>1, <1>2, <1>4

LEMMA UnlinkKeeps ==
    ASSUME Represents, NEW l \in Lists, NEW n, OnList(l, n),
           UnlinkNode(l, n), op' = Idle
    PROVE  ListInv'
<1>1. PICK i \in 1 .. Len(content[l]) : content[l][i] = n
  BY Elements DEF OnList
<1>2. /\ nextNode[n] =
            IF i = Len(content[l]) THEN Null ELSE content[l][i + 1]
      /\ previousNode[n] = IF i = 1 THEN Null ELSE content[l][i - 1]
      /\ head[l] = content[l][1]
  BY <1>1, Links
<1>3. head[l] = n <=> i = 1
  <2>1. 1 \in 1 .. Len(content[l])
    BY <1>1, Elements
  <2> QED
    BY <1>1, <1>2, <2>1, Elements
<1>4. LinkedOut(l, i)
  <2>1. head' = [head EXCEPT ![l] = IF i = 1 THEN nextNode[n] ELSE @]
    BY <1>3 DEF UnlinkNode
  <2>2. /\ nextNode' = [m \in Nodes |-> IF m = n THEN Null
                                        ELSE IF m = previousNode[n]
                                        THEN nextNode[n] ELSE nextNode[m]]
        /\ previousNode' = [m \in Nodes |-> IF m = n THEN Null
                                            ELSE IF m = nextNode[n]
                                            THEN previousNode[n]
                                            ELSE previousNode[m]]
    BY DEF UnlinkNode
  <2> QED
    BY <1>1, <1>2, <2>1, <2>2 DEF LinkedOut
<1>5. content' = [content EXCEPT ![l] = RemoveAt(content[l], i)]
  <2>1. Position(content[l], n) = i
    BY <1>1, PositionIs
  <2> QED
    BY <2>1 DEF UnlinkNode, Unlink
<1>6. TakenOut(content[l], i, RemoveAt(content[l], i))
  BY Elements, RemoveTakesOut
<1> QED
  BY <1>4, <1>5, <1>6, LinkOut

LEMMA RemoveFirstKeeps ==
    ASSUME Represents, NEW l \in Lists, RemoveFirstNode(l)
    PROVE  ListInv'
<1>1. content[l] # << >> /\ 1 \in 1 .. Len(content[l])
  BY Elements DEF RemoveFirstNode
<1>2. PICK first, second : first = head[l] /\ second = nextNode[first]
  OBVIOUS
<1>3. /\ first = content[l][1] /\ first \in Nodes
      /\ second = IF 1 = Len(content[l]) THEN Null ELSE content[l][1 + 1]
  <2>1. /\ content[l][1] \in Nodes /\ head[l] = content[l][1]
        /\ nextNode[content[l][1]] =
              IF 1 = Len(content[l]) THEN Null ELSE content[l][1 + 1]
    BY <1>1, Links
  <2> QED
    BY <1>2, <2>1
<1>4. LinkedOut(l, 1)
  <2>1. /\ head' = [head EXCEPT ![l] = second]
        /\ nextNode' = [nextNode EXCEPT ![first] = Null]
        /\ previousNode' = [m \in Nodes |-> IF m \in {first, second} THEN Null
                                            ELSE previousNode[m]]
    BY <1>2 DEF RemoveFirstNode
  <2>2. nextNode' = [m \in Nodes |->
           IF m = first THEN Null ELSE IF m = Null THEN second ELSE nextNode[m]]
    BY <1>3, <2>1, NodeAssumption DEF Represents, PointersTyped
  <2>3. previousNode' = [m \in Nodes |->
           IF m = first THEN Null ELSE IF m = second THEN Null
           ELSE previousNode[m]]
    BY <2>1
  <2> QED
    BY <1>3, <2>1, <2>2, <2>3 DEF LinkedOut
<1>5. TakenOut(content[l], 1, Tail(content[l]))
  BY <1>1, Elements, TailTakesOut
<1>6. content' = [content EXCEPT ![l] = Tail(content[l])] /\ op' = Idle
  BY DEF RemoveFirstNode
<1> QED
  BY <1>1, <1>4, <1>5, <1>6, LinkOut

LEMMA AddFrontKeeps ==
    ASSUME Represents, NEW l \in Lists, NEW n \in Nodes, AddNodeToFront(l, n)
    PROVE  ListInv'
<1>1. LinkedIn(l, 1, n) /\ OnNoList(n) /\ op' = Idle
  BY Elements, OnlyNodeLinksIn, HeadLinksIn DEF AddNodeToFront
<1>2. content' = [content EXCEPT ![l] = <<n>> \o content[l]]
  BY DEF AddNodeToFront
<1>3. 1 \in 1 .. Len(content[l]) + 1
  BY Elements
<1>4. PutIn(content[l], 1, n, <<n>> \o content[l])
  BY Elements, FrontPutsIn
<1> QED
  BY <1>1, <1>2, <1>3, <1>4, LinkIn

(* A walk begins at the head.                                              *)
LEMMA WalkBegins ==
    ASSUME Represents, NEW l \in Lists, NEW n \in Nodes, content[l] # << >>,
           NEW w \in {"end", "prio", "tcb"}, op' = Walk(w, l, n),
           w # "tcb" => OnNoList(n),
           w = "prio" => /\ LessUrgent(content[l], n, Prio) # {}
                         /\ Prio[content[l][1]] < Prio[n],
           w = "tcb" => OnList(l, n),
           UNCHANGED <<head, nextNode, previousNode, content>>
    PROVE  ListInv'
<1>1. 1 \in 1 .. Len(content[l])
  BY Elements
<1>2. head[l] = content[l][1] /\ content[l][1] \in Nodes
  BY <1>1, Links
<1>3. op' = [walk |-> w, list |-> l, node |-> n, at |-> content[l][1]]
  BY <1>2 DEF Walk
<1>4. Represents'
  BY <1>2, <1>3 DEF Represents, PointersTyped, Spells
<1>5. WalkAt(1)'
  BY <1>2, <1>3 DEF WalkAt, OnNoList, OnList
<1>6. 1 \in DOMAIN content'[op'.list]
  BY <1>1, <1>3, Elements
<1> QED
  BY <1>4, <1>5, <1>6 DEF ListInv, WalkInv

LEMMA AddEndKeeps ==
    ASSUME Represents, NEW l \in Lists, NEW n \in Nodes, AddNodeToEnd(l, n)
    PROVE  ListInv'
<1>1. CASE head[l] = Null
  <2>1. content[l] = << >> /\ Len(content[l]) + 1 = 1
    BY <1>1, Elements
  <2>2. LinkedIn(l, 1, n) /\ OnNoList(n) /\ op' = Idle
    BY <1>1, <2>1, OnlyNodeLinksIn DEF AddNodeToEnd
  <2>3. content' = [content EXCEPT ![l] = Append(content[l], n)]
    BY <1>1 DEF AddNodeToEnd
  <2>4. PutIn(content[l], 1, n, Append(content[l], n))
    <3>1. PutIn(content[l], Len(content[l]) + 1, n, Append(content[l], n))
      BY Elements, EndPutsIn
    <3> QED
      BY <2>1, <3>1
  <2>5. 1 \in 1 .. Len(content[l]) + 1
    BY <2>1
  <2> QED
    BY <2>2, <2>3, <2>4, <2>5, LinkIn
<1>2. CASE head[l] # Null
  BY <1>2, Elements, WalkBegins DEF AddNodeToEnd
<1> QED
  BY <1>1, <1>2

LEMMA AddByPrioKeeps ==
    ASSUME Represents, NEW l \in Lists, NEW n \in Nodes, AddTaskByPrio(l, n)
    PROVE  ListInv'
<1>1. /\ content[l] # << >> => head[l] = content[l][1]
      /\ head[l] = Null <=> content[l] = << >>
      /\ Prio[n] \in Nat
      /\ content[l] # << >> => Prio[content[l][1]] \in Nat
  <2>1. content[l] # << >> => 1 \in 1 .. Len(content[l])
    BY Elements
  <2> QED
    BY <2>1, Links, Elements, NodeAssumption
<1>2. CASE HeadInsert(content[l], n, Prio)
  <2>1. head[l] = Null \/ Prio[n] <= Prio[head[l]]
    BY <1>1, <1>2 DEF HeadInsert
  <2>2. LinkedIn(l, 1, n) /\ OnNoList(n) /\ op' = Idle
    BY <1>1, <2>1, OnlyNodeLinksIn, HeadLinksIn DEF AddTaskByPrio
  <2>3. content' = [content EXCEPT ![l] = InsertAt(content[l], 1, n)]
    BY <1>2, <2>1 DEF AddTaskByPrio, InsertByPrio, InsertPoint
  <2>4. 1 \in 1 .. Len(content[l]) + 1
    BY Elements
  <2>5. PutIn(content[l], 1, n, InsertAt(content[l], 1, n))
    BY <2>4, Elements, InsertPutsIn
  <2> QED
    BY <2>2, <2>3, <2>4, <2>5, LinkIn
<1>3. CASE ~HeadInsert(content[l], n, Prio)
  <2>1. /\ content[l] # << >> /\ Prio[content[l][1]] < Prio[n]
        /\ ~(head[l] = Null \/ Prio[n] <= Prio[head[l]])
    BY <1>1, <1>3 DEF HeadInsert
  <2>2. LessUrgent(content[l], n, Prio) # {}
    BY <1>3 DEF AddTaskByPrio, CanInsert
  <2> QED
    BY <2>1, <2>2, WalkBegins DEF AddTaskByPrio
<1> QED
  BY <1>2, <1>3

-----------------------------------------------------------------------------
(* The walks.                                                              *)

(* Where a walk in progress is, with the facts that the list has there.    *)
LEMMA WalkFacts ==
    ASSUME ListInv, op # Idle
    PROVE  \E i \in 1 .. Len(content[op.list]) :
              WalkAt(i) /\ op.at = content[op.list][i] /\ op.at \in Nodes
<1>1. op.list \in Lists
  BY WalkShape DEF ListInv, Represents
<1>2. PICK i \in DOMAIN content[op.list] : WalkAt(i)
  BY DEF ListInv, WalkInv
<1>3. i \in 1 .. Len(content[op.list]) /\ content[op.list][i] \in Nodes
  BY <1>1, <1>2, Elements DEF ListInv
<1> QED
  BY <1>2, <1>3 DEF WalkAt

LEMMA WalkOnKeeps ==
    ASSUME ListInv, WalkOn
    PROVE  ListInv'
<1>1. /\ op # Idle /\ LoopGoesOn /\ op' = [op EXCEPT !.at = nextNode[op.at]]
      /\ UNCHANGED <<head, nextNode, previousNode, content>>
  BY DEF WalkOn
<1>2. PICK l, n, w, s : l = op.list /\ n = op.node /\ w = op.walk /\ s = content[l]
  OBVIOUS
<1>3. /\ l \in Lists /\ n \in Nodes /\ w \in {"end", "prio", "tcb"}
      /\ op \in [walk : {"end", "prio", "tcb"}, list : Lists,
                 node : Nodes, at : Nodes \union {Null}]
  BY <1>1, <1>2, WalkShape DEF ListInv, Represents, PointersTyped
<1>4. PICK i \in 1 .. Len(s) : WalkAt(i) /\ op.at = s[i] /\ op.at \in Nodes
  BY <1>1, <1>2, WalkFacts
<1>5. /\ DOMAIN s = 1 .. Len(s) /\ Len(s) \in Nat
      /\ \A j \in 1 .. Len(s) : s[j] \in Nodes
  BY <1>2, <1>3, Elements DEF ListInv
<1>6. /\ w = "end" => OnNoList(n)
      /\ w = "prio" => /\ OnNoList(n) /\ LessUrgent(s, n, Prio) # {}
                       /\ Prio[s[1]] < Prio[n]
                       /\ \A j \in 1 .. i - 1 : Prio[s[j]] <= Prio[n]
      /\ w = "tcb" => OnList(l, n) /\ \A j \in 1 .. i - 1 : s[j] # n
  BY <1>2, <1>4 DEF WalkAt
<1>7. nextNode[s[i]] = IF i = Len(s) THEN Null ELSE s[i + 1]
  BY <1>2, <1>3, <1>4, Links DEF ListInv
<1>8. /\ w = "end" => nextNode[s[i]] # Null
      /\ w = "prio" => Prio[n] >= Prio[s[i]]
      /\ w = "tcb" => s[i] # n
  BY <1>1, <1>2, <1>4 DEF LoopGoesOn
<1>9. /\ w = "prio" => \A j \in 1 .. i : Prio[s[j]] <= Prio[n]
      /\ w = "tcb" => \A j \in 1 .. i : s[j] # n
  <2>1. \A j \in 1 .. i : j \in 1 .. i - 1 \/ j = i
    BY <1>5
  <2>2. Prio[n] \in Nat /\ Prio[s[i]] \in Nat
    BY <1>3, <1>4, <1>5, NodeAssumption
  <2> QED
    BY <1>6, <1>8, <2>1, <2>2
<1>10. i # Len(s)
  <2>1. CASE w = "end"
    BY <1>7, <1>8, <2>1
  <2>2. CASE w = "prio"
    <3>1. PICK j \in 1 .. Len(s) : Prio[n] < Prio[s[j]]
      BY <1>5, <1>6, <2>2 DEF LessUrgent
    <3>2. Prio[n] \in Nat /\ Prio[s[j]] \in Nat
      BY <1>3, <1>5, NodeAssumption
    <3> QED
      BY <1>9, <2>2, <3>1, <3>2
  <2>3. CASE w = "tcb"
    <3>1. \E j \in 1 .. Len(s) : s[j] = n
      BY <1>2, <1>5, <1>6, <2>3 DEF OnList
    <3> QED
      BY <1>9, <2>3, <3>1
  <2> QED
    BY <1>3, <2>1, <2>2, <2>3
<1>11. /\ i + 1 \in 1 .. Len(s) /\ (i + 1) - 1 = i
       /\ nextNode[op.at] = s[i + 1] /\ s[i + 1] \in Nodes
  <2>1. i + 1 \in 1 .. Len(s) /\ (i + 1) - 1 = i
    <3>1. Len(s) \in Nat /\ i \in 1 .. Len(s)
      BY <1>5
    <3> QED
      BY <1>10, <3>1
  <2> QED
    BY <1>4, <1>5, <1>7, <1>10, <2>1
<1>12. op' = [walk |-> w, list |-> l, node |-> n, at |-> s[i + 1]]
  BY <1>1, <1>2, <1>3, <1>11
<1>13. Represents'
  <2>1. op' \in [walk : {"end", "prio", "tcb"}, list : Lists,
                node : Nodes, at : Nodes \union {Null}]
    BY <1>3, <1>11, <1>12
  <2>2. PointersTyped'
    BY <1>1, <2>1 DEF ListInv, Represents, PointersTyped
  <2>3. \A k \in Lists :
           Spells(k, content[k])' = Spells(k, content[k])
    BY <1>1 DEF Spells
  <2> QED
    BY <1>1, <2>2, <2>3 DEF ListInv, Represents
<1>14. WalkAt(i + 1)'
  <2>1. /\ op'.walk = w /\ op'.list = l /\ op'.node = n /\ op'.at = s[i + 1]
        /\ content'[l] = s /\ content' = content
    BY <1>1, <1>2, <1>12
  <2>2. /\ w = "prio" => \A j \in 1 .. (i + 1) - 1 : Prio[s[j]] <= Prio[n]
        /\ w = "tcb" => \A j \in 1 .. (i + 1) - 1 : s[j] # n
    BY <1>9, <1>11
  <2> QED
    BY <1>3, <1>6, <2>1, <2>2 DEF WalkAt, OnNoList, OnList
<1>15. i + 1 \in DOMAIN content'[op'.list]
  BY <1>1, <1>2, <1>5, <1>11, <1>12
<1> QED
  BY <1>13, <1>14, <1>15 DEF ListInv, WalkInv

LEMMA LinkAtEndKeeps ==
    ASSUME ListInv, LinkAtEnd
    PROVE  ListInv'
<1>0. op # Idle
  BY IdleWalks DEF LinkAtEnd
<1>1. PICK l, n, s, a : l = op.list /\ n = op.node /\ s = content[l] /\ a = op.at
  OBVIOUS
<1>2. l \in Lists /\ n \in Nodes
  BY <1>0, <1>1, WalkShape DEF ListInv, Represents
<1>3. PICK i \in 1 .. Len(s) : WalkAt(i) /\ a = s[i] /\ a \in Nodes
  BY <1>0, <1>1, WalkFacts
<1>4. OnNoList(n) /\ OnNoList(n) = (\A k \in Lists : ~OnList(k, n))
  BY <1>1, <1>3 DEF WalkAt, LinkAtEnd, OnNoList
<1>5. /\ DOMAIN s = 1 .. Len(s) /\ Len(s) \in Nat /\ s \in Seq(Nodes)
      /\ \A j \in 1 .. Len(s) : s[j] \in Nodes
      /\ a # n
  <2>1. /\ DOMAIN s = 1 .. Len(s) /\ Len(s) \in Nat /\ s \in Seq(Nodes)
        /\ \A j \in 1 .. Len(s) : s[j] \in Nodes /\ OnList(l, s[j])
    BY <1>1, <1>2, Elements DEF ListInv
  <2> QED
    BY <1>2, <1>3, <1>4, <2>1
<1>6. i = Len(s)
  <2>1. nextNode[a] = Null
    BY <1>1 DEF LinkAtEnd, LoopGoesOn
  <2>2. nextNode[a] = IF i = Len(s) THEN Null ELSE s[i + 1]
    BY <1>1, <1>2, <1>3, Links DEF ListInv
  <2>3. i # Len(s) => i + 1 \in 1 .. Len(s)
    <3>1. Len(s) \in Nat /\ i \in 1 .. Len(s)
      BY <1>5
    <3> QED
      BY <3>1
  <2> QED
    BY <1>5, <2>1, <2>2, <2>3, NullIsNone
<1>7. LinkedIn(l, Len(s) + 1, n)
  <2>1. /\ nextNode' = [nextNode EXCEPT ![a] = n, ![n] = Null]
        /\ previousNode' = [previousNode EXCEPT ![n] = a]
        /\ head' = head
    BY <1>1 DEF LinkAtEnd
  <2>2. /\ Len(s) + 1 # 1 /\ Len(s) + 1 > 1 /\ (Len(s) + 1) - 1 = Len(s)
        /\ ~(Len(s) + 1 <= Len(s))
    BY <1>3, <1>5
  <2>3. nextNode' = [m \in Nodes |-> IF m = n THEN Null
                                     ELSE IF m = a THEN n ELSE nextNode[m]]
    BY <1>3, <1>5, <2>1 DEF ListInv, Represents, PointersTyped
  <2>4. previousNode' = [m \in Nodes |-> IF m = n THEN a ELSE previousNode[m]]
    BY <2>1 DEF ListInv, Represents, PointersTyped
  <2>5. a = s[(Len(s) + 1) - 1]
    BY <1>3, <1>6, <2>2
  <2>6. nextNode' = [m \in Nodes |->
           IF m = n THEN IF Len(s) + 1 = Len(s) + 1 THEN Null ELSE s[Len(s) + 1]
           ELSE IF Len(s) + 1 > 1 /\ m = s[(Len(s) + 1) - 1] THEN n
           ELSE nextNode[m]]
    BY <2>2, <2>3, <2>5
  <2>7. previousNode' = [m \in Nodes |->
           IF m = n THEN IF Len(s) + 1 = 1 THEN Null ELSE s[(Len(s) + 1) - 1]
           ELSE IF Len(s) + 1 <= Len(s) /\ m = s[Len(s) + 1] THEN n
           ELSE previousNode[m]]
    BY <2>2, <2>4, <2>5
  <2>8. head' = [head EXCEPT ![l] = IF Len(s) + 1 = 1 THEN n ELSE @]
    BY <1>2, <2>1, <2>2 DEF ListInv, Represents, PointersTyped
  <2> QED
    BY <1>1, <2>6, <2>7, <2>8 DEF LinkedIn
<1>8. content' = [content EXCEPT ![l] = Append(s, n)] /\ op' = Idle
  BY <1>1 DEF LinkAtEnd
<1>9. PutIn(s, Len(s) + 1, n, Append(s, n)) /\ Len(s) + 1 \in 1 .. Len(s) + 1
  BY <1>2, <1>5, EndPutsIn
<1> QED
  BY <1>1, <1>2, <1>4, <1>7, <1>8, <1>9, LinkIn DEF ListInv

(* The walk stops where InsertByPrio puts the task.                        *)
LEMMA StopIsInsertPoint ==
    ASSUME NEW s \in Seq(Nodes), NEW n \in Nodes, NEW i \in 1 .. Len(s),
           Prio[s[1]] < Prio[n],
           \A j \in 1 .. i - 1 : Prio[s[j]] <= Prio[n],
           Prio[n] < Prio[s[i]]
    PROVE  i # 1 /\ InsertPoint(s, n, Prio) = i
<1>1. /\ Len(s) \in Nat /\ DOMAIN s = 1 .. Len(s) /\ s # << >>
      /\ \A j \in 1 .. Len(s) : Prio[s[j]] \in Nat
      /\ Prio[n] \in Nat /\ 1 \in 1 .. Len(s)
  BY NodeAssumption
<1>2. ~HeadInsert(s, n, Prio)
  BY <1>1 DEF HeadInsert
<1>3. i \in LessUrgent(s, n, Prio)
  BY <1>1 DEF LessUrgent
<1>4. ASSUME NEW j \in LessUrgent(s, n, Prio) PROVE j \in Nat /\ i <= j
  <2>1. j \in 1 .. Len(s) /\ Prio[n] < Prio[s[j]]
    BY <1>1 DEF LessUrgent
  <2>2. ~(j \in 1 .. i - 1)
    BY <1>1, <2>1
  <2> QED
    BY <1>1, <2>1, <2>2
<1>5. \A j \in LessUrgent(s, n, Prio) :
         (\A k \in LessUrgent(s, n, Prio) : j <= k) => j = i
  BY <1>3, <1>4
<1>6. InsertPoint(s, n, Prio) = i
  BY <1>2, <1>3, <1>4, <1>5 DEF InsertPoint
<1>7. i # 1
  BY <1>1
<1> QED
  BY <1>6, <1>7

LEMMA LinkBeforeKeeps ==
    ASSUME ListInv, LinkBefore
    PROVE  ListInv'
<1>0. op # Idle
  BY IdleWalks DEF LinkBefore
<1>1. PICK l, n, s, a, b : /\ l = op.list /\ n = op.node /\ s = content[l]
                           /\ a = op.at /\ b = previousNode[a]
  OBVIOUS
<1>2. l \in Lists /\ n \in Nodes
  BY <1>0, <1>1, WalkShape DEF ListInv, Represents
<1>3. PICK i \in 1 .. Len(s) : WalkAt(i) /\ a = s[i] /\ a \in Nodes
  BY <1>0, <1>1, WalkFacts
<1>4. /\ OnNoList(n) /\ Prio[s[1]] < Prio[n]
      /\ \A j \in 1 .. i - 1 : Prio[s[j]] <= Prio[n]
  BY <1>1, <1>3 DEF WalkAt, LinkBefore
<1>5. /\ DOMAIN s = 1 .. Len(s) /\ Len(s) \in Nat /\ s \in Seq(Nodes)
      /\ \A j \in 1 .. Len(s) : s[j] \in Nodes /\ OnList(l, s[j])
      /\ \A j, k \in 1 .. Len(s) : s[j] = s[k] => j = k
  BY <1>1, <1>2, Elements DEF ListInv
<1>6. i # 1 /\ InsertPoint(s, n, Prio) = i
  <2>1. Prio[n] < Prio[a]
    <3>1. Prio[n] \in Nat /\ Prio[a] \in Nat /\ ~(Prio[n] >= Prio[a])
      BY <1>1, <1>2, <1>3, NodeAssumption DEF LinkBefore, LoopGoesOn
    <3> QED
      BY <3>1
  <2> QED
    BY <1>2, <1>3, <1>4, <1>5, <2>1, StopIsInsertPoint
<1>7. /\ i - 1 \in 1 .. Len(s) /\ b = s[i - 1] /\ b \in Nodes
      /\ a # n /\ b # n /\ b # a
  <2>1. i - 1 \in 1 .. Len(s) /\ i - 1 # i
    BY <1>5, <1>6
  <2>2. b = s[i - 1]
    BY <1>1, <1>2, <1>3, <1>6, Links DEF ListInv
  <2> QED
    BY <1>2, <1>3, <1>4, <1>5, <2>1, <2>2 DEF OnNoList
<1>8. LinkedIn(l, i, n)
  <2>1. /\ nextNode' = [nextNode EXCEPT ![n] = a, ![b] = n]
        /\ previousNode' = [previousNode EXCEPT ![a] = n, ![n] = b]
        /\ head' = head
    BY <1>1 DEF LinkBefore
  <2>2. i # Len(s) + 1 /\ i > 1 /\ i <= Len(s)
    BY <1>5, <1>6
  <2>3. nextNode' = [m \in Nodes |-> IF m = n THEN a
                                     ELSE IF m = b THEN n ELSE nextNode[m]]
    BY <1>2, <1>7, <2>1 DEF ListInv, Represents, PointersTyped
  <2>4. previousNode' = [m \in Nodes |-> IF m = n THEN b
                                         ELSE IF m = a THEN n
                                         ELSE previousNode[m]]
    BY <1>2, <1>3, <1>7, <2>1 DEF ListInv, Represents, PointersTyped
  <2>5. nextNode' = [m \in Nodes |->
           IF m = n THEN IF i = Len(s) + 1 THEN Null ELSE s[i]
           ELSE IF i > 1 /\ m = s[i - 1] THEN n ELSE nextNode[m]]
    BY <1>3, <1>7, <2>2, <2>3
  <2>6. previousNode' = [m \in Nodes |->
           IF m = n THEN IF i = 1 THEN Null ELSE s[i - 1]
           ELSE IF i <= Len(s) /\ m = s[i] THEN n ELSE previousNode[m]]
    BY <1>3, <1>6, <1>7, <2>2, <2>4
  <2>7. head' = [head EXCEPT ![l] = IF i = 1 THEN n ELSE @]
    BY <1>2, <1>6, <2>1 DEF ListInv, Represents, PointersTyped
  <2> QED
    BY <1>1, <2>5, <2>6, <2>7 DEF LinkedIn
<1>9. content' = [content EXCEPT ![l] = InsertAt(s, i, n)] /\ op' = Idle
  BY <1>1, <1>6 DEF LinkBefore, InsertByPrio
<1>10. i \in 1 .. Len(s) + 1
  BY <1>5
<1>11. PutIn(s, i, n, InsertAt(s, i, n))
  BY <1>2, <1>5, <1>10, InsertPutsIn
<1> QED
  BY <1>1, <1>2, <1>4, <1>8, <1>9, <1>10, <1>11, LinkIn DEF ListInv

LEMMA UnlinkFoundKeeps ==
    ASSUME ListInv, UnlinkFound
    PROVE  ListInv'
<1>1. op # Idle /\ op.at = op.node
  BY IdleWalks DEF UnlinkFound, LoopGoesOn
<1>2. op.list \in Lists
  BY <1>1, WalkShape DEF ListInv, Represents
<1>3. PICK i \in 1 .. Len(content[op.list]) : op.at = content[op.list][i]
  BY <1>1, WalkFacts
<1>4. OnList(op.list, op.at)
  BY <1>2, <1>3, Elements DEF ListInv
<1> QED
  BY <1>2, <1>4, UnlinkKeeps DEF ListInv, UnlinkFound

-----------------------------------------------------------------------------
(***************************************************************************)
(* The theorems.                                                           *)
(***************************************************************************)

LEMMA ListInitInv ==
    ListInit => ListInv
<1> SUFFICES ASSUME ListInit PROVE ListInv
  OBVIOUS
<1>1. \A l \in Lists : content[l] = << >> /\ head[l] = Null
  BY DEF ListInit
<1>2. PointersTyped
  BY DEF ListInit, PointersTyped
<1>3. \A l \in Lists : DOMAIN content[l] = {} /\ content[l] = << >>
  BY <1>1
<1> QED
  BY <1>1, <1>2, <1>3
     DEF ListInit, ListInv, WalkInv, Represents, Spells, IsInjective

LEMMA ListStutterInv ==
    ASSUME ListInv, UNCHANGED pointerVars
    PROVE  ListInv'
<1>1. /\ head' = head /\ nextNode' = nextNode /\ previousNode' = previousNode
      /\ op' = op /\ content' = content
  BY DEF pointerVars
<1>2. Represents'
  BY <1>1 DEF ListInv, Represents, PointersTyped, Spells
<1>3. WalkInv'
  BY <1>1 DEF ListInv, WalkInv, WalkAt, OnNoList, OnList
<1> QED
  BY <1>2, <1>3 DEF ListInv

LEMMA ListNextInv ==
    ASSUME ListInv, ListNext
    PROVE  ListInv'
<1>1. Represents
  BY DEF ListInv
<1>2. ASSUME NEW l \in Lists, NEW n \in Nodes, AddNodeToFront(l, n) PROVE ListInv'
  BY <1>1, <1>2, AddFrontKeeps
<1>3. ASSUME NEW l \in Lists, NEW n \in Nodes, AddNodeToEnd(l, n) PROVE ListInv'
  BY <1>1, <1>3, AddEndKeeps
<1>4. ASSUME NEW l \in Lists, NEW n \in Nodes, AddTaskByPrio(l, n) PROVE ListInv'
  BY <1>1, <1>4, AddByPrioKeeps
<1>5. ASSUME NEW l \in Lists, NEW n \in Nodes, RemoveNode(l, n) PROVE ListInv'
  BY <1>1, <1>5, UnlinkKeeps DEF RemoveNode
<1>6. ASSUME NEW l \in Lists, NEW n \in Nodes, RemoveNodeByTCB(l, n) PROVE ListInv'
  <2>1. content[l] # << >>
    BY <1>6 DEF RemoveNodeByTCB, OnList
  <2> QED
    BY <1>1, <1>6, <2>1, WalkBegins DEF RemoveNodeByTCB
<1>7. ASSUME NEW l \in Lists, RemoveFirstNode(l) PROVE ListInv'
  BY <1>1, <1>7, RemoveFirstKeeps
<1>8. CASE WalkOn
  BY <1>8, WalkOnKeeps
<1>9. CASE Finish
  BY <1>9, LinkAtEndKeeps, LinkBeforeKeeps, UnlinkFoundKeeps DEF Finish
<1> QED
  BY <1>2, <1>3, <1>4, <1>5, <1>6, <1>7, <1>8, <1>9 DEF ListNext

(* The pointers always spell out, in both directions, the sequences that   *)
(* TaskList's operators promise: whatever is added and removed, on however *)
(* many lists, and in the middle of every walk.                            *)
THEOREM ListRepresents ==
    ListSpec => []Represents
<1>1. ListInv /\ [ListNext]_pointerVars => ListInv'
  BY ListNextInv, ListStutterInv
<1>2. ListInv => Represents
  BY DEF ListInv
<1> QED
  BY ListInitInv, <1>1, <1>2, PTL DEF ListSpec

(* No walk runs off its list: the loops without a test for NULL meet what  *)
(* they look for first.                                                    *)
THEOREM ListWalkStaysOnList ==
    ListSpec => []WalkStaysOnList
<1>1. ListInv /\ [ListNext]_pointerVars => ListInv'
  BY ListNextInv, ListStutterInv
<1>2. ListInv => WalkStaysOnList
  BY WalkFacts, NullIsNone DEF WalkStaysOnList
<1> QED
  BY ListInitInv, <1>1, <1>2, PTL DEF ListSpec

-----------------------------------------------------------------------------
(***************************************************************************)
(* Memory.                                                                 *)
(***************************************************************************)

Partition == [blockSize : 0 .. 255, numBlocks : 0 .. 255,
              numActiveBlocks : Nat]

Blocks == UNION { BlocksOf(p) : p \in DOMAIN partitions }

LEMMA PartitionFacts ==
    ASSUME NEW r \in Partition
    PROVE  /\ r.blockSize \in Nat /\ r.numBlocks \in Nat
           /\ r.numActiveBlocks \in Nat
BY DEF Partition

LEMMA BlockFacts ==
    ASSUME NEW b
    PROVE  b \in Blocks <=>
              \E p \in DOMAIN partitions : \E i \in 1 .. partitions[p].numBlocks :
                 b = <<p, i>>
BY DEF Blocks, BlocksOf

-----------------------------------------------------------------------------
(***************************************************************************)
(* The blocks in use of a partition, by their index, are never more than   *)
(* its count, whoever frees what: a count goes up with each block taken    *)
(* and never down.                                                         *)
(***************************************************************************)
Used(p) == { i \in 1 .. partitions[p].numBlocks : <<p, i>> \in inUse }

CountInv ==
    \A p \in DOMAIN partitions :
        /\ Cardinality(Used(p)) <= partitions[p].numActiveBlocks
        /\ partitions[p].numActiveBlocks <= partitions[p].numBlocks

RoomInv ==
    /\ partitions \in Seq(Partition)
    /\ inUse \subseteq Blocks
    /\ CountInv

LEMMA UsedIsFinite ==
    ASSUME partitions \in Seq(Partition), NEW p \in DOMAIN partitions
    PROVE  /\ Used(p) \subseteq 1 .. partitions[p].numBlocks
           /\ IsFiniteSet(Used(p)) /\ Cardinality(Used(p)) \in Nat
           /\ partitions[p] \in Partition /\ partitions[p].numBlocks \in Nat
           /\ partitions[p].numActiveBlocks \in Nat
<1>1. /\ partitions[p] \in Partition /\ partitions[p].numBlocks \in Nat
      /\ partitions[p].numActiveBlocks \in Nat
  BY PartitionFacts
<1>2. /\ 1 \in Int /\ partitions[p].numBlocks \in Int
      /\ Used(p) \subseteq 1 .. partitions[p].numBlocks
  BY <1>1 DEF Used
<1>3. IsFiniteSet(1 .. partitions[p].numBlocks)
  BY <1>2, FS_Interval
<1>4. IsFiniteSet(Used(p))
  BY <1>2, <1>3, FS_Subset
<1> QED
  BY <1>1, <1>2, <1>4, FS_CardinalityType

LEMMA RoomLeft ==
    ASSUME RoomInv, NEW p \in DOMAIN partitions, HasRoom(p)
    PROVE  /\ partitions[p].numActiveBlocks < partitions[p].numBlocks
           /\ BlocksOf(p) \ inUse # {}
<1> DEFINE n == partitions[p].numBlocks
<1>1. /\ partitions[p] \in Partition /\ n \in Nat
      /\ partitions[p].numActiveBlocks \in Nat
      /\ Used(p) \subseteq 1 .. n
      /\ Cardinality(Used(p)) \in Nat
  BY UsedIsFinite DEF RoomInv
<1>2. partitions[p].numActiveBlocks < n
  BY <1>1 DEF HasRoom, RoomInv, CountInv
<1>3. Cardinality(Used(p)) < n
  BY <1>1, <1>2 DEF RoomInv, CountInv
<1>4. Cardinality(1 .. n) = n
  <2>1. 1 \in Int /\ n \in Int /\ (IF 1 > n THEN 0 ELSE n - 1 + 1) = n
    BY <1>1
  <2> HIDE DEF n
  <2> QED
    BY <2>1, FS_Interval
<1>5. PICK i \in 1 .. n : i \notin Used(p)
  <2>1. Used(p) # 1 .. n
    BY <1>1, <1>3, <1>4
  <2> QED
    BY <1>1, <2>1
<1> QED
  BY <1>2, <1>5 DEF Used, BlocksOf

(* Fewer blocks in use, or more partitions, keep the counts right.         *)
LEMMA RoomKept ==
    ASSUME RoomInv, partitions' = partitions, inUse' \subseteq inUse
    PROVE  RoomInv'
<1>1. inUse' \subseteq Blocks'
  BY DEF RoomInv, Blocks, BlocksOf
<1>2. ASSUME NEW p \in DOMAIN partitions
      PROVE  Cardinality(Used(p)') <= partitions[p].numActiveBlocks
  <2>1. Used(p)' \in SUBSET Used(p)
    BY DEF Used
  <2>2. Cardinality(Used(p)') <= Cardinality(Used(p)) /\ IsFiniteSet(Used(p)')
    BY <2>1, UsedIsFinite, FS_Subset DEF RoomInv
  <2>3. /\ Cardinality(Used(p)') \in Nat /\ Cardinality(Used(p)) \in Nat
        /\ partitions[p].numActiveBlocks \in Nat
    BY <2>2, UsedIsFinite, FS_CardinalityType DEF RoomInv
  <2> QED
    BY <2>2, <2>3 DEF RoomInv, CountInv
<1> QED
  BY <1>1, <1>2 DEF RoomInv, CountInv

LEMMA RoomPartitionInit ==
    ASSUME RoomInv, NEW l \in Layouts, PartitionInit(l)
    PROVE  RoomInv'
<1> PICK n \in Nat : n = Len(partitions) + 1
  BY DEF RoomInv
<1> DEFINE new == [blockSize |-> l.blockSize, numBlocks |-> l.numBlocks,
                   numActiveBlocks |-> 0]
<1>1. partitions' = Append(partitions, new) /\ inUse' = inUse
  BY DEF PartitionInit
<1>2. new \in Partition /\ new.numActiveBlocks = 0 /\ new.numBlocks \in Nat
  <2>1. l.blockSize \in 0 .. 255 /\ l.numBlocks \in 0 .. 255
    BY MemAssumption
  <2>2. l.numBlocks \in Nat /\ 0 \in Nat
    <3>1. 0 \in Nat /\ \A k \in 0 .. 255 : k \in Nat
      OBVIOUS
    <3> QED
      BY <2>1, <3>1, Zenon
  <2>3. new \in Partition
    BY <2>1, <2>2, Zenon DEF Partition
  <2> QED
    BY <2>2, <2>3
<1> HIDE DEF new
<1>3. /\ partitions' \in Seq(Partition)
      /\ DOMAIN partitions' = DOMAIN partitions \union {n}
      /\ n \notin DOMAIN partitions
      /\ partitions'[n] = new
      /\ \A p \in DOMAIN partitions : partitions'[p] = partitions[p]
  BY <1>1, <1>2 DEF RoomInv
<1>4. inUse' \subseteq Blocks'
  <2>1. \A p \in DOMAIN partitions : BlocksOf(p)' = BlocksOf(p)
    BY <1>3 DEF BlocksOf
  <2> QED
    BY <1>1, <1>3, <2>1 DEF RoomInv, Blocks
<1>5. ASSUME NEW p \in DOMAIN partitions
      PROVE  /\ Cardinality(Used(p)') <= partitions'[p].numActiveBlocks
             /\ partitions'[p].numActiveBlocks <= partitions'[p].numBlocks
  <2>1. Used(p)' = Used(p)
    BY <1>1, <1>3 DEF Used
  <2> QED
    BY <1>3, <2>1 DEF RoomInv, CountInv
<1>6. /\ Cardinality(Used(n)') <= partitions'[n].numActiveBlocks
      /\ partitions'[n].numActiveBlocks <= partitions'[n].numBlocks
  <2>1. \A i : <<n, i>> \notin inUse
    BY <1>3, BlockFacts DEF RoomInv
  <2>2. Used(n)' = {}
    BY <1>1, <2>1 DEF Used
  <2>3. Cardinality(Used(n)') = 0
    BY <2>2, FS_EmptySet, Zenon
  <2> QED
    BY <1>2, <1>3, <2>3
<1> QED
  BY <1>3, <1>4, <1>5, <1>6 DEF RoomInv, CountInv

LEMMA RoomTakeBlock ==
    ASSUME RoomInv, NEW c \in Callers, TakeBlock(c)
    PROVE  RoomInv'
<1> PICK b \in BlocksOf(call[c].at) \ inUse : inUse' = inUse \union {b}
  BY DEF TakeBlock
<1> PICK at \in DOMAIN partitions : at = call[c].at
  BY DEF TakeBlock
<1> PICK old : old = partitions[at]
  OBVIOUS
<1>1. /\ HasRoom(at) /\ b \in BlocksOf(at)
      /\ partitions' = [partitions EXCEPT ![at].numActiveBlocks = @ + 1]
  BY DEF TakeBlock, Counted
<1>2. /\ old \in Partition /\ old.numActiveBlocks \in Nat
      /\ old.numBlocks \in Nat
      /\ old.numActiveBlocks < old.numBlocks
      /\ Cardinality(Used(at)) \in Nat /\ IsFiniteSet(Used(at))
      /\ Cardinality(Used(at)) <= old.numActiveBlocks
  BY <1>1, UsedIsFinite, RoomLeft DEF RoomInv, CountInv
<1>3. /\ partitions'[at].numActiveBlocks = old.numActiveBlocks + 1
      /\ partitions'[at].numBlocks = old.numBlocks
      /\ partitions'[at] \in Partition
      /\ DOMAIN partitions' = DOMAIN partitions
      /\ \A p \in DOMAIN partitions \ {at} : partitions'[p] = partitions[p]
  <2> PICK new : new = [old EXCEPT !.numActiveBlocks = @ + 1]
    OBVIOUS
  <2>1. /\ new.numActiveBlocks = old.numActiveBlocks + 1
        /\ new.numBlocks = old.numBlocks /\ new \in Partition
    BY <1>2 DEF Partition
  <2>2. partitions' = [partitions EXCEPT ![at] = new]
    BY <1>1
  <2> QED
    BY <2>1, <2>2 DEF RoomInv
<1>4. partitions' \in Seq(Partition)
  BY <1>1, <1>3 DEF RoomInv
<1>5. PICK i \in 1 .. old.numBlocks : b = <<at, i>>
  BY <1>1 DEF BlocksOf
<1>6. inUse' \subseteq Blocks'
  <2>1. \A p \in DOMAIN partitions : BlocksOf(p)' = BlocksOf(p)
    BY <1>3 DEF BlocksOf
  <2> QED
    BY <1>1, <1>3, <2>1 DEF RoomInv, Blocks
<1>7. ASSUME NEW p \in DOMAIN partitions, p # at
      PROVE  /\ Cardinality(Used(p)') <= partitions'[p].numActiveBlocks
             /\ partitions'[p].numActiveBlocks <= partitions'[p].numBlocks
  <2>1. Used(p)' = Used(p)
    BY <1>3, <1>5, <1>7 DEF Used
  <2> QED
    BY <1>3, <1>7, <2>1 DEF RoomInv, CountInv
<1>8. /\ Cardinality(Used(at)') <= partitions'[at].numActiveBlocks
      /\ partitions'[at].numActiveBlocks <= partitions'[at].numBlocks
  <2>1. Used(at)' = Used(at) \union {i}
    BY <1>3, <1>5 DEF Used
  <2>2. Cardinality(Used(at) \union {i}) <= Cardinality(Used(at)) + 1
    <3>1. Cardinality(Used(at) \union {i}) =
            IF i \in Used(at) THEN Cardinality(Used(at))
                              ELSE Cardinality(Used(at)) + 1
      BY <1>2, FS_AddElement, Zenon
    <3> QED
      BY <1>2, <3>1
  <2>3. Cardinality(Used(at)') \in Nat
    BY <1>2, <2>1, FS_AddElement, FS_CardinalityType
  <2> QED
    BY <1>2, <1>3, <2>1, <2>2, <2>3
<1> QED
  BY <1>3, <1>4, <1>6, <1>7, <1>8 DEF RoomInv, CountInv

LEMMA RoomNext ==
    ASSUME RoomInv, [MemNext]_memVars
    PROVE  RoomInv'
<1>1. ASSUME NEW l \in Layouts, PartitionInit(l)
      PROVE  RoomInv'
  BY <1>1, RoomPartitionInit
<1>2. ASSUME NEW c \in Callers, TakeBlock(c)
      PROVE  RoomInv'
  BY <1>2, RoomTakeBlock
<1>3. CASE \/ \E c \in Callers :
                \/ \E which \in {"malloc", "calloc"}, size \in Sizes :
                      Request(c, which, size)
                \/ \E size \in Sizes : Realloc(c, size)
                \/ SkipPartition(c)
                \/ GiveUp(c)
                \/ Copy(c)
                \/ Release(c)
                \/ \E b \in DOMAIN bytes : Free(c, b)
                \/ \E i \in Sizes : Write(c, i)
           \/ UNCHANGED memVars
  <2>1. partitions' = partitions /\ inUse' \subseteq inUse
    BY <1>3 DEF Request, Realloc, SkipPartition, GiveUp, Copy, Release, Free,
                Write, memVars
  <2> QED
    BY <2>1, RoomKept
<1> QED
  BY <1>1, <1>2, <1>3 DEF MemNext

LEMMA RoomSpec == MemSpec => []RoomInv
<1>1. MemInit => RoomInv
  BY DEF MemInit, RoomInv, CountInv
<1>2. RoomInv /\ [MemNext]_memVars => RoomInv'
  BY RoomNext
<1> QED
  BY <1>1, <1>2, PTL DEF MemSpec

(* Where the count of a partition says that there is room there is a block *)
(* that is not in use, so the search inside the critical section finds one *)
(* (memory.c:163), even if blocks are freed that are not held or twice.    *)
THEOREM MemoryRoomIsThere == MemSpec => []RoomIsThere
<1>1. RoomInv => RoomIsThere
  BY RoomLeft DEF RoomIsThere
<1> QED
  BY <1>1, RoomSpec, PTL

-----------------------------------------------------------------------------
(***************************************************************************)
(* Whose block is whose.  A caller owns the block it holds and, from where *)
(* a reallocation has found a second one to where it frees the first, both *)
(* of them.  Blocks that are owned are in use, by one caller each, and     *)
(* hold throughout, watermark included, what that caller wrote or the      *)
(* allocator filled in: a reallocation may copy more than was asked for    *)
(* when the old block was allocated.                                       *)
(***************************************************************************)
Searches == {"malloc", "calloc", "realloc"}

Moves == {"copy", "release"}

Given ==
    { g \in [block : Blocks, size : Sizes] :
        g.size <= partitions[g.block[1]].blockSize }

Calls ==
    {NoCall} \union [op : Searches, size : Sizes, at : Nat]
             \union [op : Moves, new : Given]

Owned(c) ==
    (IF held[c] = Nothing THEN {} ELSE {held[c].block})
      \union (IF call[c].op \in Moves THEN {call[c].new.block} ELSE {})

CallersTyped ==
    /\ held \in [Callers -> {Nothing} \union Given]
    /\ call \in [Callers -> Calls]

MovesFromBlock ==
    \A c \in Callers :
        /\ call[c].op = "realloc" => held[c] # Nothing
        /\ call[c].op \in Moves => /\ held[c] # Nothing
                                   /\ held[c].block # call[c].new.block

OwnedApart ==
    /\ \A c \in Callers : Owned(c) \subseteq inUse
    /\ \A c, d \in Callers : c # d => Owned(c) \intersect Owned(d) = {}

BytesTyped ==
    /\ DOMAIN bytes = Blocks
    /\ \A b \in Blocks : DOMAIN bytes[b] = 1 .. partitions[b[1]].blockSize

OwnBytes ==
    \A c \in Callers : \A b \in Owned(c) : \A i \in DOMAIN bytes[b] :
        bytes[b][i] \in {"mark", "zero", c}

MemoryInv ==
    /\ RoomInv
    /\ CallersTyped
    /\ MovesFromBlock
    /\ OwnedApart
    /\ BytesTyped
    /\ OwnBytes

LEMMA CallShapes ==
    ASSUME NEW x \in Calls
    PROVE  \/ x = NoCall /\ x.op = "none"
           \/ x.op \in Searches /\ x.size \in Sizes /\ x.at \in Nat
           \/ x.op \in Moves /\ x.new \in Given
BY DEF Calls, NoCall

LEMMA SizesAreNat == Sizes \subseteq Nat
<1>1. Sizes \subseteq 1 .. 255
  BY MemAssumption
<1>2. 1 .. 255 \subseteq Nat
  OBVIOUS
<1> QED
  BY <1>1, <1>2, Zenon

LEMMA OpsDiffer ==
    /\ \A x \in Moves : x \notin Searches /\ x # "none" /\ x # "realloc"
    /\ "none" \notin Moves /\ "none" \notin Searches
    /\ "malloc" \notin Moves /\ "calloc" \notin Moves /\ "realloc" \notin Moves
    /\ "copy" \in Moves /\ "release" \in Moves
BY DEF Moves, Searches

LEMMA BlockPlace ==
    ASSUME NEW b \in Blocks
    PROVE  b[1] \in DOMAIN partitions
BY BlockFacts

(* Partitions that keep their layout keep their blocks.                    *)
LEMMA LayoutKept ==
    ASSUME DOMAIN partitions \subseteq DOMAIN partitions',
           \A p \in DOMAIN partitions :
               /\ partitions'[p].blockSize = partitions[p].blockSize
               /\ partitions'[p].numBlocks = partitions[p].numBlocks
    PROVE  /\ Blocks \subseteq Blocks' /\ Given \subseteq Given'
           /\ Calls \subseteq Calls'
           /\ DOMAIN partitions' = DOMAIN partitions => Blocks' = Blocks
           /\ \A b \in Blocks : partitions'[b[1]].blockSize =
                                   partitions[b[1]].blockSize
<1>1. /\ Blocks \subseteq Blocks'
      /\ DOMAIN partitions' = DOMAIN partitions => Blocks' = Blocks
  BY DEF Blocks, BlocksOf
<1>2. \A b \in Blocks : partitions'[b[1]].blockSize = partitions[b[1]].blockSize
  BY BlockPlace
<1>3. Given \subseteq Given'
  <2> SUFFICES ASSUME NEW g \in Given PROVE g \in Given'
    OBVIOUS
  <2>1. /\ g \in [block : Blocks, size : Sizes] /\ g.block \in Blocks
        /\ g.size <= partitions[g.block[1]].blockSize
    BY DEF Given
  <2>2. g \in [block : Blocks', size : Sizes]
    BY <1>1, <2>1
  <2> QED
    BY <1>2, <2>1, <2>2 DEF Given
<1>4. Calls \subseteq Calls'
  BY <1>3 DEF Calls
<1> QED
  BY <1>1, <1>2, <1>3, <1>4

LEMMA SameLayout ==
    ASSUME partitions' = partitions
    PROVE  Blocks' = Blocks /\ Given' = Given /\ Calls' = Calls
BY DEF Blocks, BlocksOf, Given, Calls

LEMMA OwnedSame ==
    ASSUME NEW c, held'[c] = held[c], call'[c] = call[c]
    PROVE  Owned(c)' = Owned(c)
BY DEF Owned

LEMMA CallerFacts ==
    ASSUME MemoryInv, NEW c \in Callers
    PROVE  /\ held[c] # Nothing => /\ held[c] \in Given
                                   /\ held[c].block \in Blocks
                                   /\ held[c].block \in Owned(c)
           /\ call[c] \in Calls
           /\ call[c].op \in Moves => /\ call[c].new \in Given
                                      /\ call[c].new.block \in Blocks
                                      /\ call[c].new.block \in Owned(c)
           /\ Owned(c) \subseteq Blocks /\ Owned(c) \subseteq inUse
<1>1. held[c] \in {Nothing} \union Given /\ call[c] \in Calls
  BY DEF MemoryInv, CallersTyped
<1>2. \A g \in Given : g.block \in Blocks
  BY DEF Given
<1>3. call[c].op \in Moves => call[c].new \in Given
  BY <1>1, CallShapes, OpsDiffer
<1> QED
  BY <1>1, <1>2, <1>3 DEF Owned, MemoryInv, RoomInv, OwnedApart

(* The calls and the search only move a caller from where it was.          *)
LEMMA CallMoves ==
    ASSUME MemoryInv, RoomInv', NEW c \in Callers, NEW x \in Calls,
           call' = [call EXCEPT ![c] = x],
           UNCHANGED <<partitions, inUse, bytes, held>>,
           Owned(c)' = Owned(c),
           x.op = "realloc" => held[c] # Nothing,
           x.op \in Moves => /\ held[c] # Nothing
                             /\ held[c].block # x.new.block
    PROVE  MemoryInv'
<1>1. call' \in [Callers -> Calls] /\ call'[c] = x
      /\ \A d \in Callers \ {c} : call'[d] = call[d]
  BY DEF MemoryInv, CallersTyped
<1>2. \A d \in Callers : Owned(d)' = Owned(d)
  BY <1>1, OwnedSame
<1>3. Blocks' = Blocks /\ Given' = Given /\ Calls' = Calls
  BY SameLayout
<1>4. CallersTyped'
  BY <1>1, <1>3 DEF MemoryInv, CallersTyped
<1>5. MovesFromBlock'
  BY <1>1 DEF MemoryInv, MovesFromBlock
<1>6. OwnedApart' /\ OwnBytes'
  BY <1>2 DEF MemoryInv, OwnedApart, OwnBytes
<1>7. BytesTyped'
  BY <1>3 DEF MemoryInv, BytesTyped
<1> QED
  BY <1>4, <1>5, <1>6, <1>7 DEF MemoryInv

LEMMA SearchMoves ==
    ASSUME MemoryInv, RoomInv', NEW c \in Callers,
           \/ \E which \in {"malloc", "calloc"}, size \in Sizes :
                 Request(c, which, size)
           \/ \E size \in Sizes : Realloc(c, size)
           \/ SkipPartition(c)
           \/ GiveUp(c)
    PROVE  MemoryInv'
<1>1. call[c] \in Calls
  BY CallerFacts
<1>2. ASSUME NEW x \in Calls, x.op \notin Moves, call[c].op \notin Moves,
             call' = [call EXCEPT ![c] = x],
             UNCHANGED <<partitions, inUse, bytes, held>>,
             x.op = "realloc" => held[c] # Nothing
      PROVE  MemoryInv'
  <2>1. call'[c] = x /\ held'[c] = held[c]
    BY <1>2 DEF MemoryInv, CallersTyped
  <2>2. Owned(c)' = Owned(c)
    BY <1>2, <2>1, Zenon DEF Owned
  <2> QED
    BY <1>2, <2>2, CallMoves
<1>3. NoCall \in Calls /\ NoCall.op = "none" /\ "none" # "realloc"
  BY DEF Calls, NoCall
<1>4. ASSUME NEW which \in {"malloc", "calloc"}, NEW size \in Sizes,
             Request(c, which, size)
      PROVE  MemoryInv'
  <2> DEFINE x == [op |-> which, size |-> size, at |-> 1]
  <2>1. x \in Calls /\ x.op = which
    BY DEF Calls, Searches
  <2> HIDE DEF x
  <2>2. /\ call[c].op \notin Moves
        /\ call' = [call EXCEPT ![c] = x]
        /\ UNCHANGED <<partitions, inUse, bytes, held>>
    BY <1>3, <1>4, OpsDiffer DEF Request, x
  <2> QED
    BY <1>2, <2>1, <2>2, OpsDiffer
<1>5. ASSUME NEW size \in Sizes, Realloc(c, size)
      PROVE  MemoryInv'
  <2> DEFINE x == [op |-> "realloc", size |-> size, at |-> 1]
  <2>1. x \in Calls /\ x.op = "realloc"
    BY DEF Calls, Searches
  <2> HIDE DEF x
  <2>2. /\ call[c].op \notin Moves
        /\ call' = [call EXCEPT ![c] = x]
        /\ UNCHANGED <<partitions, inUse, bytes, held>>
        /\ held[c] # Nothing
    BY <1>3, <1>5, OpsDiffer DEF Realloc, x
  <2> QED
    BY <1>2, <2>1, <2>2, OpsDiffer
<1>6. CASE SkipPartition(c)
  <2>1. call[c] \in [op : Searches, size : Sizes, at : Nat]
    BY <1>1, <1>3, <1>6, OpsDiffer DEF SkipPartition, Searching, Calls, Searches
  <2> PICK x : x = [call[c] EXCEPT !.at = @ + 1]
    OBVIOUS
  <2>2. x \in [op : Searches, size : Sizes, at : Nat] /\ x.op = call[c].op
    BY <2>1
  <2>3. x \in Calls /\ x.op \notin Moves
    BY <2>1, <2>2, OpsDiffer DEF Calls
  <2>4. /\ call' = [call EXCEPT ![c] = x]
        /\ UNCHANGED <<partitions, inUse, bytes, held>>
    BY <1>6 DEF SkipPartition
  <2>5. x.op = "realloc" => held[c] # Nothing
    BY <2>2 DEF MemoryInv, MovesFromBlock
  <2> QED
    BY <1>2, <2>2, <2>3, <2>4, <2>5
<1>7. CASE GiveUp(c)
  <2>1. /\ call[c].op \notin Moves
        /\ call' = [call EXCEPT ![c] = NoCall]
        /\ UNCHANGED <<partitions, inUse, bytes, held>>
    BY <1>7, OpsDiffer DEF GiveUp, Searching, Searches
  <2> QED
    BY <1>2, <1>3, <2>1, OpsDiffer
<1> QED
  BY <1>4, <1>5, <1>6, <1>7

(* The blocks of the others, when one caller's step changes at most its    *)
(* own block and what is its own.                                          *)
LEMMA OthersApart ==
    ASSUME MemoryInv, NEW c \in Callers,
           \A d \in Callers \ {c} : held'[d] = held[d] /\ call'[d] = call[d],
           Owned(c)' \subseteq inUse',
           \A b \in Owned(c)' : b \in Owned(c) \/ b \notin inUse,
           inUse \ Owned(c) \subseteq inUse'
    PROVE  OwnedApart'
<1>1. \A d \in Callers \ {c} : Owned(d)' = Owned(d) /\ Owned(d) \subseteq inUse
  BY OwnedSame, CallerFacts
<1>2. \A d \in Callers \ {c} : Owned(d) \intersect Owned(c) = {}
  BY DEF MemoryInv, OwnedApart
<1>3. \A d \in Callers \ {c} : Owned(d)' \subseteq inUse'
  BY <1>1, <1>2
<1>4. \A d \in Callers \ {c} : Owned(d)' \intersect Owned(c)' = {}
  BY <1>1, <1>2
<1>5. \A d, e \in Callers \ {c} :
         d # e => Owned(d)' \intersect Owned(e)' = {}
  BY <1>1 DEF MemoryInv, OwnedApart
<1> QED
  BY <1>3, <1>4, <1>5 DEF OwnedApart

LEMMA OthersBytes ==
    ASSUME MemoryInv, NEW c \in Callers,
           \A d \in Callers \ {c} : held'[d] = held[d] /\ call'[d] = call[d],
           \A b \in inUse \ Owned(c) : bytes'[b] = bytes[b],
           \A b \in Owned(c)' : \A i \in DOMAIN bytes'[b] :
               bytes'[b][i] \in {"mark", "zero", c}
    PROVE  OwnBytes'
<1>1. \A d \in Callers \ {c} : Owned(d)' = Owned(d) /\ Owned(d) \subseteq inUse
  BY OwnedSame, CallerFacts
<1>2. \A d \in Callers \ {c} : Owned(d) \intersect Owned(c) = {}
  BY DEF MemoryInv, OwnedApart
<1>3. ASSUME NEW d \in Callers \ {c}, NEW b \in Owned(d)'
      PROVE  \A i \in DOMAIN bytes'[b] : bytes'[b][i] \in {"mark", "zero", d}
  <2>1. b \in Owned(d) /\ b \in inUse \ Owned(c)
    BY <1>1, <1>2, <1>3
  <2> QED
    BY <2>1 DEF MemoryInv, OwnBytes
<1> QED
  BY <1>3 DEF OwnBytes

LEMMA FillFacts ==
    ASSUME NEW which, NEW b
    PROVE  /\ DOMAIN Filled(which, b) = 1 .. partitions[b[1]].blockSize
           /\ \A i \in DOMAIN Filled(which, b) : Filled(which, b)[i] \in {"mark", "zero"}
BY DEF Filled, Fill, ZeroFill

LEMMA TakeBlockOwned ==
    ASSUME MemoryInv, RoomInv', NEW c \in Callers, TakeBlock(c)
    PROVE  MemoryInv'
<1> PICK at \in DOMAIN partitions : at = call[c].at
  BY DEF TakeBlock
<1> PICK b \in BlocksOf(at) \ inUse :
           /\ inUse' = inUse \union {b}
           /\ bytes' = [bytes EXCEPT ![b] = Filled(call[c].op, b)]
           /\ LET new == [block |-> b, size |-> call[c].size]
              IN  IF call[c].op = "realloc"
                    THEN /\ call' = [call EXCEPT ![c] =
                                       [op |-> "copy", new |-> new]]
                         /\ held' = held
                    ELSE /\ call' = [call EXCEPT ![c] = NoCall]
                         /\ held' = [held EXCEPT ![c] = new]
  BY DEF TakeBlock
<1> PICK new : new = [block |-> b, size |-> call[c].size]
  OBVIOUS
<1>1. /\ call[c] \in Calls /\ call[c].op \in Searches /\ call[c].size \in Sizes
      /\ call[c].size + WatermarkSize <= partitions[at].blockSize
      /\ partitions' = [partitions EXCEPT ![at].numActiveBlocks = @ + 1]
  BY CallerFacts, CallShapes, OpsDiffer
     DEF TakeBlock, Searching, Searches, Counted, Fits, NoCall
<1>2. b \in Blocks /\ b[1] = at
  BY DEF Blocks, BlocksOf
<1>3. new \in Given /\ new.block = b
  <2>1. partitions[at].blockSize \in Nat /\ call[c].size \in Nat
    BY <1>1, PartitionFacts, SizesAreNat DEF MemoryInv, RoomInv
  <2>2. call[c].size <= partitions[at].blockSize
    BY <1>1, <2>1 DEF WatermarkSize
  <2> QED
    BY <1>1, <1>2, <2>2 DEF Given
<1>4. /\ DOMAIN partitions' = DOMAIN partitions
      /\ \A p \in DOMAIN partitions :
             /\ partitions'[p].blockSize = partitions[p].blockSize
             /\ partitions'[p].numBlocks = partitions[p].numBlocks
  BY <1>1, PartitionFacts DEF MemoryInv, RoomInv
<1>5. /\ Blocks' = Blocks /\ Given \subseteq Given' /\ Calls \subseteq Calls'
      /\ \A k \in Blocks : partitions'[k[1]].blockSize =
                              partitions[k[1]].blockSize
  BY <1>4, LayoutKept
<1>6. \A d \in Callers \ {c} : held'[d] = held[d] /\ call'[d] = call[d]
  BY DEF MemoryInv, CallersTyped
<1>7. /\ Owned(c)' \subseteq Owned(c) \union {b}
      /\ held'[c] \in {Nothing} \union Given /\ call'[c] \in Calls
      /\ call'[c].op = "realloc" => held'[c] # Nothing
      /\ call'[c].op \in Moves => /\ held'[c] # Nothing
                                  /\ held'[c].block # call'[c].new.block
  <2>1. CASE call[c].op = "realloc"
    <3> PICK x : x = [op |-> "copy", new |-> new]
      OBVIOUS
    <3>1. x \in Calls /\ x.op = "copy" /\ x.new = new
      BY <1>3, OpsDiffer DEF Calls
    <3>2. call'[c] = x /\ held' = held
      BY <2>1 DEF MemoryInv, CallersTyped
    <3>3. held[c] # Nothing /\ held[c].block \in inUse
      BY <2>1, CallerFacts DEF MemoryInv, MovesFromBlock
    <3>4. held[c].block # b
      BY <3>3
    <3>5. Owned(c)' \subseteq Owned(c) \union {b}
      BY <1>3, <3>1, <3>2 DEF Owned
    <3> QED
      BY <1>3, <3>1, <3>2, <3>3, <3>4, <3>5, CallerFacts
  <2>2. CASE call[c].op # "realloc"
    <3>1. call'[c] = NoCall /\ held'[c] = new
      BY <2>2 DEF MemoryInv, CallersTyped
    <3>2. NoCall \in Calls /\ NoCall.op = "none"
      BY DEF Calls, NoCall
    <3>3. Owned(c)' \subseteq {b}
      BY <1>3, <3>1, <3>2, OpsDiffer DEF Owned
    <3> QED
      BY <1>3, <3>1, <3>2, <3>3, OpsDiffer
  <2> QED
    BY <2>1, <2>2
<1>8. CallersTyped'
  <2>1. /\ held' \in [Callers -> {Nothing} \union Given]
        /\ call' \in [Callers -> Calls]
    <3>1. DOMAIN held' = Callers /\ DOMAIN call' = Callers
      BY DEF MemoryInv, CallersTyped
    <3> QED
      BY <1>6, <1>7, <3>1 DEF MemoryInv, CallersTyped
  <2> QED
    BY <1>5, <2>1 DEF CallersTyped
<1>9. MovesFromBlock'
  BY <1>6, <1>7 DEF MemoryInv, MovesFromBlock
<1>10. OwnedApart'
  <2>1. Owned(c) \subseteq inUse
    BY CallerFacts
  <2> QED
    BY <1>6, <1>7, <2>1, OthersApart
<1>11. BytesTyped'
  BY <1>2, <1>5, FillFacts DEF MemoryInv, BytesTyped
<1>12. OwnBytes'
  <2>1. \A k \in Blocks \ {b} : bytes'[k] = bytes[k]
    BY DEF MemoryInv, BytesTyped
  <2>2. \A i \in DOMAIN bytes'[b] : bytes'[b][i] \in {"mark", "zero", c}
    BY <1>2, FillFacts DEF MemoryInv, BytesTyped
  <2>3. inUse \subseteq Blocks \ {b} /\ Owned(c) \subseteq Blocks \ {b}
    BY CallerFacts DEF MemoryInv, RoomInv
  <2>4. ASSUME NEW k \in Owned(c)', NEW i \in DOMAIN bytes'[k]
        PROVE  bytes'[k][i] \in {"mark", "zero", c}
    BY <1>7, <2>1, <2>2, <2>3, <2>4 DEF MemoryInv, OwnBytes
  <2> QED
    BY <1>6, <2>1, <2>3, <2>4, OthersBytes
<1> QED
  BY <1>8, <1>9, <1>10, <1>11, <1>12 DEF MemoryInv

LEMMA MinOfTwo ==
    ASSUME NEW x \in Int, NEW y \in Int
    PROVE  Min({x, y}) \in Int /\ Min({x, y}) <= y
<1>1. \E z \in {x, y} : \A w \in {x, y} : z <= w
  OBVIOUS
<1> QED
  BY <1>1 DEF Min

(* What a reallocation copies is the caller's own data.                    *)
LEMMA CopyOwned ==
    ASSUME MemoryInv, RoomInv', NEW c \in Callers, Copy(c)
    PROVE  MemoryInv'
<1> PICK new : new = call[c].new
  OBVIOUS
<1> PICK old : old = held[c].block
  OBVIOUS
<1> PICK x : x = [call[c] EXCEPT !.op = "release"]
  OBVIOUS
<1>1. /\ call[c].op = "copy"
      /\ bytes' = [bytes EXCEPT ![new.block] = Copied(old, new.block, new.size)]
      /\ call' = [call EXCEPT ![c] = x]
      /\ UNCHANGED <<partitions, inUse, held>>
  BY DEF Copy
<1>2. /\ call[c] \in [op : Moves, new : Given]
      /\ held[c] # Nothing /\ old # new.block
      /\ new \in Given /\ new.block \in Blocks /\ new.block \in Owned(c)
      /\ old \in Blocks /\ old \in Owned(c)
  <2>1. call[c] \in [op : Moves, new : Given]
    BY <1>1, CallerFacts, OpsDiffer DEF Calls, NoCall, Searches
  <2> QED
    BY <1>1, <2>1, CallerFacts, OpsDiffer DEF MemoryInv, MovesFromBlock
<1>3. /\ x \in Calls /\ x.op = "release" /\ x.new = new
      /\ call'[c] = x /\ call' \in [Callers -> Calls]
      /\ \A d \in Callers \ {c} : call'[d] = call[d]
  <2>1. x \in [op : Moves, new : Given] /\ x.op = "release" /\ x.new = new
    BY <1>2, OpsDiffer
  <2> QED
    BY <1>1, <2>1 DEF Calls, MemoryInv, CallersTyped
<1>4. Owned(c)' = Owned(c)
  BY <1>1, <1>2, <1>3, OpsDiffer DEF Owned
<1>5. Blocks' = Blocks /\ Given' = Given /\ Calls' = Calls
  BY <1>1, SameLayout
<1>6. CallersTyped'
  BY <1>1, <1>3, <1>5 DEF MemoryInv, CallersTyped
<1>7. MovesFromBlock'
  BY <1>1, <1>2, <1>3, OpsDiffer DEF MemoryInv, MovesFromBlock
<1>8. OwnedApart'
  <2>1. Owned(c) \subseteq inUse
    BY CallerFacts
  <2> QED
    BY <1>1, <1>3, <1>4, <2>1, OthersApart
<1>9. /\ bytes'[new.block] = Copied(old, new.block, new.size)
      /\ \A b \in Blocks \ {new.block} : bytes'[b] = bytes[b]
      /\ DOMAIN bytes' = Blocks
      /\ DOMAIN bytes'[new.block] = DOMAIN bytes[new.block]
  BY <1>1, <1>2 DEF MemoryInv, BytesTyped, Copied
<1>10. BytesTyped'
  BY <1>1, <1>5, <1>9 DEF MemoryInv, BytesTyped
<1>11. ASSUME NEW i \in DOMAIN bytes[new.block]
       PROVE  bytes'[new.block][i] \in {"mark", "zero", c}
  <2> PICK loopLength : loopLength = Min({new.size, FindBlockSize(old)})
    OBVIOUS
  <2>1. /\ partitions[old[1]].blockSize \in Nat
        /\ i \in Nat /\ i >= 1 /\ new.size \in Nat
    <3>1. /\ old[1] \in DOMAIN partitions
          /\ new.block[1] \in DOMAIN partitions
      BY <1>2, BlockPlace
    <3>2. DOMAIN bytes[new.block] = 1 .. partitions[new.block[1]].blockSize
      BY <1>2 DEF MemoryInv, BytesTyped
    <3>3. /\ partitions[old[1]].blockSize \in Nat
          /\ partitions[new.block[1]].blockSize \in Nat
      BY <3>1, PartitionFacts DEF MemoryInv, RoomInv
    <3>4. new.size \in Nat
      BY <1>2, SizesAreNat DEF Given
    <3> QED
      BY <3>2, <3>3, <3>4
  <2>2. FindBlockSize(old) = partitions[old[1]].blockSize - 2
    BY DEF FindBlockSize, WatermarkSize
  <2>3. loopLength \in Int /\ loopLength <= FindBlockSize(old)
    <3>1. new.size \in Int /\ FindBlockSize(old) \in Int
      BY <2>1, <2>2
    <3> QED
      BY <3>1, MinOfTwo, Zenon
  <2>4. CASE i < loopLength
    <3>1. i \in DOMAIN bytes[old]
      <4>1. DOMAIN bytes[old] = 1 .. partitions[old[1]].blockSize
        BY <1>2 DEF MemoryInv, BytesTyped
      <4> QED
        BY <2>1, <2>2, <2>3, <2>4, <4>1
    <3>2. bytes'[new.block][i] = bytes[old][i]
      BY <1>9, <2>4 DEF Copied
    <3> QED
      BY <1>2, <3>1, <3>2 DEF MemoryInv, OwnBytes
  <2>5. CASE ~ (i < loopLength)
    <3>1. bytes'[new.block][i] = bytes[new.block][i]
      BY <1>9, <2>5 DEF Copied
    <3> QED
      BY <1>2, <3>1 DEF MemoryInv, OwnBytes
  <2> QED
    BY <2>4, <2>5
<1>12. OwnBytes'
  <2>1. inUse \ Owned(c) \subseteq Blocks \ {new.block}
    BY <1>2 DEF MemoryInv, RoomInv
  <2>2. ASSUME NEW b \in Owned(c)', NEW i \in DOMAIN bytes'[b]
        PROVE  bytes'[b][i] \in {"mark", "zero", c}
    <3>1. b \in Owned(c) /\ b \in Blocks
      BY <1>4, CallerFacts
    <3>2. CASE b = new.block
      BY <1>9, <1>11, <3>2
    <3>3. CASE b # new.block
      BY <1>9, <3>1, <3>3 DEF MemoryInv, OwnBytes
    <3> QED
      BY <3>2, <3>3
  <2>3. \A b \in inUse \ Owned(c) : bytes'[b] = bytes[b]
    BY <1>9, <2>1
  <2> QED
    BY <1>1, <1>3, <2>2, <2>3, OthersBytes
<1> QED
  BY <1>6, <1>7, <1>8, <1>10, <1>12 DEF MemoryInv

LEMMA ReleaseOwned ==
    ASSUME MemoryInv, RoomInv', NEW c \in Callers, Release(c)
    PROVE  MemoryInv'
<1> PICK new : new = call[c].new
  OBVIOUS
<1> PICK old : old = held[c].block
  OBVIOUS
<1>1. /\ call[c].op = "release"
      /\ inUse' = inUse \ {old}
      /\ held' = [held EXCEPT ![c] = new]
      /\ call' = [call EXCEPT ![c] = NoCall]
      /\ UNCHANGED <<partitions, bytes>>
  BY DEF Release
<1>2. /\ held[c] # Nothing /\ old # new.block
      /\ new \in Given /\ new.block \in Blocks /\ new.block \in Owned(c)
      /\ old \in Owned(c) /\ Owned(c) \subseteq inUse
  BY <1>1, CallerFacts, OpsDiffer DEF MemoryInv, MovesFromBlock
<1>3. /\ held'[c] = new /\ call'[c] = NoCall
      /\ NoCall \in Calls /\ NoCall.op = "none"
      /\ \A d \in Callers \ {c} : held'[d] = held[d] /\ call'[d] = call[d]
  BY <1>1 DEF MemoryInv, CallersTyped, Calls, NoCall
<1>4. Owned(c)' \subseteq {new.block}
  BY <1>3, OpsDiffer DEF Owned
<1>5. Blocks' = Blocks /\ Given' = Given /\ Calls' = Calls
  BY <1>1, SameLayout
<1>6. CallersTyped'
  BY <1>1, <1>2, <1>3, <1>5 DEF MemoryInv, CallersTyped
<1>7. MovesFromBlock'
  BY <1>3, OpsDiffer DEF MemoryInv, MovesFromBlock
<1>8. OwnedApart'
  BY <1>1, <1>2, <1>3, <1>4, OthersApart
<1>9. BytesTyped'
  BY <1>1, <1>5 DEF MemoryInv, BytesTyped
<1>10. OwnBytes'
  <2>1. ASSUME NEW b \in Owned(c)', NEW i \in DOMAIN bytes'[b]
        PROVE  bytes'[b][i] \in {"mark", "zero", c}
    BY <1>1, <1>2, <1>4, <2>1 DEF MemoryInv, OwnBytes
  <2> QED
    BY <1>1, <1>3, <2>1, OthersBytes
<1> QED
  BY <1>6, <1>7, <1>8, <1>9, <1>10 DEF MemoryInv

LEMMA FreeOwned ==
    ASSUME MemoryInv, RoomInv', "stale_pointer" \notin MemRules,
           NEW c \in Callers, NEW b, Free(c, b)
    PROVE  MemoryInv'
<1>1. /\ call[c] = NoCall /\ held[c] # Nothing /\ held[c].block = b
      /\ inUse' = inUse \ {b}
      /\ held' = [held EXCEPT ![c] = Nothing]
      /\ UNCHANGED <<partitions, bytes, call>>
  BY DEF Free
<1>2. /\ held'[c] = Nothing /\ NoCall.op = "none" /\ b \in Owned(c)
      /\ \A d \in Callers \ {c} : held'[d] = held[d] /\ call'[d] = call[d]
  BY <1>1, CallerFacts DEF MemoryInv, CallersTyped, NoCall
<1>3. Owned(c)' = {}
  BY <1>1, <1>2, OpsDiffer DEF Owned
<1>4. Blocks' = Blocks /\ Given' = Given /\ Calls' = Calls
  BY <1>1, SameLayout
<1>5. CallersTyped'
  BY <1>1, <1>4 DEF MemoryInv, CallersTyped
<1>6. MovesFromBlock'
  BY <1>1, <1>2, OpsDiffer DEF MemoryInv, MovesFromBlock
<1>7. OwnedApart'
  BY <1>1, <1>2, <1>3, OthersApart
<1>8. BytesTyped'
  BY <1>1, <1>4 DEF MemoryInv, BytesTyped
<1>9. OwnBytes'
  BY <1>1, <1>2, <1>3, OthersBytes
<1> QED
  BY <1>5, <1>6, <1>7, <1>8, <1>9 DEF MemoryInv

LEMMA WriteOwned ==
    ASSUME MemoryInv, RoomInv', NEW c \in Callers, NEW i, Write(c, i)
    PROVE  MemoryInv'
<1> PICK b : b = held[c].block
  OBVIOUS
<1>1. /\ call[c] = NoCall /\ held[c] # Nothing
      /\ i \in DOMAIN bytes[b]
      /\ bytes' = [bytes EXCEPT ![b][i] = c]
      /\ UNCHANGED <<partitions, inUse, held, call>>
  BY DEF Write
<1>2. b \in Owned(c) /\ b \in Blocks
  BY <1>1, CallerFacts
<1>3. /\ DOMAIN bytes' = Blocks
      /\ \A k \in Blocks \ {b} : bytes'[k] = bytes[k]
      /\ DOMAIN bytes'[b] = DOMAIN bytes[b]
      /\ \A j \in DOMAIN bytes[b] : bytes'[b][j] \in {bytes[b][j], c}
  BY <1>1, <1>2 DEF MemoryInv, BytesTyped
<1>4. Blocks' = Blocks /\ Given' = Given /\ Calls' = Calls
  BY <1>1, SameLayout
<1>5. CallersTyped' /\ MovesFromBlock' /\ OwnedApart'
  BY <1>1, <1>4 DEF MemoryInv, CallersTyped, MovesFromBlock, OwnedApart, Owned
<1>6. BytesTyped'
  BY <1>1, <1>3, <1>4 DEF MemoryInv, BytesTyped
<1>7. OwnBytes'
  <2>1. Owned(c)' = Owned(c)
    BY <1>1, OwnedSame
  <2>2. ASSUME NEW k \in Owned(c)', NEW j \in DOMAIN bytes'[k]
        PROVE  bytes'[k][j] \in {"mark", "zero", c}
    <3>1. k \in Owned(c) /\ k \in Blocks
      BY <2>1, CallerFacts
    <3>2. j \in DOMAIN bytes[k] /\ bytes'[k][j] \in {bytes[k][j], c}
      BY <1>3, <2>2, <3>1
    <3> QED
      BY <3>1, <3>2 DEF MemoryInv, OwnBytes
  <2>3. \A k \in inUse \ Owned(c) : bytes'[k] = bytes[k]
    BY <1>2, <1>3 DEF MemoryInv, RoomInv
  <2> QED
    BY <1>1, <2>2, <2>3, OthersBytes
<1> QED
  BY <1>5, <1>6, <1>7 DEF MemoryInv

LEMMA PartitionInitOwned ==
    ASSUME MemoryInv, RoomInv', NEW l \in Layouts, PartitionInit(l)
    PROVE  MemoryInv'
<1> PICK n \in Nat : n = Len(partitions) + 1
  BY DEF MemoryInv, RoomInv
<1> DEFINE fresh == {n} \X (1 .. l.numBlocks)
           empty == [i \in 1 .. l.blockSize |-> "zero"]
<1>1. /\ partitions' = Append(partitions, [blockSize |-> l.blockSize,
                                           numBlocks |-> l.numBlocks,
                                           numActiveBlocks |-> 0])
      /\ bytes' = [b \in DOMAIN bytes \union fresh |->
                     IF b \in DOMAIN bytes THEN bytes[b] ELSE empty]
      /\ UNCHANGED <<inUse, held, call>>
  BY DEF PartitionInit
<1>2. /\ DOMAIN partitions' = DOMAIN partitions \union {n}
      /\ n \notin DOMAIN partitions
      /\ partitions'[n].blockSize = l.blockSize
      /\ partitions'[n].numBlocks = l.numBlocks
      /\ \A p \in DOMAIN partitions : partitions'[p] = partitions[p]
  BY <1>1 DEF MemoryInv, RoomInv
<1>3. /\ Given \subseteq Given' /\ Calls \subseteq Calls'
      /\ \A b \in Blocks : partitions'[b[1]].blockSize =
                              partitions[b[1]].blockSize
  BY <1>2, LayoutKept
<1>4. Blocks' = Blocks \union fresh
  <2>1. \A p \in DOMAIN partitions : BlocksOf(p)' = BlocksOf(p)
    BY <1>2 DEF BlocksOf
  <2>2. BlocksOf(n)' = fresh
    BY <1>2 DEF BlocksOf
  <2> QED
    BY <1>2, <2>1, <2>2 DEF Blocks
<1>5. Blocks \intersect fresh = {}
  BY <1>2, BlockFacts
<1>6. /\ DOMAIN bytes' = Blocks'
      /\ \A b \in Blocks : bytes'[b] = bytes[b]
      /\ \A b \in fresh : bytes'[b] = empty
  <2> HIDE DEF fresh, empty
  <2> QED
    BY <1>1, <1>4, <1>5 DEF MemoryInv, BytesTyped
<1>7. \A b \in fresh : b[1] = n
  OBVIOUS
<1>8. CallersTyped'
  BY <1>1, <1>3 DEF MemoryInv, CallersTyped
<1>9. MovesFromBlock' /\ OwnedApart'
  BY <1>1 DEF MemoryInv, MovesFromBlock, OwnedApart, Owned
<1>10. BytesTyped'
  <2> HIDE DEF fresh
  <2>1. ASSUME NEW b \in Blocks
        PROVE  DOMAIN bytes'[b] = 1 .. partitions'[b[1]].blockSize
    BY <1>3, <1>6 DEF MemoryInv, BytesTyped
  <2>2. ASSUME NEW b \in fresh
        PROVE  DOMAIN bytes'[b] = 1 .. partitions'[b[1]].blockSize
    BY <1>2, <1>6, <1>7
  <2> QED
    BY <1>4, <1>6, <2>1, <2>2 DEF BytesTyped
<1>11. OwnBytes'
  <2> HIDE DEF fresh
  <2>1. \A c \in Callers : Owned(c)' = Owned(c) /\ Owned(c) \subseteq Blocks
    BY <1>1, OwnedSame, CallerFacts
  <2> QED
    BY <1>6, <2>1 DEF MemoryInv, OwnBytes
<1> QED
  BY <1>8, <1>9, <1>10, <1>11 DEF MemoryInv

LEMMA MemoryNextInv ==
    ASSUME MemoryInv, "stale_pointer" \notin MemRules, [MemNext]_memVars
    PROVE  MemoryInv'
<1>1. RoomInv'
  BY RoomNext DEF MemoryInv
<1>2. ASSUME NEW l \in Layouts, PartitionInit(l)
      PROVE  MemoryInv'
  BY <1>1, <1>2, PartitionInitOwned
<1>3. ASSUME NEW c \in Callers,
             \/ \E which \in {"malloc", "calloc"}, size \in Sizes :
                   Request(c, which, size)
             \/ \E size \in Sizes : Realloc(c, size)
             \/ SkipPartition(c)
             \/ GiveUp(c)
      PROVE  MemoryInv'
  BY <1>1, <1>3, SearchMoves
<1>4. ASSUME NEW c \in Callers, TakeBlock(c) \/ Copy(c) \/ Release(c)
      PROVE  MemoryInv'
  BY <1>1, <1>4, TakeBlockOwned, CopyOwned, ReleaseOwned
<1>5. ASSUME NEW c \in Callers,
             \/ \E b \in DOMAIN bytes : Free(c, b)
             \/ \E i \in Sizes : Write(c, i)
      PROVE  MemoryInv'
  BY <1>1, <1>5, FreeOwned, WriteOwned
<1>6. CASE UNCHANGED memVars
  BY <1>6, <1>1, SameLayout, OwnedSame
     DEF memVars, MemoryInv, CallersTyped, MovesFromBlock, OwnedApart, BytesTyped,
         OwnBytes
<1> QED
  BY <1>2, <1>3, <1>4, <1>5, <1>6 DEF MemNext

LEMMA MemoryInitInv == MemInit => MemoryInv
<1> SUFFICES ASSUME MemInit PROVE MemoryInv
  OBVIOUS
<1>1. /\ partitions = << >> /\ inUse = {} /\ bytes = << >>
      /\ held = [c \in Callers |-> Nothing]
      /\ call = [c \in Callers |-> NoCall]
      /\ NoCall \in Calls /\ NoCall.op = "none"
  BY DEF MemInit, Calls, NoCall
<1>2. Blocks = {}
  BY <1>1 DEF Blocks
<1>3. \A c \in Callers : Owned(c) = {}
  BY <1>1, OpsDiffer DEF Owned
<1>4. RoomInv
  BY <1>1 DEF RoomInv, CountInv
<1>5. CallersTyped /\ MovesFromBlock
  BY <1>1, OpsDiffer DEF CallersTyped, MovesFromBlock
<1> QED
  BY <1>1, <1>2, <1>3, <1>4, <1>5 DEF MemoryInv, OwnedApart, BytesTyped, OwnBytes

(* A block that a task holds is in use and its bytes are the task's own,   *)
(* or what the allocator filled in, however the searches, copies and       *)
(* releases of several tasks interleave (memory.c:163, memory.c:400): no   *)
(* block is ever handed to two tasks, and none keeps its last holder's     *)
(* data.  Tasks free only what they hold and write only inside it.         *)
THEOREM MemoryNoForeignData ==
    ASSUME MemRules = {}
    PROVE  MemSpec => []NoForeignData
<1>1. ASSUME MemoryInv PROVE NoForeignData
  <2> SUFFICES ASSUME NEW c \in Callers, held[c] # Nothing
               PROVE  /\ held[c].block \in inUse
                      /\ \A i \in 1 .. held[c].size :
                            bytes[held[c].block][i] \in {"mark", "zero", c}
    BY DEF NoForeignData
  <2>1. /\ held[c] \in Given /\ held[c].block \in Blocks
        /\ held[c].block \in Owned(c) /\ held[c].block \in inUse
    BY <1>1, CallerFacts
  <2>2. DOMAIN bytes[held[c].block] =
           1 .. partitions[held[c].block[1]].blockSize
    BY <1>1, <2>1 DEF MemoryInv, BytesTyped
  <2>3. /\ held[c].size <= partitions[held[c].block[1]].blockSize
        /\ held[c].size \in Nat
        /\ partitions[held[c].block[1]].blockSize \in Nat
    <3>1. /\ held[c].size <= partitions[held[c].block[1]].blockSize
          /\ held[c].size \in Nat
      BY <2>1, SizesAreNat DEF Given
    <3>2. held[c].block[1] \in DOMAIN partitions
      BY <2>1, BlockPlace
    <3> QED
      BY <1>1, <3>1, <3>2, PartitionFacts DEF MemoryInv, RoomInv
  <2> QED
    BY <1>1, <2>1, <2>2, <2>3 DEF MemoryInv, OwnBytes
<1>2. MemoryInv /\ [MemNext]_memVars => MemoryInv'
  BY MemoryNextInv
<1> QED
  BY MemoryInitInv, <1>1, <1>2, PTL DEF MemSpec

=============================================================================
