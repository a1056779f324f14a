------------------------------ MODULE ListMgr -------------------------------
(***************************************************************************)
(* The doubly linked lists of List_Manager/Source/listMgr_internal.c at    *)
(* pointer level.  Every operation is called inside a critical section, so *)
(* one operation is in progress at a time; a walk over the list takes a    *)
(* step per node.  The history variable content holds, per list, the       *)
(* sequence the operators of TaskList promise; Represents says that the    *)
(* pointers spell it out.                                                  *)
(*                                                                         *)
(* Callers keep three rules that the code does not check: a node is added  *)
(* only while it is on no list, it is removed through the head of the list *)
(* it is on, and it is added by priority only where the walk meets a less  *)
(* urgent node (CanInsert; in the ready list the background task is one).  *)
(***************************************************************************)
EXTENDS TaskList

CONSTANTS
    Nodes,  \* ListNode objects
    Lists,  \* head pointers
    Null,   \* LIST_NULL_PTR
    Prio    \* TCB->priority of each node

ASSUME NodeAssumption ==
    /\ Null \notin Nodes
    /\ Prio \in [Nodes -> Nat]

VARIABLES
    head,          \* *listHead
    nextNode,
    previousNode,
    op,            \* the walk in progress: which, its list, its node, where
    content        \* history: the sequence each list stands for

pointerVars == <<head, nextNode, previousNode, op, content>>

Idle == [walk |-> "none", list |-> Null, node |-> Null, at |-> Null]

Walk(walk, l, n) == [walk |-> walk, list |-> l, node |-> n, at |-> head[l]]

ListInit ==
    /\ head = [l \in Lists |-> Null]
    /\ nextNode = [n \in Nodes |-> Null]
    /\ previousNode = [n \in Nodes |-> Null]
    /\ op = Idle
    /\ content = [l \in Lists |-> << >>]

-----------------------------------------------------------------------------
OnList(l, n) == \E i \in DOMAIN content[l] : content[l][i] = n

OnNoList(n) == \A l \in Lists : ~OnList(l, n)

(* Both links of n are reset and n becomes the only node of l.             *)
MakeOnlyNode(l, n) ==
    /\ nextNode' = [nextNode EXCEPT ![n] = Null]
    /\ previousNode' = [previousNode EXCEPT ![n] = Null]
    /\ head' = [head EXCEPT ![l] = n]

(* n is linked in front of the present head of l.                          *)
MakeHead(l, n) ==
    /\ nextNode' = [nextNode EXCEPT ![n] = head[l]]
    /\ previousNode' = [previousNode EXCEPT ![n] = Null, ![head[l]] = n]
    /\ head' = [head EXCEPT ![l] = n]

AddNodeToFront(l, n) ==
    /\ op = Idle
    /\ OnNoList(n)
    /\ IF head[l] = Null THEN MakeOnlyNode(l, n) ELSE MakeHead(l, n)
    /\ content' = [content EXCEPT ![l] = <<n>> \o @]
    /\ op' = op

AddNodeToEnd(l, n) ==
    /\ op = Idle
    /\ OnNoList(n)
    /\ IF head[l] = Null
         THEN /\ MakeOnlyNode(l, n)
              /\ content' = [content EXCEPT ![l] = Append(@, n)]
              /\ op' = op
         ELSE /\ op' = Walk("end", l, n)
              /\ UNCHANGED <<head, nextNode, previousNode, content>>

AddTaskByPrio(l, n) ==
    /\ op = Idle
    /\ OnNoList(n)
    /\ CanInsert(content[l], n, Prio)
    /\ IF head[l] = Null \/ Prio[n] <= Prio[head[l]]
         THEN /\ IF head[l] = Null THEN MakeOnlyNode(l, n) ELSE MakeHead(l, n)
              /\ content' = [content EXCEPT ![l] = InsertByPrio(@, n, Prio)]
              /\ op' = op
         ELSE /\ op' = Walk("prio", l, n)
              /\ UNCHANGED <<head, nextNode, previousNode, content>>

(* Mutant of UnlinkNode: the head does not follow.                         *)
UnlinkKeepsHead(l, n) ==
    /\ nextNode' = [m \in Nodes |->
                      IF m = n THEN Null
                      ELSE IF m = previousNode[n] THEN nextNode[n] ELSE nextNode[m]]
    /\ previousNode' = [m \in Nodes |->
                          IF m = n THEN Null
                          ELSE IF m = nextNode[n] THEN previousNode[n]
                          ELSE previousNode[m]]
    /\ head' = head
    /\ content' = [content EXCEPT ![l] = Unlink(@, n)]

(* The neighbours of n are joined, the head moves on if it was n, and the  *)
(* links of n are reset.                                                   *)
UnlinkNode(l, n) ==
    LET after  == nextNode[n]
        before == previousNode[n]
    IN  /\ nextNode' = [m \in Nodes |-> IF m = n THEN Null
                                        ELSE IF m = before THEN after
                                        ELSE nextNode[m]]
        /\ previousNode' = [m \in Nodes |-> IF m = n THEN Null
                                            ELSE IF m = after THEN before
                                            ELSE previousNode[m]]
        /\ head' = [head EXCEPT ![l] = IF @ = n THEN after ELSE @]
        /\ content' = [content EXCEPT ![l] = Unlink(@, n)]

RemoveNode(l, n) ==
    /\ op = Idle
    /\ OnList(l, n)
    /\ UnlinkNode(l, n)
    /\ op' = op

RemoveFirstNode(l) ==
    /\ op = Idle
    /\ head[l] # Null
    /\ LET first == head[l]
           second == nextNode[first]
       IN  /\ head' = [head EXCEPT ![l] = second]
           /\ nextNode' = [nextNode EXCEPT ![first] = Null]
           /\ previousNode' = [m \in Nodes |-> IF m \in {first, second} THEN Null
                                               ELSE previousNode[m]]
    /\ content' = [content EXCEPT ![l] = Tail(@)]
    /\ op' = op

RemoveNodeByTCB(l, n) ==
    /\ op = Idle
    /\ OnList(l, n)
    /\ op' = Walk("tcb", l, n)
    /\ UNCHANGED <<head, nextNode, previousNode, content>>

-----------------------------------------------------------------------------
(* The loops.  Each goes on to nextNode until its condition fails; at is   *)
(* dereferenced to evaluate the condition, so it must not be Null.         *)

(* Mutant of LoopGoesOn: the first loop looks at the node, not at the one  *)
(* after it.                                                               *)
LoopRunsToNull ==
    CASE op.walk = "end"  -> op.at # Null
      [] op.walk = "prio" -> Prio[op.node] >= Prio[op.at]
      [] op.walk = "tcb"  -> op.at # op.node

LoopGoesOn ==
    CASE op.walk = "end"  -> nextNode[op.at] # Null
      [] op.walk = "prio" -> Prio[op.node] >= Prio[op.at]
      [] op.walk = "tcb"  -> op.at # op.node

(* Mutant of WalkOn: the loop does not advance.                            *)
WalkStays ==
    /\ op # Idle
    /\ op.at # Null
    /\ LoopGoesOn
    /\ UNCHANGED pointerVars

WalkOn ==
    /\ op # Idle
    /\ op.at # Null
    /\ LoopGoesOn
    /\ op' = [op EXCEPT !.at = nextNode[op.at]]
    /\ UNCHANGED <<head, nextNode, previousNode, content>>

LinkAtEnd ==
    /\ op.walk = "end"
    /\ ~LoopGoesOn
    /\ nextNode' = [nextNode EXCEPT ![op.at] = op.node, ![op.node] = Null]
    /\ previousNode' = [previousNode EXCEPT ![op.node] = op.at]
    /\ content' = [content EXCEPT ![op.list] = Append(@, op.node)]
    /\ op' = Idle
    /\ head' = head

(* Between at and its predecessor.                                         *)
LinkBefore ==
    /\ op.walk = "prio"
    /\ op.at # Null
    /\ ~LoopGoesOn
    /\ nextNode' = [nextNode EXCEPT ![op.node] = op.at,
                                    ![previousNode[op.at]] = op.node]
    /\ previousNode' = [previousNode EXCEPT ![op.at] = op.node,
                                            ![op.node] = previousNode[op.at]]
    /\ content' = [content EXCEPT ![op.list] = InsertByPrio(@, op.node, Prio)]
    /\ op' = Idle
    /\ head' = head

UnlinkFound ==
    /\ op.walk = "tcb"
    /\ op.at # Null
    /\ ~LoopGoesOn
    /\ UnlinkNode(op.list, op.at)
    /\ op' = Idle

Finish == LinkAtEnd \/ LinkBefore \/ UnlinkFound

ListNext ==
    \/ \E l \in Lists, n \in Nodes :
         \/ AddNodeToFront(l, n)
         \/ AddNodeToEnd(l, n)
         \/ AddTaskByPrio(l, n)
         \/ RemoveNode(l, n)
         \/ RemoveNodeByTCB(l, n)
    \/ \E l \in Lists : RemoveFirstNode(l)
    \/ WalkOn
    \/ Finish

(* A walk in progress is run to its end.                                   *)
ListSpec ==
    /\ ListInit
    /\ [][ListNext]_pointerVars
    /\ WF_pointerVars(WalkOn)
    /\ WF_pointerVars(Finish)

-----------------------------------------------------------------------------
PointersTyped ==
    /\ head \in [Lists -> Nodes \union {Null}]
    /\ nextNode \in [Nodes -> Nodes \union {Null}]
    /\ previousNode \in [Nodes -> Nodes \union {Null}]
    /\ content \in [Lists -> Seq(Nodes)]
    /\ op = Idle \/ op \in [walk : {"end", "prio", "tcb"}, list : Lists,
                            node : Nodes, at : Nodes \union {Null}]

(* The pointers of list l spell out the sequence s, in both directions.    *)
Spells(l, s) ==
    /\ head[l] = IF s = << >> THEN Null ELSE s[1]
    /\ \A i \in DOMAIN s :
         /\ nextNode[s[i]] = IF i = Len(s) THEN Null ELSE s[i + 1]
         /\ previousNode[s[i]] = IF i = 1 THEN Null ELSE s[i - 1]

(* The pointers represent the sequences that the scheduler's and the       *)
(* resources' modules work on: each operation of listMgr_internal.c does   *)
(* what its operator in TaskList says, leaves every other list alone and   *)
(* keeps each node on at most one list, once.                              *)
Represents ==
    /\ PointersTyped
    /\ \A l \in Lists : Spells(l, content[l]) /\ IsInjective(content[l])
    /\ \A l, k \in Lists : l # k =>
         \A i \in DOMAIN content[l], j \in DOMAIN content[k] :
           content[l][i] # content[k][j]

(* No loop runs off its list: a caller that keeps the rules never makes    *)
(* the list manager dereference NULL (listMgr_internal.c:120).             *)
WalkStaysOnList == op # Idle => op.at # Null

(* Every operation ends, the loops of listMgr_internal.c included.         *)
OperationEnds == op # Idle ~> op = Idle

=============================================================================
