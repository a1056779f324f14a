------------------------------ MODULE TaskList ------------------------------
(***************************************************************************)
(* The doubly linked lists of listMgr_internal.c seen as sequences of      *)
(* tasks, head first.  The scheduler and every resource keep their tasks   *)
(* in such lists; module ListMgr models the pointers themselves and is     *)
(* checked to implement these operators.                                   *)
(*                                                                         *)
(* prio is a function from tasks to numbers, 0 being the most urgent.      *)
(***************************************************************************)
EXTENDS Integers, Sequences, SequencesExt

(* The tasks linked in s.                                                  *)
Listed(s) == { s[i] : i \in DOMAIN s }

(* Where t is linked in s.                                                 *)
Position(s, t) == CHOOSE i \in DOMAIN s : s[i] = t

(* vd_list_removeNode: unlink t, the head pointer follows if it was t.     *)
Unlink(s, t) == RemoveAt(s, Position(s, t))

(* The node the walk over nextNode reaches after t (none at the tail).     *)
NextNode(s, t, none) ==
    IF Position(s, t) = Len(s) THEN none ELSE s[Position(s, t) + 1]

(***************************************************************************)
(* vd_list_addTaskByPrio.  A task at least as urgent as the head becomes   *)
(* the new head.  Otherwise the walk                                       *)
(*    while(newNode->prio >= temp->prio) temp = temp->next                 *)
(* stops before the first strictly less urgent task.  Nothing stops it at  *)
(* the tail: when no such task is on the list it dereferences NULL, so the *)
(* result is defined only under CanInsert.                                 *)
(***************************************************************************)
HeadInsert(s, t, prio) == s # << >> => prio[t] <= prio[s[1]]

LessUrgent(s, t, prio) == { i \in DOMAIN s : prio[t] < prio[s[i]] }

CanInsert(s, t, prio) == HeadInsert(s, t, prio) \/ LessUrgent(s, t, prio) # {}

InsertPoint(s, t, prio) ==
    IF HeadInsert(s, t, prio)
      THEN 1
      ELSE CHOOSE i \in LessUrgent(s, t, prio) :
             \A j \in LessUrgent(s, t, prio) : i <= j

InsertByPrio(s, t, prio) == InsertAt(s, InsertPoint(s, t, prio), t)

(* Every task on the list is linked once and none is more urgent than the  *)
(* one before it.                                                          *)
SortedByPrio(s, prio) ==
    \A i, j \in DOMAIN s : i < j => prio[s[i]] <= prio[s[j]]

=============================================================================
