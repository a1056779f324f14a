------------------------------ MODULE MCQueue -------------------------------
(* Queue with three tasks and one ring of three entries.                   *)
EXTENDS Queue

CONSTANTS t1, t2, t3, q1, a, b

MCBasePrio == t1 :> 0 @@ t2 :> 1 @@ t3 :> 2 @@ BG :> 240

MCSymmetry == Permutations(Messages)

MCKindOf == q1 :> "queue"

=============================================================================
