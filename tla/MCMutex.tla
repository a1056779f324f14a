------------------------------ MODULE MCMutex -------------------------------
(* Mutex with three tasks and one mutex.                                   *)
EXTENDS Mutex

CONSTANTS t1, t2, t3, m1

MCBasePrio == t1 :> 0 @@ t2 :> 1 @@ t3 :> 2 @@ BG :> 240

MCKindOf == m1 :> "mutex"

=============================================================================
