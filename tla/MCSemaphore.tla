---------------------------- MODULE MCSemaphore -----------------------------
(* Semaphore with three tasks and one semaphore.                           *)
EXTENDS Semaphore

CONSTANTS t1, t2, t3, s1

MCBasePrio == t1 :> 0 @@ t2 :> 1 @@ t3 :> 2 @@ BG :> 240

MCKindOf == s1 :> "sema"

=============================================================================
