---------------------------- MODULE MCScheduler -----------------------------
(* SchedulerTiming with two tasks and one semaphore to block on.           *)
EXTENDS SchedulerTiming

CONSTANTS t1, t2, s1

MCBasePrio == t1 :> 0 @@ t2 :> 1 @@ BG :> 240

MCKindOf == s1 :> "sema"

=============================================================================
