------------------------------ MODULE MCEvents ------------------------------
(* Events with two tasks, one mailbox and one flags object.                *)
EXTENDS Events

CONSTANTS t1, t2, m1, f1

MCBasePrio == t1 :> 0 @@ t2 :> 1 @@ BG :> 240

MCKindOf == m1 :> "mbox" @@ f1 :> "flags"

MCEventMasks == {{8}, {8, 64}}

=============================================================================
