---------------------------- MODULE MCStarterApp ----------------------------
(* The three tasks, priorities and periods of app.c.                       *)
EXTENDS StarterApp

CONSTANTS t1, t2, t3

MCBasePrio == t1 :> 0 @@ t2 :> 1 @@ t3 :> 2 @@ BG :> 240

MCPeriod == t1 :> 1 @@ t2 :> 5 @@ t3 :> 10

MCKindOf == << >>

=============================================================================
