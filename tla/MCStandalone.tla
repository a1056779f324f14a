---------------------------- MODULE MCStandalone ----------------------------
(* The parts that stand on their own: the list manager, the memory manager *)
(* and the critical sections of the CPU interface share no state with each *)
(* other or with the scheduler.  Each behaviour is one of one part, on two *)
(* lists of four nodes, two of which share a priority; with two tasks and  *)
(* two layouts of partitions; or with the tick and one more urgent         *)
(* interrupt.                                                              *)
EXTENDS ListMgr, Memory, CpuInterface

CONSTANTS n1, n2, n3, n4, c1, c2, t1, t2, tick, isr

VARIABLE part   \* the part whose behaviour this is

MCPrio == n1 :> 0 @@ n2 :> 1 @@ n3 :> 1 @@ n4 :> 240

MCLayouts ==
    {[blockSize |-> 3, numBlocks |-> 2], [blockSize |-> 4, numBlocks |-> 1]}

MCUrgency == isr :> 64 @@ tick :> 192 @@ PendSV :> 224

standaloneVars == <<part, pointerVars, memVars, vars>>

StandaloneInit ==
    /\ part \in {"list", "memory", "cpu"}
    /\ ListInit
    /\ MemInit
    /\ Init

StandaloneNext ==
    /\ \/ part = "list" /\ ListNext /\ UNCHANGED <<memVars, vars>>
       \/ part = "memory" /\ MemNext /\ UNCHANGED <<pointerVars, vars>>
       \/ part = "cpu" /\ Next /\ UNCHANGED <<pointerVars, memVars>>
    /\ part' = part

(* As in ListSpec, a walk in progress is run to its end.                   *)
StandaloneSpec ==
    /\ StandaloneInit
    /\ [][StandaloneNext]_standaloneVars
    /\ WF_pointerVars(WalkOn)
    /\ WF_pointerVars(Finish)

=============================================================================
