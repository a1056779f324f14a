---------------------------- MODULE MCBackground ----------------------------
(* Background with two tasks that keep no usage rule and block on nothing. *)
EXTENDS Background

CONSTANTS t1, t2

MCBasePrio == t1 :> 0 @@ t2 :> 1 @@ BG :> 240

MCKindOf == << >>

CreditPending == "running" \in credited

(* No action reads idleAvg.  What idleRunning holds once taskWake has      *)
(* counted into it only reaches an average that TickLoadIsPercent leaves   *)
(* out.  States that differ in no more than these are explored once.       *)
MCView ==
    << vars, bgAt, percent, prevTimestamp, hookVars, timer, markVars,
       CreditPending, IF CreditPending THEN 0 ELSE idleRunning,
       TickLoadIsPercent >>

=============================================================================
