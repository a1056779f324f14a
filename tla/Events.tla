------------------------------- MODULE Events -------------------------------
(***************************************************************************)
(* Mailboxes and event flags used together: tasks block on either kind of  *)
(* object, and the tick tells by the bits in a task's flags which of the   *)
(* two its time-out concerns.                                              *)
(***************************************************************************)
EXTENDS Mailbox, Flags

allVars == <<vars, mailVars, flagVars>>

EventsInit == Init /\ MailInit /\ FlagInit

(* The application leaves a task alone that pends without a time-out.      *)
SparesPending ==
    \/ "wake_pending" \in FlagRules
    \/ \A f \in FlagObjects : Pending(f) \subseteq Listed(wait')

EventsNext ==
    \/ MailStep /\ UNCHANGED flagVars
    \/ FlagPend /\ calling[current] = NoCall /\ UNCHANGED mailVars
    \/ FlagStep /\ UNCHANGED mailVars
    \/ /\ ApplicationStep
       /\ calling[current] = NoCall
       /\ UNCHANGED <<mailVars, flagVars>>
    \/ KernelStep /\ SparesPending /\ UNCHANGED <<mailVars, flagVars>>

EventsSpec == EventsInit /\ [][EventsNext]_allVars

(* Every mailbox and every flags object knows who waits for it.            *)
WaitersRegistered == RegisteredMatchesTCB /\ PendingMatchesTCB

=============================================================================
