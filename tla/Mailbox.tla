------------------------------ MODULE Mailbox -------------------------------
(***************************************************************************)
(* Mailboxes (Mailbox/Source/mailbox.c) on top of the scheduler: one piece *)
(* of mail, and the ID of one blocked task.  A get or a send that blocks   *)
(* is two critical sections; the second looks at the mailbox again and     *)
(* wakes nobody.                                                           *)
(*                                                                         *)
(* MailRules is the set of usage rules, unchecked by the code, that the    *)
(* application may break:                                                  *)
(*   "second_waiter"  block on a mailbox while a task is blocked on it;    *)
(*   "task_zero"      block the task whose ID is 0, which the code takes   *)
(*                    for no task.                                         *)
(* A get and a send may well block on one mailbox, one after the other.    *)
(***************************************************************************)
EXTENDS Scheduler

CONSTANTS
    Mails,     \* what tasks send; 0 cannot be sent
    Empty,     \* MBOX_MAILBOX_EMPTY
    TaskZero,  \* the task with ID 0, MBOX_NO_BLOCKED_TASK
    MailRules

Mailboxes == { r \in Resources : KindOf[r] = "mbox" }

ASSUME MailAssumption ==
    /\ Empty \notin Mails
    /\ MailRules \subseteq {"second_waiter", "task_zero"}
    /\ "wake_blocked" \notin Relaxed

VARIABLES
    mail,         \* the mail in each mailbox
    blockedTask,  \* blockedTaskID: NoTask or the one registered
    calling       \* what a task asked for before it slept

mailVars == <<mail, blockedTask, calling>>

NoCall == [op |-> "none"]

(* vd_OSmbox_init.                                                         *)
MailInit ==
    /\ mail = [m \in Mailboxes |-> Empty]
    /\ blockedTask = [m \in Mailboxes |-> NoTask]
    /\ calling = [t \in AllTasks |-> NoCall]

-----------------------------------------------------------------------------
InApplication == TaskRuns /\ calling[current] = NoCall

(* Tasks inside a get from m or a send to m that blocked.                  *)
Inside(op, m) == { t \in Tasks : calling[t].op = op /\ calling[t].mbox = m }

(* vd_OSmbox_unblockWaitingTask, if a task is registered.                  *)
UnblockWaitingTask(m) ==
    IF blockedTask[m] = NoTask
      THEN UNCHANGED <<vars, blockedTask>>
      ELSE /\ WakeFromResource(blockedTask[m])
           /\ blockedTask' = [blockedTask EXCEPT ![m] = NoTask]

(* vd_OSmbox_blockHandler for the calling task and the call it made.       *)
BlockHandler(m, period, call) ==
    /\ InApplication
    /\ { t \in Tasks : resource[t] = m } = {} \/ "second_waiter" \in MailRules
    /\ current # TaskZero \/ "task_zero" \in MailRules
    /\ blockedTask' = [blockedTask EXCEPT ![m] =
                         IF @ = NoTask /\ current # TaskZero THEN current ELSE @]
    /\ SetReasonForSleep(m, period)
    /\ calling' = [calling EXCEPT ![current] = call]

-----------------------------------------------------------------------------
(* mail_OSmbox_getMail.                                                    *)
GetTakes(m) ==
    /\ InterruptRuns
    /\ mail[m] # Empty
    /\ UnblockWaitingTask(m)
    /\ mail' = [mail EXCEPT ![m] = Empty]
    /\ calling' = calling

GetBlocks(m, period) ==
    /\ mail[m] = Empty
    /\ BlockHandler(m, period, [op |-> "get", mbox |-> m])
    /\ mail' = mail

GetLooksAgain ==
    /\ TaskRuns
    /\ calling[current].op = "get"
    /\ mail' = [mail EXCEPT ![calling[current].mbox] = Empty]
    /\ calling' = [calling EXCEPT ![current] = NoCall]
    /\ UNCHANGED <<vars, blockedTask>>

(* u1_OSmbox_sendMail.                                                     *)
SendStores(m, data) ==
    /\ InterruptRuns
    /\ mail[m] = Empty
    /\ mail' = [mail EXCEPT ![m] = data]
    /\ UnblockWaitingTask(m)
    /\ calling' = calling

SendBlocks(m, period, data) ==
    /\ mail[m] # Empty
    /\ BlockHandler(m, period, [op |-> "send", mbox |-> m, data |-> data])
    /\ mail' = mail

(* Mutant of SendLooksAgain: mail that arrived meanwhile is overwritten.   *)
SendOverwrites ==
    /\ TaskRuns
    /\ calling[current].op = "send"
    /\ mail' = [mail EXCEPT ![calling[current].mbox] = calling[current].data]
    /\ calling' = [calling EXCEPT ![current] = NoCall]
    /\ UNCHANGED <<vars, blockedTask>>

SendLooksAgain ==
    /\ TaskRuns
    /\ calling[current].op = "send"
    /\ mail' = [mail EXCEPT ![calling[current].mbox] =
                  IF @ = Empty THEN calling[current].data ELSE @]
    /\ calling' = [calling EXCEPT ![current] = NoCall]
    /\ UNCHANGED <<vars, blockedTask>>

(* vd_OSmbox_clearMailbox.                                                 *)
ClearMailbox(m) ==
    /\ InterruptRuns
    /\ mail' = [mail EXCEPT ![m] = Empty]
    /\ UnblockWaitingTask(m)
    /\ calling' = calling

(* Mutant of BlockedTaskTimeout: the task stays registered.                *)
BlockedTaskStays(m) == blockedTask' = blockedTask

(* vd_OSmbox_blockedTaskTimeout, and the tick's step that calls it.  Who   *)
(* timed out is not looked at.                                             *)
BlockedTaskTimeout(m) == blockedTask' = [blockedTask EXCEPT ![m] = NoTask]

MailTimesOut ==
    /\ TickWakes
    /\ resource[cursor] \in Mailboxes
    /\ BlockedTaskTimeout(resource[cursor])
    /\ UNCHANGED <<mail, calling>>

MailStep ==
    \/ \E m \in Mailboxes :
         \/ GetTakes(m)
         \/ \E p \in Periods \ {0} : GetBlocks(m, p)
         \/ \E d \in Mails :
              \/ SendStores(m, d)
              \/ \E p \in Periods \ {0} : SendBlocks(m, p, d)
         \/ ClearMailbox(m)
    \/ GetLooksAgain
    \/ SendLooksAgain
    \/ MailTimesOut

-----------------------------------------------------------------------------
Box == INSTANCE BoundedFifo
         WITH Queues <- Mailboxes, Messages <- Mails, Capacity <- 1,
              items <- [m \in Mailboxes |->
                          IF mail[m] = Empty THEN << >> ELSE <<mail[m]>>]

(* Mail that was accepted stays until it is delivered, once, or cleared: a *)
(* mailbox is a queue for one message, whatever happens between the two    *)
(* halves of a call (mailbox.c:123, 248).                                  *)
MailKept == Box!Spec

(* The task a mailbox has registered is the one whose control block names  *)
(* the mailbox, and it is inside a call: a message or a time-out finds the *)
(* right task (mailbox.c:321, 357).                                        *)
RegisteredMatchesTCB ==
    \A m \in Mailboxes :
        /\ { t \in created : resource[t] = m } = {blockedTask[m]} \ {NoTask}
        /\ blockedTask[m] # NoTask =>
               blockedTask[m] \in Listed(wait)
                 \intersect (Inside("get", m) \union Inside("send", m))

(* Nobody stays blocked on a mailbox that is ready for him, as a get or a  *)
(* send that looks again takes for granted: "There is no blocked task      *)
(* since this was the blocked task" (mailbox.c:123).  It does not hold: a  *)
(* sender may block again before the receiver it woke has looked, and the  *)
(* receiver then wakes nobody, see README.                                 *)
NobodyForgotten ==
    \A m \in Mailboxes :
        LET t == blockedTask[m]
        IN  t # NoTask => (mail[m] = Empty <=> calling[t].op = "get")

=============================================================================
