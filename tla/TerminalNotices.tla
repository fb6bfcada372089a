---------------------------- MODULE TerminalNotices ----------------------------
(***************************************************************************)
(* An Agent whose message ended undelivered is told so: a notice is put    *)
(* into the mailbox of the sender's resource, in its own Workspace, and    *)
(* the message keeps a receipt of what became of the notice.  A pass of    *)
(* the notifications loop writes the receipt, the operation of the outbox  *)
(* and the mailbox of the target one after another.                        *)
(***************************************************************************)
EXTENDS Naturals

CONSTANT MaxBreaks      \* bound on crashes and writes that failed

VARIABLES failed,       \* the message ended undelivered
          receipt, op,  \* the receipt in the message, its operation in the outbox
          target,       \* the resource of the sender and its Workspace
          notice,       \* the notice in its mailbox
          told,         \* how many notices were accepted there, and the last verdict
          step,         \* where the pass is, and what it has read
          breaks

noticeVars == <<failed, receipt, op, target, notice, told, step, breaks>>
-----------------------------------------------------------------------------
NoOp == [status |-> "none", text |-> "none"]
Rest == [at |-> "rest", saw |-> "none"]

Verdicts == {"delivered", "cancelled", "undeliverable", "delivery_unknown"}
Final == {"delivered", "terminal"}

(* A verdict on the notice as its receipt shows it.                        *)
Mirrored(verdict) ==
    IF verdict = "delivered" THEN "delivered" ELSE IF verdict \in Verdicts THEN "terminal" ELSE "accepted"

NoticesInit ==
    /\ failed = FALSE /\ receipt = "none" /\ op = NoOp
    /\ target = [registered |-> TRUE, archived |-> FALSE, language |-> "en"]
    /\ notice = [status |-> "none", text |-> "none"]
    /\ told = [times |-> 0, verdict |-> "none"]
    /\ step = Rest /\ breaks = 0

NoticeFails ==
    /\ ~failed /\ failed' = TRUE
    /\ UNCHANGED <<receipt, op, target, notice, told, step, breaks>>

Ensured == IF receipt = "none" THEN "waiting" ELSE receipt

(* A pass looks at the messages that are hot, those whose receipt is not   *)
(* final, and then at the operations that are not finished.                *)
NoticeBegins ==
    /\ step = Rest /\ failed
    /\ \/ /\ receipt \notin Final
          /\ receipt' = Ensured
          /\ step' = [Rest EXCEPT !.at = IF receipt = "accepted" /\ op # NoOp THEN "route" ELSE "queue"]
       \/ /\ op.status \in {"waiting", "accepted"}
          /\ step' = [Rest EXCEPT !.at = "requeue"]
          /\ UNCHANGED receipt
    /\ UNCHANGED <<failed, op, target, notice, told, breaks>>

(* The operation a pass builds has the status of the receipt.  Its text is *)
(* in the language of the target's Workspace at the time, or, from the     *)
(* operation at hand, that operation's.                                    *)
FromGenerated ==
    [status |-> receipt,
     text |-> IF step.at = "queue" /\ receipt = "waiting" THEN target.language ELSE op.text]

(* It updates the one with the same id.                                    *)
AppendUnique(current, operation) ==
    [status |-> operation.status, text |-> IF operation.text # "none" THEN operation.text ELSE current.text]

(* Mutant of Queues: the operation counts as accepted once it is written.  *)
QueuesAccepted ==
    /\ step.at \in {"queue", "requeue"}
    /\ op' = [status |-> "accepted", text |-> target.language]
    /\ step' = [step EXCEPT !.at = "route"]
    /\ UNCHANGED <<failed, receipt, target, notice, told, breaks>>

(* An operation whose receipt is final is done with.                       *)
Queues ==
    /\ step.at \in {"queue", "requeue"}
    /\ op' = AppendUnique(op, FromGenerated)
    /\ step' = [step EXCEPT !.at = IF op'.status \in Final THEN "remove" ELSE "route"]
    /\ UNCHANGED <<failed, receipt, target, notice, told, breaks>>

(* Without its Workspace an accepted notice stays accepted, and one that   *)
(* was not is given up.                                                    *)
FindsNoWorkspace ==
    /\ step.at = "route" /\ ~target.registered
    /\ step' = IF op.status = "accepted" THEN Rest ELSE [step EXCEPT !.at = "close"]
    /\ UNCHANGED <<failed, receipt, op, target, notice, told, breaks>>

(* A receipt the retention dropped from the target counts as a bad end.    *)
Consults ==
    /\ step.at = "route" /\ target.registered /\ op.status = "accepted"
    /\ step' = IF notice.status \in {"none", "expired"} THEN [step EXCEPT !.at = "close"]
               ELSE [at |-> "mirror", saw |-> notice.status]
    /\ UNCHANGED <<failed, receipt, op, target, notice, told, breaks>>

IsRefused ==
    /\ step.at = "route" /\ target.registered /\ op.status = "waiting"
    /\ \/ target.archived
       \/ notice.status \notin {"none", "expired"} /\ notice.text # op.text
    /\ step' = [step EXCEPT !.at = "close"]
    /\ UNCHANGED <<failed, receipt, op, target, notice, told, breaks>>

(* An id that was accepted and expired is an error, now and ever after.    *)
FindsExpired ==
    /\ step.at = "route" /\ target.registered /\ op.status = "waiting"
    /\ ~target.archived /\ notice.status = "expired"
    /\ step' = Rest
    /\ UNCHANGED <<failed, receipt, op, target, notice, told, breaks>>

Tells ==
    /\ step.at = "route" /\ target.registered /\ op.status = "waiting"
    /\ ~target.archived /\ notice.status # "expired"
    /\ \/ notice.status = "none" /\ \E now \in Verdicts \cup {"queued"} :
            /\ notice' = [status |-> now, text |-> op.text]
            /\ told' = [times |-> told.times + 1, verdict |-> now]
       \/ notice.status # "none" /\ notice.text = op.text /\ UNCHANGED <<notice, told>>
    /\ step' = [at |-> "report", saw |-> notice'.status]
    /\ UNCHANGED <<failed, receipt, op, target, breaks>>

Reports ==
    /\ step.at = "report"
    /\ receipt' = "accepted"
    /\ step' = [step EXCEPT !.at = "mark"]
    /\ UNCHANGED <<failed, op, target, notice, told, breaks>>

Marks ==
    /\ step.at = "mark"
    /\ op' = [status |-> "accepted", text |-> "none"]
    /\ step' = [step EXCEPT !.at = "mirror"]
    /\ UNCHANGED <<failed, receipt, target, notice, told, breaks>>

Mirrors ==
    /\ step.at = "mirror"
    /\ receipt' = IF step.saw \in Verdicts THEN Mirrored(step.saw) ELSE receipt
    /\ step' = IF step.saw \in Verdicts THEN [step EXCEPT !.at = "remove"] ELSE Rest
    /\ UNCHANGED <<failed, op, target, notice, told, breaks>>

Closes ==
    /\ step.at = "close"
    /\ receipt' = "terminal"
    /\ step' = [step EXCEPT !.at = "remove"]
    /\ UNCHANGED <<failed, op, target, notice, told, breaks>>

Removes ==
    /\ step.at = "remove"
    /\ op' = NoOp /\ step' = Rest
    /\ UNCHANGED <<failed, receipt, target, notice, told, breaks>>

(* A crash, a failed write or a cancelled pass.                            *)
Breaks ==
    /\ step # Rest /\ breaks < MaxBreaks
    /\ step' = Rest /\ breaks' = breaks + 1
    /\ UNCHANGED <<failed, receipt, op, target, notice, told>>
-----------------------------------------------------------------------------
(* The target: its mailbox delivers, its receipts expire; it is archived,  *)
(* its Workspace removed or given another language.                        *)
NoticeEnds ==
    /\ notice.status = "queued"
    /\ \E now \in Verdicts : /\ notice' = [notice EXCEPT !.status = now]
                             /\ told' = [told EXCEPT !.verdict = now]
    /\ UNCHANGED <<failed, receipt, op, target, step, breaks>>

NoticeExpires ==
    /\ notice.status \in Verdicts
    /\ notice' = [notice EXCEPT !.status = "expired"]
    /\ UNCHANGED <<failed, receipt, op, target, told, step, breaks>>

TargetChanges ==
    /\ \/ target' = [target EXCEPT !.registered = ~@]
       \/ target' = [target EXCEPT !.archived = TRUE]
       \/ target' = [target EXCEPT !.language = IF @ = "en" THEN "zh-CN" ELSE "en"]
    /\ UNCHANGED <<failed, receipt, op, notice, told, step, breaks>>

Pass == Queues \/ FindsNoWorkspace \/ Consults \/ IsRefused \/ FindsExpired \/ Tells \/ Reports
        \/ Marks \/ Mirrors \/ Closes \/ Removes

NoticesNext == NoticeFails \/ NoticeBegins \/ Pass \/ Breaks \/ NoticeEnds \/ NoticeExpires \/ TargetChanges

NoticesSpec == NoticesInit /\ [][NoticesNext]_noticeVars
-----------------------------------------------------------------------------
(* A sender is told of a failure at most once, and a receipt that says the *)
(* notice was accepted or delivered is borne out by the target's mailbox.  *)
ReceiptIsTrue ==
    /\ told.times <= 1
    /\ receipt = "accepted" \/ op.status = "accepted" => told.times = 1
    /\ receipt = "delivered" => told.verdict = "delivered"

(* So every step leaves it, and a receipt that says delivered goes on      *)
(* saying so: over crashes, failed writes, what is then done again, and a  *)
(* target that comes, goes and forgets (routeNotification,                 *)
(* resource_notifications.go:164).                                         *)
NoticesTold == [][ReceiptIsTrue' /\ (receipt = "delivered" => receipt' = "delivered")]_noticeVars
=============================================================================
