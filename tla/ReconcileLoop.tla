----------------------------- MODULE ReconcileLoop -----------------------------
(***************************************************************************)
(* The loop of a PUA Server that drives everything nobody waits for, and   *)
(* the controller of one resource, here the Scheduler's.  Requests are     *)
(* bits that any goroutine sets and then announces with a token; timers    *)
(* ask for the same passes.  The loop takes all bits, runs the passes in   *)
(* order and waits for each; a pass is a job of the controller, which runs *)
(* the jobs of its resource one at a time in the order they came.          *)
(***************************************************************************)
EXTENDS SchedulerTicks

CONSTANTS Kinds,        \* the passes of the instance
          Timers,       \* those whose timers fire more than once
          MaxAsking     \* bound on requests whose token is still to come

VARIABLES pending,      \* reconcilePending: the bits
          asking,       \* goroutines between the bit and the token
          wake,         \* the channel holds a token
          late,         \* passes whose deadline is over
          loop,         \* where the loop is, and the passes of this round
          ctl           \* the controller: its jobs, its goroutine and its job

loopVars == <<pending, asking, wake, late, loop, ctl>>
vars == <<tickVars, loopVars>>
-----------------------------------------------------------------------------
Passes == <<"audit", "agenthub", "mailboxes", "notifications", "scheduler">>

ASSUME KindsAssumption == "audit" \in Timers /\ Timers \subseteq Kinds /\ Kinds \subseteq Range(Passes)

(* The audit includes the passes behind it and sets their deadlines anew;  *)
(* that of the poll of the Sessions stays.                                 *)
Round(asked) == IF "audit" \in asked THEN {"audit"} ELSE asked

Renewed(kind) == IF kind = "audit" THEN {"audit", "mailboxes", "notifications", "scheduler"} ELSE {kind}

(* The jobs of a pass that the Scheduler's controller runs.                *)
Jobs(kind) ==
    CASE kind = "audit" -> <<"tick", "mail">>
      [] kind = "scheduler" -> <<"tick">>
      [] kind = "mailboxes" -> <<"mail">>
      [] OTHER -> <<>>

Waiting == [at |-> "wait", todo |-> {}, jobs |-> <<>>]
Free == [jobs |-> <<>>, running |-> FALSE, now |-> "none"]

Init ==
    /\ TicksInit
    /\ pending = {} /\ asking = 0 /\ wake = FALSE /\ late = Kinds
    /\ loop = [Waiting EXCEPT !.at = "top"] /\ ctl = Free

Asks(kinds) ==
    /\ asking < MaxAsking
    /\ pending' = pending \cup (kinds \cap Kinds) /\ asking' = asking + 1
    /\ UNCHANGED <<wake, late, loop, ctl>>

(* The token is dropped when the channel holds one.                        *)
Announces ==
    /\ asking > 0
    /\ asking' = asking - 1 /\ wake' = TRUE
    /\ UNCHANGED <<tickVars, pending, late, loop, ctl>>

DeadlinePasses(kind) ==
    /\ kind \notin late
    /\ late' = late \cup {kind}
    /\ UNCHANGED <<tickVars, pending, asking, wake, loop, ctl>>

Wakes ==
    /\ loop.at = "wait" /\ (wake \/ late # {})
    /\ \/ wake /\ wake' = FALSE
       \/ late # {} /\ UNCHANGED wake
    /\ loop' = [loop EXCEPT !.at = "top"]
    /\ UNCHANGED <<tickVars, pending, asking, late, ctl>>

TakesRequests ==
    /\ loop.at = "top"
    /\ loop' = [loop EXCEPT !.at = "run", !.todo = Round(pending \cup late)]
    /\ pending' = {}
    /\ UNCHANGED <<tickVars, asking, wake, late, ctl>>

StartsPass ==
    /\ loop.at = "run" /\ loop.jobs = <<>> /\ loop.todo # {}
    /\ LET kind == Passes[SelectInSeq(Passes, LAMBDA k : k \in loop.todo)]
       IN  /\ loop' = [loop EXCEPT !.todo = @ \ {kind}, !.jobs = Jobs(kind)]
           /\ late' = late \ Renewed(kind)
    /\ UNCHANGED <<tickVars, pending, asking, wake, ctl>>

EndsRound ==
    /\ loop.at = "run" /\ loop.jobs = <<>> /\ loop.todo = {}
    /\ loop' = Waiting
    /\ UNCHANGED <<tickVars, pending, asking, wake, late, ctl>>

(* Mutant of Enqueued: the goroutine is started before the job is there.   *)
EnqueuedUnseen(job) == [ctl EXCEPT !.jobs = Append(@, job)]

Enqueued(job) == [ctl EXCEPT !.jobs = Append(@, job), !.running = TRUE]

(* The loop hands over a job and waits until it is done.                   *)
Submits ==
    /\ loop.at = "run" /\ loop.jobs # <<>>
    /\ ctl' = Enqueued(Head(loop.jobs))
    /\ loop' = [loop EXCEPT !.at = "blocked", !.jobs = Tail(@)]
    /\ UNCHANGED <<tickVars, pending, asking, wake, late>>

(* A handler of the API uses the controller as well.                       *)
Intrudes ==
    /\ ~ \E i \in DOMAIN ctl.jobs : ctl.jobs[i] = "other"
    /\ ctl.now # "other"
    /\ ctl' = Enqueued("other")
    /\ UNCHANGED <<tickVars, pending, asking, wake, late, loop>>

(* The controller's goroutine takes the next job, or ends.                 *)
Takes ==
    /\ ctl.running /\ ctl.now = "none"
    /\ ctl' = IF ctl.jobs = <<>> THEN [ctl EXCEPT !.running = FALSE]
              ELSE [ctl EXCEPT !.now = Head(ctl.jobs), !.jobs = Tail(@)]
    /\ UNCHANGED <<tickVars, pending, asking, wake, late, loop>>

Finished == [ctl EXCEPT !.now = "none"]
Released == [loop EXCEPT !.at = "run"]

TickJob ==
    /\ ctl.now = "tick"
    /\ PassSteps
    /\ IF pass' = NoPass THEN ctl' = Finished /\ loop' = Released ELSE UNCHANGED <<ctl, loop>>
    /\ UNCHANGED <<pending, asking, wake, late>>

MailJob ==
    /\ ctl.now = "mail"
    /\ Delivers \/ LosesTrack \/ (Queued = {} /\ UNCHANGED tickVars)
    /\ ctl' = Finished /\ loop' = Released
    /\ UNCHANGED <<pending, asking, wake, late>>

OtherJob ==
    /\ ctl.now = "other"
    /\ ctl' = Finished
    /\ UNCHANGED <<tickVars, pending, asking, wake, late, loop>>

(* An edit asks for a pass of the Scheduler, the end of a Turn for more.   *)
Edit ==
    /\ \/ \E id \in Ids : AddSchedule(id)
       \/ \E s \in schedules : UpdateSchedule(s) \/ RemoveSchedule(s)
    /\ Asks({"scheduler"})

TurnDone ==
    /\ \E outcome \in {"completed", "failed"} : TurnEnds(outcome)
    /\ Asks({"notifications", "scheduler", "agenthub"})

(* A retired generation takes its Turn along; nothing is asked for.        *)
Retire == TurnEnds("gone") /\ UNCHANGED loopVars

Time == (Lapses \/ Expires) /\ UNCHANGED loopVars

Crash ==
    /\ Restarts
    /\ pending' = {} /\ asking' = 0 /\ wake' = FALSE /\ late' = Kinds
    /\ loop' = [Waiting EXCEPT !.at = "top"] /\ ctl' = Free

Loop == Wakes \/ TakesRequests \/ StartsPass \/ EndsRound \/ Submits
Controller == Takes \/ TickJob \/ MailJob \/ OtherJob

Next ==
    \/ Loop \/ Controller \/ Announces \/ Intrudes
    \/ (\E kind \in Timers : DeadlinePasses(kind))
    \/ Edit \/ TurnDone \/ Retire \/ Time \/ Crash

Spec == Init /\ [][Next]_vars

(* The two goroutines run, and the timer of the audit fires; a requester   *)
(* may stop before it leaves its token.                                    *)
Fairness ==
    /\ WF_vars(Loop) /\ WF_vars(Controller)
    /\ WF_vars(DeadlinePasses("audit"))

FairSpec == Spec /\ Fairness
-----------------------------------------------------------------------------
(* A loop that waits with a request pending has a token, or its requester  *)
(* is about to leave one; a controller with jobs has its goroutine.        *)
NoLostWake ==
    /\ loop.at = "wait" /\ pending # {} => wake \/ asking > 0
    /\ ctl.jobs # <<>> => ctl.running

(* Every change of the list is told to the Scheduler's Agent, unless the   *)
(* list changes again or is emptied; the bound on the ticks ends the story.*)
ChangesAreSeen == Unseen ~> ~Unseen \/ Len(ticks) = MaxTicks
=============================================================================
