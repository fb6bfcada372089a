-------------------------- MODULE AgentHubSession --------------------------
(***************************************************************************)
(* One Session of the AgentHub daemon: the durable event log of the store  *)
(* (its projection Session and its messages), the provider process behind  *)
(* it, and the calls of the runtime Manager that run concurrently on it:   *)
(* SendMessage and the retry timer (serialised by the input lock), Stop,   *)
(* Interrupt, Start, the callbacks of the provider, and a restart of the   *)
(* daemon, which provider processes survive.                               *)
(*                                                                         *)
(* An action is what a call does between two points where another one can  *)
(* come in; convergeStored, which appends several events under m.mu, is    *)
(* one step.  A Turn is named after the message that opened it.            *)
(***************************************************************************)
EXTENDS Naturals, Sequences, SequencesExt

CONSTANTS
  Msgs,            \* stable message ids
  NoTurn,          \* the empty Turn id
  Steers,          \* messages sent with steer = true
  CanSteer,        \* the provider's InputCapabilities.Steer
  Adapter,         \* the provider protocol: "acp", "codex" or "pi"
  Calls,           \* the calls users make besides SendMessage and Archive
  MaxStartups,     \* maxPendingStartupAttempts
  MaxFaults        \* failed starts, prompts and kills, exits, daemon restarts

ASSUME SessionAssumption ==
  /\ NoTurn \notin Msgs /\ Steers \subseteq Msgs
  /\ CanSteer \in BOOLEAN
  /\ Calls \subseteq {"stop", "interrupt", "start", "overlap"}
  /\ Adapter \in {"acp", "codex", "pi"}
  /\ MaxStartups \in Nat \ {0} /\ MaxFaults \in Nat

VARIABLES
  sess,     \* durable: the projected Session
  msgs,     \* durable: what buildDurableMessages folds for each message
  log,      \* durable: the messages in the order of their message.input
  run,      \* m.running[id], with its adapter and process, or NoRun
  job,      \* the call that holds the input lock
  stop,     \* the Stop call in progress
  cut,      \* an Interrupt call is in progress on run
  resume,   \* the API Start call in progress
  retrying, \* m.retrying[id]: the retry timer runs
  strays,   \* provider processes that outlived their run
  faults,
  wanted,   \* history: work was asked for since the last Stop
  outrun,   \* history: the end of a run was decided before the last Stop and published after
  tries     \* history: starts for each message since a provider last came up

durable == <<sess, msgs, log>>
calls == <<job, stop, cut, resume, retrying>>
world == <<strays, faults>>
history == <<wanted, outrun, tries>>
vars == <<durable, run, calls, world, history>>

PendingStates == {"new", "attempting", "pending"}
SettledStates == {"accepted", "closed", "failed", "cancelled"}
Turns == Msgs \union {NoTurn}
Reasons == {"none", "requested", "startup_error", "other"}

Session ==
  [st: {"ready", "starting", "running", "stopping", "stopped", "archived"},
   reason: Reasons, asked: BOOLEAN, turn: Turns, open: BOOLEAN]

Message ==
  [state: {"none"} \union PendingStates \union SettledStates, turn: Turns,
   startups: 0 .. MaxStartups + 1, later: BOOLEAN]

NoRun == [phase |-> "none"]
Run == [phase: {"new", "spawned", "recorded", "up", "failed", "missing"},
        turn: Turns, opened: BOOLEAN, interrupted: BOOLEAN, asked: BOOLEAN,
        closed: BOOLEAN, reaped: {"no", "ok", "err"},
        proc: {"none", "alive", "gone", "stuck"}, work: SUBSET Msgs,
        ending: {"no", "requested", "startup_error", "missing", "other"}]

Idle == [pc |-> "idle"]
Job == [pc: {"converge", "input", "open", "deliver", "ensure", "wait",
             "prompt", "accept"},
        m: Msgs, turn: Turns, held: {"none", "own", "cur", "ok", "err"}, rest: SUBSET Msgs]

Pending(m) == msgs[m].state \in PendingStates
PendingMsgs == {m \in Msgs : Pending(m)}

\* m comes first of ms in the log.
FirstOf(m, ms) ==
  \E i \in DOMAIN log : log[i] = m /\ \A j \in 1 .. i - 1 : log[j] \notin ms

----------------------------------------------------------------------------
(* Events of the log.                                                      *)

\* Mutant: a bare stopping state, which only delays the end, forgets the request.
SetStateForgets(ss, st, reason) ==
  [ss EXCEPT !.st = st,
             !.reason = IF st = "stopped" THEN reason ELSE "none",
             !.asked = reason = "requested",
             !.open = @ /\ st # "stopped"]

\* A session.state event, with what StopWasRequested reads back from it.
SetState(ss, st, reason) ==
  [ss EXCEPT !.st = st,
             !.reason = IF st = "stopped" THEN reason ELSE "none",
             !.asked = IF st = "stopping" /\ reason = "none" THEN @
                       ELSE reason = "requested",
             !.open = @ /\ st # "stopped"]

\* turn.started makes the Session running, whatever its state was.
OpenTurn(ss, t) == [ss EXCEPT !.turn = t, !.st = "running"]

\* A terminal event of Turn t: it also settles the inputs of t not confirmed yet.
CloseTurn(ss, t) ==
  [ss EXCEPT !.turn = IF @ = t THEN NoTurn ELSE @,
             !.st = IF @ \in {"stopping", "stopped", "archived"} THEN @ ELSE "ready"]

SettleTurn(t, verdict) ==
  [m \in Msgs |-> IF Pending(m) /\ msgs[m].turn = t
                  THEN [msgs[m] EXCEPT !.state = verdict, !.later = FALSE]
                  ELSE msgs[m]]

\* A message.delivery event: a settled message only goes from closed to accepted.
Record(m, state, startups, later) ==
  IF sess.st # "archived" /\ (Pending(m) \/ (msgs[m].state = "closed" /\ state = "accepted"))
  THEN msgs' = [msgs EXCEPT ![m] = [@ EXCEPT !.state = state, !.startups = startups,
                                             !.later = later]]
  ELSE UNCHANGED msgs

\* Mutant: one start too many before a message is given up.
ConvergedMessageLate(m, reason) ==
  CASE ~Pending(m) -> msgs[m]
    [] Pending(m) /\ reason = "requested" ->
         [msgs[m] EXCEPT !.state = "cancelled", !.later = FALSE]
    [] Pending(m) /\ (reason = "missing" \/
                      (reason = "startup_error" /\ msgs[m].startups > MaxStartups)) ->
         [msgs[m] EXCEPT !.state = "failed", !.later = FALSE]
    [] OTHER -> msgs[m]

\* How convergeStored settles a pending message, if it does.
ConvergedMessage(m, reason) ==
  CASE ~Pending(m) -> msgs[m]
    [] Pending(m) /\ reason = "requested" ->
         [msgs[m] EXCEPT !.state = "cancelled", !.later = FALSE]
    [] Pending(m) /\ (reason = "missing" \/
                      (reason = "startup_error" /\ msgs[m].startups >= MaxStartups)) ->
         [msgs[m] EXCEPT !.state = "failed", !.later = FALSE]
    [] OTHER -> msgs[m]

ReasonOf(reason) == IF reason = "missing" THEN "startup_error" ELSE reason

\* The Turn stays open while one of its inputs still waits for a provider.
ConvergedTurn(reason) ==
  IF \E m \in Msgs : /\ msgs[m].turn = sess.turn
                     /\ ConvergedMessage(m, reason).state \in PendingStates
  THEN sess.turn ELSE NoTurn

Converged == /\ sess.st = "stopped" /\ sess.turn = NoTurn
             /\ \A m \in Msgs : ~Pending(m)

ConvergedSession(reason) ==
  IF sess.st = "archived" \/ Converged THEN sess
  ELSE [SetState(sess, "stopped", ReasonOf(reason)) EXCEPT !.turn = ConvergedTurn(reason)]

ConvergedMessages(reason) ==
  IF sess.st = "archived" \/ Converged THEN msgs
  ELSE [m \in Msgs |-> ConvergedMessage(m, reason)]

Converge(reason) == /\ sess' = ConvergedSession(reason)
                    /\ msgs' = ConvergedMessages(reason)
                    /\ UNCHANGED log

Refusing == sess.st \in {"stopping", "archived"}
StopRequested == sess.st = "stopped" /\ sess.reason = "requested"

----------------------------------------------------------------------------
(* The provider adapter and its process group.                             *)

Fault == faults < MaxFaults /\ faults' = faults + 1

\* Close: the process group is killed and probed, and may be seen to survive
\* (a fault).  The JSON-RPC adapters (terminateOnce) do it once and repeat the
\* first answer; the Pi adapter does it on every call.
AnsweredOnce(r) == r.reaped # "no"  \* Mutant: so does the Pi adapter.
Answered(r) == Adapter # "pi" /\ r.reaped # "no"
Closed(r, dies) ==
  [r EXCEPT !.closed = TRUE,
            !.reaped = IF Answered(r) THEN @ ELSE IF dies THEN "ok" ELSE "err",
            !.proc = IF Answered(r) \/ @ \in {"none", "gone"} THEN @
                     ELSE IF dies THEN "gone" ELSE "stuck"]
Kills(r) == IF r.proc \in {"alive", "stuck"} /\ ~Answered(r)
            THEN {TRUE} \union (IF faults < MaxFaults THEN {FALSE} ELSE {})
            ELSE {TRUE}
Count(dies) == faults' = IF dies THEN faults ELSE faults + 1

\* What (*active).outcome makes of the end of a run.
Outcome(r) == CASE r.asked -> "requested"
                [] ~r.asked /\ r.phase = "failed" -> "startup_error"
                [] ~r.asked /\ r.phase = "missing" -> "missing"
                [] OTHER -> "other"

\* What waitReady answers later to a call that holds a run which is gone.
Released(held, r) ==
  IF held \notin {"own", "cur"} THEN held ELSE IF r.phase = "up" THEN "ok" ELSE "err"

\* A process that is not a child of a run any more.
Outlives(r) == CASE r.proc \in {"none", "gone"} -> {}
                 [] r.proc = "stuck" /\ r.phase \in {"failed", "missing"} -> {"aborted"}
                 [] OTHER -> {"spared"}

\* convergeActive, once per run, decides what the end of the run will be called;
\* no event of the run counts from here on ...
Finalizing(r) == r # NoRun /\ r.ending # "no"
Finalize(r) == ~Finalizing(run) /\ run' = [r EXCEPT !.ending = Outcome(r)]

\* ... and under m.mu takes the run out of m.running and converges, whatever was
\* asked for meanwhile.
ConvergeActive ==
  /\ Finalizing(run)
  /\ run' = NoRun /\ strays' = strays \union Outlives(run)
  /\ Converge(run.ending)
  /\ job' = IF job = Idle THEN Idle ELSE [job EXCEPT !.held = Released(@, run)]
  /\ resume' = Released(resume, run)
  /\ stop' = "idle" /\ cut' = FALSE
  /\ outrun' = (outrun \/ (run.asked /\ run.ending # "requested"))
  /\ UNCHANGED <<retrying, faults, wanted, tries>>

\* ensureInput creates a run: starting is appended before the process exists.
CreateRun ==
  /\ run' = [phase |-> "new", turn |-> sess.turn, opened |-> sess.turn # NoTurn,
             interrupted |-> FALSE, asked |-> FALSE, closed |-> FALSE,
             reaped |-> "no", proc |-> "none", work |-> {}, ending |-> "no"]
  /\ sess' = SetState(sess, "starting", "none")

\* adapter.Start spawns the process ...
Spawn ==
  /\ run # NoRun /\ run.phase = "new"
  /\ run' = [run EXCEPT !.phase = "spawned", !.proc = "alive"]
  /\ UNCHANGED <<durable, calls, world, history>>

\* ... and the ProcessStart hook records it.
RecordProcess ==
  /\ run # NoRun /\ run.phase = "spawned"
  /\ run' = [run EXCEPT !.phase = "recorded"]
  /\ sess' = [sess EXCEPT !.open = TRUE]
  /\ UNCHANGED <<msgs, log, calls, world, history>>

\* The handshake succeeds, unless Close or the end of the process came first.
HandshakeOk ==
  /\ run # NoRun /\ run.phase = "recorded" /\ ~run.closed /\ run.proc = "alive"
  /\ run' = [run EXCEPT !.phase = "up"]
  /\ IF run.asked THEN UNCHANGED sess
     ELSE sess' = SetState(sess, IF run.opened THEN "running" ELSE "ready", "none")
  /\ tries' = [m \in Msgs |-> 0]
  /\ UNCHANGED <<msgs, log, calls, world, wanted, outrun>>

\* The start fails; the Pi adapter closes the process before it says so.
StartFails ==
  /\ run # NoRun /\ run.phase \in {"new", "recorded"}
  /\ \E why \in {"failed", "missing"}, dies \in BOOLEAN :
       /\ why = "missing" => Adapter = "pi" /\ run.phase = "recorded"
       /\ dies \in IF Adapter = "pi" /\ run.phase = "recorded" THEN Kills(run) ELSE {TRUE}
       /\ faults' = faults + (IF dies THEN 0 ELSE 1)
                           + (IF run.phase = "recorded" /\ run.closed THEN 0 ELSE 1)
       /\ faults' <= MaxFaults
       /\ run' = [(IF Adapter = "pi" /\ run.phase = "recorded" THEN Closed(run, dies) ELSE run)
                  EXCEPT !.phase = why]
  /\ UNCHANGED <<durable, calls, strays, history>>

\* ensureInput after a failed start: Close, whose error is ignored, and converge.
StartAborted ==
  /\ run # NoRun /\ run.phase \in {"failed", "missing"}
  /\ \E dies \in Kills(run) : Finalize(Closed(run, dies)) /\ Count(dies)
  /\ UNCHANGED <<durable, calls, strays, history>>

\* The provider exits by itself; its transport is closed with it.
ProviderExits ==
  /\ run # NoRun /\ run.proc = "alive" /\ Fault
  /\ run' = [run EXCEPT !.proc = "gone", !.closed = TRUE]
  /\ UNCHANGED <<durable, calls, strays, history>>

\* The ProcessEnd hook: no process of the group is left ...  ACP and Pi prompts are
\* calls that last as long as their Turn, and the hook waits for their end.
ProcessEnd ==
  /\ run # NoRun /\ run.proc = "gone" /\ (Adapter # "codex" => run.work = {})
  /\ run.phase \in {"up", "failed", "missing"}
  /\ Finalize(Closed(run, TRUE))
  /\ UNCHANGED <<durable, calls, world, history>>

\* ... or a descendant survives, and the Session stays in stopping.
ProcessEndStuck ==
  /\ run # NoRun /\ run.proc = "alive" /\ run.phase = "up" /\ Fault
  /\ run' = Closed(run, FALSE)
  /\ sess' = SetState(sess, "stopping", "none")
  /\ UNCHANGED <<msgs, log, calls, strays, history>>

\* The provider reports the end of a Turn it worked on.  The hook closes the
\* Turn of the run, whichever Turn the report was about.
TurnDone ==
  /\ run # NoRun /\ run.phase = "up"
  /\ \E t \in run.work, verdict \in {"closed", "failed"} :
       IF run.turn = NoTurn \/ Finalizing(run)
       THEN /\ run' = [run EXCEPT !.work = @ \ {t}]
            /\ UNCHANGED <<sess, msgs>>
       ELSE /\ run' = [run EXCEPT !.work = @ \ {t}, !.turn = NoTurn, !.interrupted = FALSE]
            /\ sess' = CloseTurn(sess, run.turn)
            /\ msgs' = SettleTurn(run.turn, IF run.interrupted THEN "cancelled" ELSE verdict)
  /\ UNCHANGED <<log, calls, world, history>>

\* A process left behind exits: it lost its standard input.
StrayExits ==
  /\ \E p \in strays : strays' = strays \ {p}
  /\ UNCHANGED <<durable, run, calls, faults, history>>

----------------------------------------------------------------------------
(* SendMessage and the retry timer: one at a time, under the input lock.   *)

NewJob(pc, m, t, rest) == [pc |-> pc, m |-> m, turn |-> t, held |-> "none", rest |-> rest]
GoTo(pc) == job' = [job EXCEPT !.pc = pc]

\* deliverPendingLocked goes on with the next message of those it read.
NextJob(rest) ==
  \/ rest = {} /\ job' = Idle
  \/ \E m \in rest : /\ FirstOf(m, rest)
                     /\ job' = NewJob("deliver", m, msgs[m].turn, rest \ {m})
Retry == job' = Idle /\ retrying' = TRUE
GiveUp == job' = Idle /\ UNCHANGED retrying
Done == NextJob(job.rest) /\ UNCHANGED retrying

\* What SendMessage decides for m from the Session ss it read: redeliver an id
\* it already has, refuse, or append it to the open Turn or to one of its own.
Decision(ss, m) ==
  CASE Pending(m) -> NewJob("deliver", m, msgs[m].turn, {})
    [] msgs[m].state = "none" /\ ss.turn = NoTurn -> NewJob("input", m, m, {})
    [] msgs[m].state = "none" /\ ss.turn # NoTurn /\ m \in Steers /\ CanSteer ->
         NewJob("input", m, ss.turn, {})
    [] OTHER -> Idle

SendMessage(m) ==
  /\ job = Idle /\ ~Refusing
  /\ job' = IF StopRequested THEN NewJob("converge", m, NoTurn, {}) ELSE Decision(sess, m)
  /\ UNCHANGED <<durable, run, stop, cut, resume, retrying, world, history>>

\* A Session that was stopped on request is converged again before it is used.
\* Nothing checks that no provider was started since the state was read.
SendConverges ==
  /\ job.pc = "converge"
  /\ Converge("requested")
  /\ job' = LET m == job.m IN IF msgs[m].state = "none"
                              THEN Decision(ConvergedSession("requested"), m) ELSE Idle
  /\ UNCHANGED <<run, stop, cut, resume, retrying, world, history>>

AppendInput ==
  /\ job.pc = "input"
  /\ IF sess.st = "archived"
     THEN job' = Idle /\ UNCHANGED <<durable, wanted>>
     ELSE /\ msgs' = [msgs EXCEPT ![job.m] = [@ EXCEPT !.state = "new", !.turn = job.turn]]
          /\ log' = Append(log, job.m)
          /\ wanted' = TRUE
          /\ GoTo(IF job.turn = job.m THEN "open" ELSE "deliver")
          /\ UNCHANGED sess
  /\ UNCHANGED <<run, stop, cut, resume, retrying, world, outrun, tries>>

\* turn.started follows message.input, even if Stop came in between.
StartTurn ==
  /\ job.pc = "open"
  /\ IF sess.st = "archived"
     THEN job' = Idle /\ UNCHANGED sess
     ELSE sess' = OpenTurn(sess, job.turn) /\ GoTo("deliver")
  /\ UNCHANGED <<msgs, log, run, stop, cut, resume, retrying, world, history>>

\* The budget of starts is spent and no provider is there to take the message.
Exhausted(m) == msgs[m].startups >= MaxStartups /\ run = NoRun

\* StartupAttempts of the next attempt (above MaxStartups all counts are alike).
SameCount(m) == msgs[m].startups  \* Mutant: the attempt is not counted.
NextCount(m) == IF msgs[m].startups > MaxStartups THEN msgs[m].startups
                ELSE msgs[m].startups + 1

\* deliverMessageLocked up to the durable attempt.
Deliver ==
  LET m == job.m
      fails == Exhausted(m)
      due == ~msgs[m].later /\ ~Refusing
      blocked == sess.turn \notin {NoTurn, job.turn}
  IN /\ job.pc = "deliver"
     /\ \/ /\ msgs[m].later \/ (due /\ ~fails /\ blocked)
           /\ Retry /\ UNCHANGED <<sess, msgs>>
        \/ ~msgs[m].later /\ Refusing /\ GiveUp /\ UNCHANGED <<sess, msgs>>
        \/ /\ due /\ fails /\ GiveUp
           /\ sess' = ConvergedSession("startup_error")
           /\ msgs' = ConvergedMessages("startup_error")
        \/ /\ due /\ ~fails /\ ~blocked
           /\ sess' = IF sess.turn = NoTurn THEN OpenTurn(sess, job.turn) ELSE sess
           /\ Record(m, "attempting", NextCount(m), FALSE)
           /\ GoTo("ensure") /\ UNCHANGED retrying
     /\ UNCHANGED <<log, run, stop, cut, resume, world, history>>

\* ensureInput, under m.mu: refuse, use the run there is, or create one.
Ensure ==
  /\ job.pc = "ensure"
  /\ \/ /\ ~Pending(job.m) \/ (run = NoRun /\ Refusing)
        /\ job' = [job EXCEPT !.pc = "wait", !.held = "err"]
        /\ UNCHANGED <<sess, run, tries>>
     \/ /\ Pending(job.m) /\ run # NoRun
        /\ job' = [job EXCEPT !.pc = "wait", !.held = "cur"]
        /\ UNCHANGED <<sess, run, tries>>
     \/ /\ Pending(job.m) /\ run = NoRun /\ ~Refusing
        /\ CreateRun
        /\ tries' = [tries EXCEPT ![job.m] = @ + 1]
        /\ job' = [job EXCEPT !.pc = "wait", !.held = "own"]
  /\ UNCHANGED <<msgs, log, stop, cut, resume, retrying, world, wanted, outrun>>

\* A call that waits for a run returns when the start is over; the one that
\* started it also closes a run that failed.
Returned(held) ==
  \/ held \in {"ok", "err"}
  \/ held \in {"own", "cur"} /\ run.phase = "up"
  \/ held = "cur" /\ run.phase \in {"failed", "missing"}
StartOk(held) == held = "ok" \/ (held \in {"own", "cur"} /\ run.phase = "up")

\* After ensure: the input may be settled or stopped meanwhile, the start may
\* have failed, or the Turn is handed to the run and the budget is reset.
Started ==
  LET m == job.m IN
  /\ job.pc = "wait" /\ Returned(job.held)
  /\ \/ ~Pending(m) /\ Done /\ UNCHANGED <<msgs, run>>
     \/ Pending(m) /\ (Refusing \/ StopRequested) /\ GiveUp /\ UNCHANGED <<msgs, run>>
     \/ /\ Pending(m) /\ ~Refusing /\ ~StopRequested /\ ~StartOk(job.held) /\ Retry
        /\ Record(m, "pending", msgs[m].startups, TRUE)
        /\ UNCHANGED run
     \/ /\ Pending(m) /\ ~Refusing /\ ~StopRequested /\ StartOk(job.held)
        /\ Record(m, "attempting", 0, FALSE)
        /\ run' = IF job.held \in {"own", "cur"} THEN [run EXCEPT !.turn = job.turn] ELSE run
        /\ GoTo("prompt") /\ UNCHANGED retrying
  /\ UNCHANGED <<sess, log, stop, cut, resume, world, history>>

CanPrompt == /\ job.held \in {"own", "cur"} /\ run.proc = "alive" /\ ~run.closed
             /\ job.m \in Steers => CanSteer

\* adapter.Prompt hands the text to the provider, which works on it in a Turn.
PromptOk ==
  /\ job.pc = "prompt" /\ CanPrompt
  /\ run' = [run EXCEPT !.work = @ \union {job.turn}]
  /\ GoTo("accept")
  /\ UNCHANGED <<durable, stop, cut, resume, retrying, world, history>>

PromptFails ==
  /\ job.pc = "prompt"
  /\ IF CanPrompt THEN Fault ELSE UNCHANGED faults
  /\ Record(job.m, "pending", 0, FALSE) /\ Retry
  /\ UNCHANGED <<sess, log, run, stop, cut, resume, strays, history>>

AppendAccepted ==
  /\ job.pc = "accept"
  /\ Record(job.m, "accepted", 0, FALSE)
  /\ IF sess.st = "archived" THEN Retry ELSE Done
  /\ UNCHANGED <<sess, log, run, stop, cut, resume, world, history>>

\* The delay that a failed start imposed on m is over.
DelayPasses(m) ==
  /\ msgs[m].later /\ msgs' = [msgs EXCEPT ![m].later = FALSE]
  /\ UNCHANGED <<sess, log, run, calls, world, history>>

\* The retry timer: not while a Stop holds, else every pending message in order.
RetryFires ==
  /\ retrying /\ job = Idle
  /\ retrying' = FALSE
  /\ IF Refusing \/ StopRequested THEN job' = Idle ELSE NextJob(PendingMsgs)
  /\ UNCHANGED <<durable, run, stop, cut, resume, world, history>>

----------------------------------------------------------------------------
(* Stop, Interrupt, Start, Archive, and a restart of the daemon.           *)

\* Stop under m.mu: with no run it converges at once, else it marks the run.
StopBegins ==
  /\ "stop" \in Calls /\ stop = "idle" /\ sess.st # "archived"
  /\ wanted' = FALSE /\ outrun' = FALSE
  /\ IF run = NoRun
     THEN /\ Converge("requested")
          /\ UNCHANGED <<run, stop>>
     ELSE /\ sess' = SetState(sess, "stopping", "requested")
          /\ run' = [run EXCEPT !.asked = TRUE]
          /\ stop' = "close" /\ UNCHANGED <<msgs, log>>
  /\ UNCHANGED <<job, cut, resume, retrying, world, tries>>

\* adapter.Close; when it fails the Session stays in stopping.
StopCloses ==
  /\ stop = "close"
  /\ \E dies \in Kills(run) :
       LET r == Closed(run, dies) IN
       /\ run' = r
       /\ stop' = IF r.reaped = "ok" THEN "wait" ELSE "idle"
       /\ Count(dies)
  /\ UNCHANGED <<durable, job, cut, resume, retrying, strays, history>>

\* waitReady, then convergeActive, which waits for one that began before it.
StopConverges ==
  /\ stop = "wait" /\ run.phase \in {"up", "failed", "missing"}
  /\ Finalize(run)
  /\ UNCHANGED <<durable, calls, world, history>>

InterruptBegins ==
  /\ "interrupt" \in Calls /\ ~cut /\ run # NoRun /\ run.turn # NoTurn /\ ~Finalizing(run)
  /\ cut' = TRUE /\ run' = [run EXCEPT !.interrupted = TRUE]
  /\ UNCHANGED <<durable, job, stop, resume, retrying, world, history>>

\* The provider took the request.  If no report of the provider closed the Turn
\* of the run, Interrupt closes it.
InterruptEnds ==
  /\ cut /\ cut' = FALSE
  /\ IF run.turn # NoTurn /\ run.interrupted /\ ~Finalizing(run)
     THEN /\ run' = [run EXCEPT !.turn = NoTurn, !.interrupted = FALSE]
          /\ sess' = CloseTurn(sess, run.turn)
          /\ msgs' = SettleTurn(run.turn, "cancelled")
     ELSE UNCHANGED <<run, sess, msgs>>
  /\ UNCHANGED <<log, job, stop, resume, retrying, world, history>>

InterruptFails ==
  /\ cut /\ cut' = FALSE
  /\ IF run.closed \/ run.phase # "up" THEN UNCHANGED faults ELSE Fault
  /\ run' = IF run.turn # NoTurn THEN [run EXCEPT !.interrupted = FALSE] ELSE run
  /\ UNCHANGED <<durable, job, stop, resume, retrying, strays, history>>

\* The API's Start: ensure, then every pending message under the input lock.  A
\* Start that overlaps an input is "overlap".
StartBegins ==
  /\ resume = "none" /\ "start" \in Calls /\ (job = Idle \/ "overlap" \in Calls)
  /\ run # NoRun \/ ~Refusing
  /\ resume' = (IF run = NoRun THEN "own" ELSE "cur")
  /\ wanted' = (wanted \/ run = NoRun)
  /\ IF run = NoRun THEN CreateRun ELSE UNCHANGED <<run, sess>>
  /\ UNCHANGED <<msgs, log, job, stop, cut, retrying, world, outrun, tries>>

StartDelivers ==
  /\ resume # "none" /\ Returned(resume) /\ resume' = "none"
  /\ IF StartOk(resume) THEN job = Idle /\ NextJob(PendingMsgs) ELSE UNCHANGED job
  /\ UNCHANGED <<durable, run, stop, cut, retrying, world, history>>

Archive ==
  /\ run = NoRun /\ sess.st = "stopped" /\ sess.turn = NoTurn
  /\ sess' = [sess EXCEPT !.st = "archived"]
  /\ UNCHANGED <<msgs, log, run, calls, world, history>>

\* What a process of the dead daemon is to the next one.
Orphaned(r) ==
  IF r = NoRun THEN {}
  ELSE IF r.proc \in {"none", "gone"} THEN {}
  ELSE IF r.phase = "spawned" THEN {"unrecorded"} ELSE {"recorded"}

\* Mutant: the open provider process of a ready Session is overlooked.
NeedsRecoveryIfBusy == sess.st \in {"starting", "running", "stopping"} \/ sess.turn # NoTurn
NeedsRecovery == sess.st \in {"starting", "running", "stopping"} \/ sess.open
                 \/ sess.turn # NoTurn
RecoveryReason == CASE sess.asked -> "requested"
                    [] ~sess.asked /\ sess.st = "stopped"
                         /\ sess.reason = "startup_error" -> "startup_error"
                    [] OTHER -> "other"

\* The daemon dies and the next one recovers the Session: stopping, kill the
\* recorded process group (which may survive), converge with the durable intent.
Restart ==
  /\ run' = NoRun /\ job' = Idle /\ stop' = "idle" /\ cut' = FALSE /\ resume' = "none"
  /\ LET left == strays \union Orphaned(run) IN
     IF sess.st = "archived" \/ ~NeedsRecovery
     THEN /\ Fault /\ strays' = left /\ retrying' = FALSE
          /\ UNCHANGED durable
     ELSE \/ /\ Fault
             /\ strays' = IF sess.open THEN left \ {"recorded"} ELSE left
             /\ Converge(RecoveryReason)
             /\ retrying' = \E m \in Msgs : /\ RecoveryReason # "requested"
                                            /\ msgs'[m].state \in PendingStates
          \/ /\ sess.open /\ faults + 2 <= MaxFaults /\ faults' = faults + 2
             /\ strays' = (left \ {"recorded"}) \union {"stuck"} /\ retrying' = FALSE
             /\ sess' = SetState(sess, "stopping", "none")
             /\ UNCHANGED <<msgs, log>>
  /\ UNCHANGED history

----------------------------------------------------------------------------
Init ==
  /\ sess = [st |-> "ready", reason |-> "none", asked |-> FALSE, turn |-> NoTurn, open |-> FALSE]
  /\ msgs = [m \in Msgs |-> [state |-> "none", turn |-> NoTurn, startups |-> 0, later |-> FALSE]]
  /\ log = <<>> /\ run = NoRun /\ job = Idle
  /\ stop = "idle" /\ cut = FALSE /\ resume = "none" /\ retrying = FALSE
  /\ strays = {} /\ faults = 0
  /\ wanted = FALSE /\ outrun = FALSE /\ tries = [m \in Msgs |-> 0]

ProcessSteps == \/ Spawn \/ RecordProcess \/ HandshakeOk \/ StartFails \/ StartAborted
                \/ ProcessEnd \/ ConvergeActive
InputSteps == \/ SendConverges \/ AppendInput \/ StartTurn \/ Deliver \/ Ensure
              \/ Started \/ PromptOk \/ PromptFails \/ AppendAccepted

Next == \/ ProcessSteps \/ ProviderExits \/ ProcessEndStuck \/ TurnDone \/ StrayExits
        \/ InputSteps \/ RetryFires
        \/ (\E m \in Msgs : SendMessage(m) \/ DelayPasses(m))
        \/ StopBegins \/ StopCloses \/ StopConverges
        \/ InterruptBegins \/ InterruptEnds \/ InterruptFails
        \/ StartBegins \/ StartDelivers \/ Archive \/ Restart

Spec == Init /\ [][Next]_vars

\* A started call goes on; time passes; the retry timer fires and gets the input
\* lock, which Go hands to a waiting goroutine; a provider ends its Turns.
Fairness ==
  /\ WF_vars(ProcessSteps) /\ WF_vars(InputSteps)
  /\ WF_vars(StopCloses \/ StopConverges) /\ WF_vars(InterruptEnds \/ InterruptFails)
  /\ WF_vars(TurnDone) /\ WF_vars(\E m \in Msgs : DelayPasses(m))
  /\ SF_vars(StartDelivers) /\ SF_vars(RetryFires)
FairSpec == Spec /\ Fairness

----------------------------------------------------------------------------
TypeOK ==
  /\ sess \in Session /\ msgs \in [Msgs -> Message]
  /\ log \in Seq(Msgs) /\ IsInjective(log)
  /\ run \in Run \union {NoRun} /\ (job = Idle \/ job \in Job)
  /\ stop \in {"idle", "close", "wait"} /\ resume \in {"none", "own", "cur", "ok", "err"}
  /\ cut \in BOOLEAN /\ retrying \in BOOLEAN /\ wanted \in BOOLEAN
  /\ outrun \in BOOLEAN
  /\ strays \subseteq {"recorded", "unrecorded", "stuck", "aborted", "spared"}
  /\ faults \in 0 .. MaxFaults /\ tries \in [Msgs -> Nat]

\* When stopped is published at the end of a run, its provider is dead: no process
\* of it is left, alive or such that it could not be killed.  One case is excepted,
\* the run whose start failed and whose process Close could not kill ("aborted"):
\* the error of that Close is ignored.  (Manager.Stop, ProcessEnd, ensureInput; a Stop
\* of a Session without a run knows of no process.)
StoppedMeansDead == "spared" \notin strays

\* False: see README, divergences.  The same without the exception.
NoProcessLeft == strays \intersect {"aborted", "spared"} = {}

\* A provider process whose start was recorded, of this daemon or of one that
\* died, is still on record until the Session is stopped: the next daemon will
\* find it.  (recover, OpenProviderProcess.)
Recoverable ==
  ("recorded" \in strays \/ (run # NoRun /\ run.proc = "alive" /\ run.phase # "spawned"))
  => sess.open

\* No provider is started next to one that the log knows of.  (ensureInput relies
\* on m.running alone, which knows nothing of processes before a restart.)
OneProvider == run # NoRun => strays \intersect {"recorded", "spared"} = {}

\* Over restarts of the daemon: a provider that outlives it is found, and none is
\* started beside it.
ProvidersKnown == Recoverable /\ OneProvider

\* After a Stop no provider runs for the Session, but the one that is being
\* stopped, until a user asks for work again: no timer, late call, or restart
\* of the daemon revives it.  (Stop, StopWasRequested, schedulePendingRetry.)  One
\* Stop is excepted: it came when convergeActive had decided what the end of the
\* run is called, and stopped was published after it without the request.
StopHolds == run # NoRun => wanted \/ run.asked \/ outrun

\* False: see README, divergences.  The same without the exception.
EveryStopHolds == run # NoRun => wanted \/ run.asked

\* No message starts more than maxPendingStartupAttempts providers in a row,
\* over restarts of the daemon and retries of its sender.  (deliverMessageLocked.)
BudgetHolds == \A m \in Msgs : tries[m] <= MaxStartups

\* A Turn that was closed is opened again only for an input of its own that still
\* waits: "A closed Turn must never be reopened by replaying an unconfirmed input".
NoReopen == [][\A t \in Msgs : sess'.turn = t /\ sess.turn # t
                 => \E m \in Msgs : msgs[m].turn = t /\ Pending(m)]_vars

\* What nothing but a restart or a user resolves: a process that cannot be
\* killed, a Session left in stopping with it, an archived Session.
Unstoppable == \/ sess.st \in {"stopping", "archived"}
               \/ run # NoRun /\ run.proc = "stuck"

\* The oldest message that still waits, once its Turn is open, is settled by the
\* timers of the daemon alone, whatever fails: its sender need not repeat it.
\* (schedulePendingRetry after every transient failure; recover after a restart.)
HeadSettles ==
  \A m \in Msgs :
    Pending(m) /\ FirstOf(m, PendingMsgs) /\ sess.turn = msgs[m].turn
      ~> ~Pending(m) \/ Unstoppable

\* Every message is settled, when its sender repeats it until it is.
SendersRepeat == \A m \in Msgs : SF_vars(Pending(m) /\ SendMessage(m))
Settles == SendersRepeat => \A m \in Msgs : Pending(m) ~> ~Pending(m) \/ Unstoppable

\* Both: by the daemon as far as it goes, and then by the repetition of the sender.
InputsSettle == HeadSettles /\ Settles
=============================================================================
