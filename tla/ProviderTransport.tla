-------------------------- MODULE ProviderTransport --------------------------
(***************************************************************************)
(* One run of a provider: the process, its adapter (provider/codex.go,       *)
(* acp.go, pi.go on the transport of provider.go), and what the manager      *)
(* records of its Turn and its approvals (runtime/manager.go active,         *)
(* providerEvent, Interrupt, Approve).  AgentHubSession has the life of a    *)
(* Session over many runs; here is what crosses on the wire inside one.      *)
(*                                                                           *)
(* Every call has a goroutine that registers it, writes it and waits.  The   *)
(* reader takes the output in order: answers wake their call, the rest goes  *)
(* to the manager under the lock of the run.  With Codex the end of a Turn   *)
(* is a notification; with ACP it is the answer to session/prompt, which the *)
(* goroutine of the prompt reports; Pi has a notification, and reports a     *)
(* prompt it refuses as the end of the Turn.                                 *)
(***************************************************************************)
EXTENDS Naturals, Sequences, SequencesExt, FiniteSets

CONSTANTS
    Protocols,  \* the adapters looked at, of "codex", "acp", "pi"
    Users,      \* clients that answer approvals
    MaxTurns, MaxSteers, MaxAsks, \* Turns, steers and approvals of the run (bounds)
    MaxCuts,    \* Interrupts and Stops (bound)
    MaxWireFaults, \* exits, timeouts, refusals, read errors (bound)
    MaxExtras,  \* all of these together (bound)
    PipeSize    \* messages standard input holds before a write blocks (bound)

ASSUME TransportAssumption ==
    /\ Protocols \subseteq {"codex", "acp", "pi"}
    /\ {MaxTurns, MaxSteers, MaxAsks, MaxCuts, MaxWireFaults, MaxExtras, PipeSize} \subseteq Nat

VARIABLES
    proto,
    proc,   \* the process: is it up, the Turn it works on and the call that began it
    inbox,  \* what was written to it and not read
    out,    \* what it wrote and the reader has not taken
    rpc,    \* the transport: waiting calls, pending approvals, Codex's turn id, its end
    calls,  \* the goroutines of the calls, in the order they began
    run,    \* the manager's record of the run
    store,  \* the event log: the open Turn, pending approvals, how each Turn ended
    start, stop, cut, users, \* callers of Start, Stop, Interrupt and Approve
    tally,  \* steers, approvals, cuts and faults so far (bounds)
    told, strange, answers, \* history: the ends the provider gave a Turn; Turns ended by
                            \* anything but that; answers each approval request got
    missed                  \* history: Turns whose end was lost with the last of the output

wireVars == <<proto, proc, inbox, out, rpc, calls, run, store, start, stop, cut, users, tally,
              told, strange, answers, missed>>
provider == <<proc, told, answers>>
pipes == <<inbox, out>>
manager == <<run, store, strange>>
callers == <<start, stop, cut, users>>

Turns == 1..MaxTurns
Asks == 1..MaxAsks
Prompts == {"prompt", "steer"}
JSONRPC == proto # "pi"

Eventful == tally.steers + tally.asks + tally.cuts + tally.faults < MaxExtras

Fault == /\ tally.faults < MaxWireFaults /\ Eventful
         /\ tally' = [tally EXCEPT !.faults = @ + 1]

Out(k, n, turn, ok) == [k |-> k, n |-> n, turn |-> turn, ok |-> ok]
In(k, n, turn, for) == [k |-> k, n |-> n, turn |-> turn, for |-> for]

-----------------------------------------------------------------------------
(* The goroutine of a call.  A prompt of ACP and Pi is one of those the     *)
(* terminal hook waits for; it begins only before that wait.                *)

Call(kind, turn) == [kind |-> kind, turn |-> turn, expect |-> rpc.turn, at |-> "begun", got |-> "none"]
Begins(kind, turn) == calls' = Append(calls, Call(kind, turn))
Back(c) == calls[c].at = "waiting" /\ calls[c].got # "none"
Over(c) == [calls EXCEPT ![c].at = "over", ![c].expect = 0, ![c].got = "none"]

(* writeMu: with JSON-RPC a call is registered and written under it. *)
Writing == JSONRPC /\ \E c \in DOMAIN calls : calls[c].at = "writing"

Registers(c) ==
    /\ calls[c].at = "begun" /\ ~Writing
    /\ IF rpc.closed
       THEN /\ calls' = [calls EXCEPT ![c].at = "waiting", ![c].got = "error"]
            /\ UNCHANGED rpc
       ELSE /\ calls' = [calls EXCEPT ![c].at = "writing"]
            /\ rpc' = [rpc EXCEPT !.waiting = @ \cup {c}]
    /\ UNCHANGED <<provider, pipes, manager, callers, tally>>

(* A write waits while the pipe is full; it fails on a closed one. *)
Broken == rpc.closed \/ ~proc.up
Room == ~Broken /\ Len(inbox) < PipeSize

Writes(c) ==
    /\ calls[c].at = "writing"
    /\ \/ /\ Broken
          /\ calls' = [calls EXCEPT ![c].at = "waiting", ![c].got = "error"]
          /\ rpc' = [rpc EXCEPT !.waiting = @ \ {c}]
          /\ UNCHANGED inbox
       \/ /\ Room
          /\ inbox' = Append(inbox, In(calls[c].kind, c, calls[c].turn, calls[c].expect))
          /\ calls' = [calls EXCEPT ![c].at = "waiting"]
          /\ UNCHANGED rpc
    /\ UNCHANGED <<provider, out, manager, callers, tally>>

(* A prompt of ACP or Pi waits as long as its Turn lasts; session/close two seconds. *)
TimesOut(c) ==
    /\ calls[c].at = "waiting" /\ calls[c].got = "none"
    /\ proto = "codex" \/ calls[c].kind \notin Prompts
    /\ IF calls[c].kind = "close" THEN UNCHANGED tally ELSE Fault
    /\ calls' = [calls EXCEPT ![c].got = "timeout"]
    /\ rpc' = [rpc EXCEPT !.waiting = @ \ {c}]
    /\ UNCHANGED <<provider, pipes, manager, callers>>

(* Waiting calls get a result. *)
Answered(C, got) == [c \in DOMAIN calls |-> IF c \in C THEN [calls[c] EXCEPT !.got = got] ELSE calls[c]]

-----------------------------------------------------------------------------
(* providerEvent.  The event that ends a Turn ends the open Turn of the     *)
(* run, whichever Turn it is about; replies of text wait for that.          *)

EndsTurn(failed, own) ==
    IF run.final \/ run.turn = 0 THEN UNCHANGED manager
    ELSE /\ store' = [store EXCEPT !.turn = 0, !.pending = {},
                                   !.ends[run.turn] = CASE run.interrupt -> "cancelled"
                                                        [] ~run.interrupt /\ failed -> "failed"
                                                        [] OTHER -> "completed"]
         /\ run' = [run EXCEPT !.turn = 0, !.interrupt = FALSE, !.replies = 0, !.queued = @ + run.replies]
         /\ strange' = IF own THEN strange ELSE strange \cup {run.turn}

(* The hook Approval. *)
AskRecorded(a) ==
    IF run.final THEN UNCHANGED manager
    ELSE /\ store' = [store EXCEPT !.pending = @ \cup {[ask |-> a, turn |-> run.turn]}]
         /\ UNCHANGED <<run, strange>>

Pended == {p.ask : p \in store.pending}

(* The reader.  Codex forgets its turn id before the manager hears of the   *)
(* end; an approval is known to the adapter before the manager hears of it. *)
ReadsAnswer(m) ==
    /\ m.k = "answer"
    /\ calls' = Answered({m.n} \cap rpc.waiting, IF m.ok THEN "ok" ELSE "refused")
    /\ rpc' = [rpc EXCEPT !.waiting = @ \ {m.n}]
    /\ out' = Tail(out)
    /\ UNCHANGED manager

ReadsStarted(m) ==
    /\ m.k = "started"
    /\ rpc' = [rpc EXCEPT !.turn = m.turn]
    /\ out' = Tail(out)
    /\ UNCHANGED <<calls, manager>>

ReadsDone(m) ==
    /\ m.k = "done"
    /\ rpc' = [rpc EXCEPT !.turn = 0]
    /\ IF rpc.turn # 0 THEN UNCHANGED <<out, manager>>
       ELSE out' = Tail(out) /\ EndsTurn(~m.ok, m.turn = run.turn)
    /\ UNCHANGED calls

ReadsAsk(m) ==
    /\ m.k = "ask"
    /\ IF m.n \notin rpc.pending
       THEN /\ rpc' = [rpc EXCEPT !.pending = @ \cup {m.n}]
            /\ UNCHANGED <<out, manager>>
       ELSE out' = Tail(out) /\ AskRecorded(m.n) /\ UNCHANGED rpc
    /\ UNCHANGED calls

Reads ==
    /\ rpc.reading /\ out # <<>>
    /\ LET m == Head(out) IN ReadsAnswer(m) \/ ReadsStarted(m) \/ ReadsDone(m) \/ ReadsAsk(m)
    /\ UNCHANGED <<provider, inbox, callers, tally>>

(* Reading fails.  JSON-RPC closes the transport and kills the process; Pi  *)
(* only stops reading.                                                      *)
ReadFails ==
    /\ Fault /\ rpc.reading /\ proc.up /\ ~Writing
    /\ out' = <<>>
    /\ IF JSONRPC /\ ~rpc.closed
       THEN /\ rpc' = [rpc EXCEPT !.reading = FALSE, !.failed = TRUE, !.closed = TRUE, !.killed = TRUE, !.waiting = {}]
            /\ calls' = Answered(rpc.waiting, "error")
       ELSE /\ rpc' = [rpc EXCEPT !.reading = FALSE, !.failed = TRUE]
            /\ UNCHANGED calls
    /\ UNCHANGED <<provider, inbox, manager, callers>>

-----------------------------------------------------------------------------
(* The provider.  It works on one Turn at a time; a steer of Pi that finds  *)
(* it idle begins a run of its own.                                         *)

Emits(s) == out' = IF rpc.reading THEN out \o s ELSE out
Answer(c, ok) == Out("answer", c, 0, ok)
Idle == proc.turn = 0
Rests == [proc EXCEPT !.turn = 0, !.call = 0]

Ended(t, ok) == told' = [told EXCEPT ![t] = @ \cup {IF ok THEN "completed" ELSE "failed"}]

TakesPrompt(m) ==
    /\ m.k \in Prompts
    /\ \/ /\ Idle /\ ~(proto = "codex" /\ m.k = "steer" /\ m.for # 0)
          /\ proc' = [proc EXCEPT !.turn = m.turn, !.call = m.n]
          /\ Emits(CASE proto = "codex" -> <<Answer(m.n, TRUE), Out("started", 0, m.turn, TRUE)>>
                     [] proto = "pi" -> <<Answer(m.n, TRUE)>>
                     [] proto = "acp" -> <<>>)
          /\ UNCHANGED <<told, tally>>
       \/ /\ m.k = "steer" /\ ~Idle /\ (proto = "codex" => m.for = proc.turn)
          /\ Emits(<<Answer(m.n, TRUE)>>)
          /\ UNCHANGED <<proc, told, tally>>
       \/ /\ proto = "codex" /\ m.k = "steer"
          /\ IF m.for = 0 THEN ~Idle ELSE m.for # proc.turn
          /\ Emits(<<Answer(m.n, FALSE)>>)
          /\ UNCHANGED <<proc, told, tally>>
       \/ /\ Fault \/ (m.k = "prompt" /\ ~Idle /\ UNCHANGED tally)
          /\ Emits(<<Answer(m.n, FALSE)>>)
          /\ IF m.k = "prompt" /\ proto # "codex" THEN Ended(m.turn, FALSE) ELSE UNCHANGED told
          /\ UNCHANGED proc
    /\ UNCHANGED answers

(* What ends the Turn, and with it the approvals it asked for. *)
Report(ok) == IF proto = "acp" THEN <<Answer(proc.call, ok)>> ELSE <<Out("done", 0, proc.turn, ok)>>

TakesInterrupt(m) ==
    /\ m.k = "interrupt"
    /\ LET reply == IF proto = "acp" THEN <<>> ELSE <<Answer(m.n, proto = "pi" \/ m.for = proc.turn)>>
       IN IF Idle \/ (proto = "codex" /\ m.for # proc.turn)
          THEN Emits(reply) /\ UNCHANGED <<proc, told>>
          ELSE Emits(reply \o Report(TRUE)) /\ proc' = Rests /\ Ended(proc.turn, TRUE)
    /\ UNCHANGED <<answers, tally>>

TakesOther(m) ==
    \/ /\ m.k \in {"start", "close"}
       /\ \/ Emits(<<Answer(m.n, TRUE)>>) /\ UNCHANGED tally
          \/ Fault /\ Emits(<<Answer(m.n, FALSE)>>)
       /\ UNCHANGED <<proc, told, answers>>
    \/ /\ m.k = "reply"
       /\ answers' = [answers EXCEPT ![m.n] = @ + 1]
       /\ UNCHANGED <<out, proc, told, tally>>

Takes ==
    /\ proc.up /\ inbox # <<>>
    /\ inbox' = Tail(inbox)
    /\ LET m == Head(inbox) IN TakesPrompt(m) \/ TakesInterrupt(m) \/ TakesOther(m)
    /\ UNCHANGED <<rpc, calls, manager, callers>>

EndsWork ==
    /\ proc.up /\ ~Idle
    /\ \E ok \in BOOLEAN : Emits(Report(ok)) /\ Ended(proc.turn, ok)
    /\ proc' = Rests
    /\ UNCHANGED <<answers, inbox, rpc, calls, manager, callers, tally>>

AsksUser ==
    /\ proto # "pi" /\ proc.up /\ ~Idle /\ tally.asks < MaxAsks /\ Eventful
    /\ tally' = [tally EXCEPT !.asks = @ + 1]
    /\ Emits(<<Out("ask", tally.asks + 1, 0, TRUE)>>)
    /\ UNCHANGED <<provider, inbox, rpc, calls, manager, callers>>

Exits ==
    /\ proc.up
    /\ IF rpc.killed THEN UNCHANGED tally ELSE Fault
    /\ proc' = [Rests EXCEPT !.up = FALSE]
    /\ inbox' = <<>>
    /\ UNCHANGED <<told, answers, out, rpc, calls, manager, callers>>

-----------------------------------------------------------------------------
(* The end of the run.  finish comes after the output was read to its end,  *)
(* or to where Wait closed the pipe; the hook then waits for the prompts    *)
(* and for the handshake.                                                   *)

(* The message that ends a Turn, with ACP and a refusal of Pi an answer. *)
TurnEndedBy(m) ==
    CASE m.k = "done" -> {m.turn}
      [] m.k = "answer" /\ proto # "codex" /\ (proto = "acp" \/ ~m.ok) /\ calls[m.n].kind = "prompt" -> {calls[m.n].turn}
      [] OTHER -> {}

(* cmd.WaitDelay: two seconds after the exit the pipe is closed, and what   *)
(* the reader, held up by the manager, has not taken is gone without an     *)
(* error; of the rest it still gets what had been copied.                   *)
WaitGivesUp ==
    /\ ~proc.up /\ ~rpc.finished /\ rpc.reading
    /\ \E copied \in 0 .. Len(out) - 1 :
          /\ out' = SubSeq(out, 1, copied)
          /\ missed' = missed \cup UNION {TurnEndedBy(out[i]) : i \in copied + 1 .. Len(out)}
    /\ UNCHANGED <<provider, inbox, rpc, calls, manager, callers, tally>>

Finish ==
    /\ ~proc.up /\ ~rpc.finished /\ (out = <<>> \/ ~rpc.reading)
    /\ rpc' = [rpc EXCEPT !.closed = TRUE, !.finished = TRUE, !.waiting = {}]
    /\ calls' = Answered(rpc.waiting, "gone")
    /\ UNCHANGED <<provider, pipes, manager, callers, tally>>

Accepted(t) == t \in store.accepted

(* convergeActive: a Turn whose input was not accepted stays open. *)
Converged(how) ==
    IF run.final THEN UNCHANGED <<run, store>>
    ELSE /\ run' = [run EXCEPT !.final = TRUE, !.turn = 0]
         /\ store' = [store EXCEPT !.pending = {}, !.stopped = TRUE,
                                   !.turn = IF @ # 0 /\ Accepted(@) THEN 0 ELSE @,
                                   !.ends = IF store.turn # 0 /\ Accepted(store.turn)
                                            THEN [@ EXCEPT ![store.turn] = how] ELSE @]

Unreported == {c \in DOMAIN calls : calls[c].kind \in Prompts /\ calls[c].at # "over"}

(* Mutant of OutcomeKept: the hook waits for nothing. *)
HookMayRunAtOnce == TRUE

HookMayRun == proto = "codex" \/ (rpc.ending /\ Unreported = {})

HookBegins ==
    /\ rpc.finished /\ ~rpc.ending
    /\ rpc' = [rpc EXCEPT !.ending = TRUE]
    /\ UNCHANGED <<provider, pipes, calls, manager, callers, tally>>

ProcessEnds ==
    /\ rpc.finished /\ ~run.final /\ start.at \in {"ready", "failed"} /\ HookMayRun
    /\ \E how \in {"failed", "cancelled"} : Converged(IF run.stopping THEN "cancelled" ELSE how)
    /\ UNCHANGED <<provider, pipes, rpc, calls, strange, callers, tally>>

Closes == [rpc EXCEPT !.closed = TRUE, !.killed = TRUE]

(* adapter.Start.  The calls of the handshake follow one another; one      *)
(* stands for them.  When it fails the process is closed, and the run       *)
(* converges when that is gone.                                             *)
StartCalls ==
    /\ start.at = "begins"
    /\ Begins("start", 0)
    /\ start' = [at |-> "calls"]
    /\ UNCHANGED <<provider, pipes, rpc, manager, stop, cut, users, tally>>

StartReturns ==
    /\ start.at = "calls"
    /\ \E c \in DOMAIN calls :
          /\ calls[c].kind = "start" /\ Back(c) /\ calls' = Over(c)
          /\ start' = [at |-> IF calls[c].got = "ok" THEN "ready" ELSE "closes"]
    /\ UNCHANGED <<provider, pipes, rpc, manager, stop, cut, users, tally>>

StartCloses ==
    /\ start.at = "closes" /\ ~Writing
    /\ rpc' = Closes /\ start' = [at |-> "failed"]
    /\ UNCHANGED <<provider, pipes, calls, manager, stop, cut, users, tally>>

StartConverges ==
    /\ start.at = "failed" /\ rpc.finished /\ ~run.final
    /\ Converged("failed")
    /\ UNCHANGED <<provider, pipes, rpc, calls, strange, callers, tally>>

(* Stop: ACP says goodbye first. *)
StopBegins ==
    /\ stop.at = "idle" /\ ~run.final /\ tally.cuts < MaxCuts /\ Eventful
    /\ tally' = [tally EXCEPT !.cuts = @ + 1]
    /\ run' = [run EXCEPT !.stopping = TRUE]
    /\ IF proto = "acp" /\ start.at = "ready"
       THEN stop' = [at |-> "close"] /\ Begins("close", 0)
       ELSE stop' = [at |-> "kill"] /\ UNCHANGED calls
    /\ UNCHANGED <<provider, pipes, rpc, store, strange, start, cut, users>>

StopSays ==
    /\ stop.at = "close"
    /\ \E c \in DOMAIN calls : /\ calls[c].kind = "close" /\ Back(c)
                               /\ calls' = Over(c)
    /\ stop' = [at |-> "kill"]
    /\ UNCHANGED <<provider, pipes, rpc, manager, start, cut, users, tally>>

StopCloses ==
    /\ stop.at = "kill" /\ ~Writing
    /\ rpc' = Closes /\ stop' = [at |-> "wait"]
    /\ UNCHANGED <<provider, pipes, calls, manager, start, cut, users, tally>>

StopConverges ==
    /\ stop.at = "wait" /\ rpc.finished /\ start.at \in {"ready", "failed"}
    /\ stop' = [at |-> "done"]
    /\ Converged("cancelled")
    /\ UNCHANGED <<provider, pipes, rpc, calls, strange, start, cut, users, tally>>

-----------------------------------------------------------------------------
(* Inputs.  SendMessage holds the input lock until the adapter took the     *)
(* prompt: with Codex until turn/start is answered.                         *)

InputLocked == store.opening # 0 \/ (proto = "codex" /\ Unreported # {})
MaySend == start.at = "ready" /\ ~run.stopping /\ ~run.final /\ ~InputLocked

Opens ==
    /\ MaySend /\ store.turn = 0 /\ store.opened < MaxTurns
    /\ LET t == store.opened + 1 IN
       store' = [store EXCEPT !.turn = t, !.opening = t, !.opened = t, !.ends[t] = "open"]

Input == /\ Opens
         /\ UNCHANGED <<provider, pipes, rpc, calls, run, strange, callers, tally>>

(* A reply of text becomes the next input, unless another opened the Turn. *)
ReplySends ==
    /\ run.queued > 0
    /\ run' = [run EXCEPT !.queued = @ - 1]
    /\ Opens \/ ((store.turn # 0 \/ run.stopping \/ run.final) /\ UNCHANGED store)
    /\ UNCHANGED <<provider, pipes, rpc, calls, strange, callers, tally>>

(* The Turn becomes the open one of the run, then the prompt begins. *)
Delivers ==
    /\ store.opening # 0
    /\ IF run.final \/ run.stopping
       THEN store' = [store EXCEPT !.opening = 0] /\ UNCHANGED <<run, calls>>
       ELSE /\ run' = [run EXCEPT !.turn = store.opening]
            /\ IF proto = "codex" \/ ~rpc.ending
               THEN Begins("prompt", store.opening) ELSE UNCHANGED calls
            /\ store' = [store EXCEPT !.opening = 0,
                                      !.accepted = IF proto # "codex" /\ ~rpc.ending THEN @ \cup {store.opening} ELSE @]
    /\ UNCHANGED <<provider, pipes, rpc, strange, callers, tally>>

Steers ==
    /\ MaySend /\ proto # "acp" /\ run.turn # 0 /\ tally.steers < MaxSteers /\ Eventful
    /\ ~rpc.ending
    /\ tally' = [tally EXCEPT !.steers = @ + 1]
    /\ Begins("steer", run.turn)
    /\ UNCHANGED <<provider, pipes, rpc, manager, callers>>

(* The goroutine of a prompt ends: Codex's answer accepts the input, ACP's  *)
(* is the end of the Turn, and an error of Pi's is one too.                 *)
PromptReturns(c) ==
    /\ calls[c].kind \in Prompts /\ Back(c)
    /\ calls' = Over(c)
    /\ LET ok == calls[c].got = "ok"
           own == calls[c].kind = "prompt" /\ calls[c].turn = run.turn /\ calls[c].got # "error"
       IN CASE proto = "codex" ->
                 /\ store' = IF ok THEN [store EXCEPT !.accepted = @ \cup {calls[c].turn}] ELSE store
                 /\ UNCHANGED <<run, strange>>
            [] proto = "acp" \/ (proto = "pi" /\ ~ok) -> EndsTurn(~ok, own)
            [] OTHER -> UNCHANGED manager
    /\ UNCHANGED <<provider, pipes, rpc, callers, tally>>

-----------------------------------------------------------------------------
(* Interrupt.  Codex has nothing to interrupt before turn/started is read.  *)
CutBegins ==
    /\ cut.at = "idle" /\ run.turn # 0 /\ ~run.final /\ tally.cuts < MaxCuts /\ Eventful
    /\ tally' = [tally EXCEPT !.cuts = @ + 1]
    /\ run' = [run EXCEPT !.interrupt = TRUE]
    /\ cut' = [at |-> "ask", turns |-> cut.turns \cup {run.turn}]
    /\ UNCHANGED <<provider, pipes, rpc, calls, store, strange, start, stop, users>>

CutAsks ==
    /\ cut.at = "ask"
    /\ CASE proto = "codex" /\ rpc.turn = 0 ->
              cut' = [cut EXCEPT !.at = "ok"] /\ UNCHANGED <<calls, inbox>>
         [] proto = "acp" ->
              /\ ~Writing
              /\ \/ Broken /\ cut' = [cut EXCEPT !.at = "failed"] /\ UNCHANGED inbox
                 \/ /\ Room /\ inbox' = Append(inbox, In("interrupt", 0, 0, 0))
                    /\ cut' = [cut EXCEPT !.at = "ok"]
              /\ UNCHANGED calls
         [] OTHER -> Begins("interrupt", 0) /\ cut' = [cut EXCEPT !.at = "calls"] /\ UNCHANGED inbox
    /\ UNCHANGED <<provider, out, rpc, manager, start, stop, users, tally>>

CutReturns ==
    /\ cut.at = "calls"
    /\ \E c \in DOMAIN calls :
          /\ calls[c].kind = "interrupt" /\ Back(c)
          /\ calls' = Over(c)
          /\ cut' = [cut EXCEPT !.at = IF calls[c].got = "ok" THEN "ok" ELSE "failed"]
    /\ UNCHANGED <<provider, pipes, rpc, manager, start, stop, users, tally>>

(* Not every provider reports the end of an interrupted Turn, so it is      *)
(* ended here when no report was faster.                                    *)
CutEnds ==
    /\ cut.at \in {"ok", "failed"}
    /\ cut' = [cut EXCEPT !.at = "idle"]
    /\ CASE cut.at = "ok" /\ ~run.final /\ run.turn # 0 /\ run.interrupt ->
              /\ store' = [store EXCEPT !.turn = 0, !.ends[run.turn] = "cancelled"]
              /\ run' = [run EXCEPT !.turn = 0, !.interrupt = FALSE]
         [] cut.at = "failed" /\ run.turn # 0 -> run' = [run EXCEPT !.interrupt = FALSE] /\ UNCHANGED store
         [] OTHER -> UNCHANGED <<run, store>>
    /\ UNCHANGED <<provider, pipes, rpc, calls, strange, start, stop, users, tally>>

-----------------------------------------------------------------------------
(* Approve.  The API looks at the log; the adapter at its own table.  Codex *)
(* takes the entry in one step, ACP looks, chooses, and deletes it after.   *)
Steps(u, at) == users' = [users EXCEPT ![u].at = at]

UserChecks(u) ==
    /\ users[u].at = "idle"
    /\ \E a \in Pended, text \in BOOLEAN : users' = [users EXCEPT ![u] = [at |-> "asks", ask |-> a, text |-> text]]
    /\ UNCHANGED <<provider, pipes, rpc, calls, manager, start, stop, cut, tally>>

UserLooks(u) ==
    /\ users[u].at = "asks"
    /\ IF users[u].ask \notin rpc.pending
       THEN Steps(u, "idle") /\ UNCHANGED rpc
       ELSE /\ Steps(u, "replies")
            /\ rpc' = IF proto = "codex" THEN [rpc EXCEPT !.pending = @ \ {users[u].ask}] ELSE rpc
    /\ UNCHANGED <<provider, pipes, calls, manager, start, stop, cut, tally>>

UserReplies(u) ==
    /\ users[u].at = "replies" /\ ~Writing
    /\ \/ /\ Broken /\ Steps(u, "idle") /\ UNCHANGED inbox
       \/ /\ Room /\ inbox' = Append(inbox, In("reply", users[u].ask, 0, 0))
          /\ Steps(u, IF users[u].text THEN "keeps" ELSE "records")
    /\ rpc' = [rpc EXCEPT !.pending = @ \ {users[u].ask}]
    /\ UNCHANGED <<provider, out, calls, manager, start, stop, cut, tally>>

UserKeeps(u) ==
    /\ users[u].at = "keeps"
    /\ run' = [run EXCEPT !.replies = @ + 1]
    /\ Steps(u, "records")
    /\ UNCHANGED <<provider, pipes, rpc, calls, store, strange, start, stop, cut, tally>>

UserRecords(u) ==
    /\ users[u].at = "records"
    /\ store' = [store EXCEPT !.pending = {p \in @ : p.ask # users[u].ask}]
    /\ Steps(u, "idle")
    /\ UNCHANGED <<provider, pipes, rpc, calls, run, strange, start, stop, cut, tally>>

-----------------------------------------------------------------------------
WireInit ==
    /\ proto \in Protocols
    /\ proc = [up |-> TRUE, turn |-> 0, call |-> 0]
    /\ inbox = <<>> /\ out = <<>> /\ calls = <<>>
    /\ rpc = [waiting |-> {}, pending |-> {}, turn |-> 0, closed |-> FALSE, killed |-> FALSE,
              reading |-> TRUE, failed |-> FALSE, finished |-> FALSE, ending |-> FALSE]
    /\ run = [turn |-> 0, interrupt |-> FALSE, stopping |-> FALSE, final |-> FALSE, replies |-> 0, queued |-> 0]
    /\ store = [turn |-> 0, opening |-> 0, opened |-> 0, accepted |-> {}, pending |-> {}, stopped |-> FALSE,
                ends |-> [t \in Turns |-> "none"]]
    /\ start = [at |-> "begins"] /\ stop = [at |-> "idle"] /\ cut = [at |-> "idle", turns |-> {}]
    /\ users = [u \in Users |-> [at |-> "idle", ask |-> 0, text |-> FALSE]]
    /\ tally = [steers |-> 0, asks |-> 0, cuts |-> 0, faults |-> 0]
    /\ told = [t \in Turns |-> {}] /\ strange = {} /\ answers = [a \in Asks |-> 0] /\ missed = {}

WireStep ==
    \/ \E c \in DOMAIN calls : \/ Registers(c) \/ Writes(c) \/ TimesOut(c) \/ PromptReturns(c)
    \/ Reads \/ ReadFails
    \/ Takes \/ EndsWork \/ AsksUser \/ Exits
    \/ Finish \/ HookBegins \/ ProcessEnds
    \/ StartCalls \/ StartReturns \/ StartCloses \/ StartConverges
    \/ StopBegins \/ StopSays \/ StopCloses \/ StopConverges
    \/ Input \/ ReplySends \/ Delivers \/ Steers
    \/ CutBegins \/ CutAsks \/ CutReturns \/ CutEnds
    \/ \E u \in Users : UserChecks(u) \/ UserLooks(u) \/ UserReplies(u) \/ UserKeeps(u) \/ UserRecords(u)

WireNext ==
    /\ (WireStep /\ UNCHANGED missed) \/ WaitGivesUp
    /\ UNCHANGED proto

-----------------------------------------------------------------------------
(* provider.go:46: the end of the process does not overtake the work it     *)
(* did: a Turn whose end the provider wrote before it exited is recorded    *)
(* with that end, and not as one the exit broke off.  The exceptions are a  *)
(* Stop, an Interrupt of the Turn, a report of another Turn, a failed read, *)
(* and an end that was still unread when Wait closed the pipe.              *)
OutcomeKept ==
    (run.final /\ ~run.stopping /\ ~rpc.failed) =>
        \A t \in Turns \ (strange \cup cut.turns \cup missed) : told[t] # {} => store.ends[t] \in told[t]

(* provider.go:307: "bytes written immediately before exit reach our        *)
(* readers".  False: see the README, divergences.                           *)
NothingMissed == missed = {}

(* Whatever ends a run, no caller is left waiting for an answer: a call     *)
(* that waits is known to the reader, which wakes it with the answer or,    *)
(* when the process is gone, without.                                       *)
NoCallStranded ==
    \A c \in DOMAIN calls :
        (calls[c].at = "waiting" /\ calls[c].got = "none") => c \in rpc.waiting /\ ~rpc.finished

(* An approval the log calls pending can be answered while the provider is  *)
(* there: the adapter knows it, or somebody's answer is on its way.         *)
Answerable ==
    ~Broken => \A a \in Pended : a \in rpc.pending \/ \E u \in Users : users[u].ask = a /\ users[u].at \notin {"idle", "asks"}

(* What a provider says or asks is neither lost nor waited for in vain,     *)
(* whichever of its end, a Stop, an Interrupt and a full pipe comes first.  *)
WorkAnswered == OutcomeKept /\ NoCallStranded /\ Answerable

(* acp.go:249: "answer resolves a pending provider request exactly once". *)
AnsweredOnce == \A a \in Asks : answers[a] <= 1

(* manager.go:738: "A canonical turn terminal is also the closure boundary  *)
(* for every approval belonging to that turn."                              *)
TurnClosesApprovals == \A p \in store.pending : p.turn # 0 => store.ends[p.turn] = "open"

(* manager.go:470: the end of a Turn by Interrupt is serialized with a late *)
(* notification of the provider: no Turn is ended by the report of another. *)
EndIsOwn == strange = {}

(* manager.go:543: the text "is delivered as the next user message once the *)
(* current turn closes".                                                    *)
RepliesLeave == store.turn = 0 => run.replies = 0
=============================================================================
