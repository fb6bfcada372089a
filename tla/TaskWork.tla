------------------------------- MODULE TaskWork -------------------------------
(***************************************************************************)
(* What keeps a Task going: the state in its task.json, the continuation   *)
(* messages that follow a Turn which left it in progress, or waiting for   *)
(* no schedule, the budget of such messages, and the watchdog that stops a *)
(* stalled Turn and resumes the Session with a recovery message.           *)
(*                                                                         *)
(* The generation, the mailbox and the Session are those of one Task.  Its *)
(* resource controller runs one job at a time; the steps of a job are the  *)
(* separate files it writes and the requests it sends, and the process may *)
(* end, or a write fail, between any two of them.                          *)
(***************************************************************************)
EXTENDS Naturals, Sequences, SequencesExt, FiniteSets

CONSTANTS Inputs,          \* ids of the messages users, Agents or the Scheduler send
          MaxAttempts,     \* maxTaskStateRecoveryAttempts, 3 in the code
          MaxTurns,        \* bound on the Turns of the Session
          MaxFaults        \* bound on crashes, failed writes and lost answers together

VARIABLES task,            \* its state, and whether a schedule names it as target
          mail,            \* its mailbox, in the order of acceptance
          gen,             \* the part of the generation record that is about work
          session,         \* AgentHub's Session: state, last Turn, what it took
          stops,           \* the Turns the watchdog asked AgentHub to stop
          due, job,        \* the queued completion check and the running job
          crashes, failures

taskVars == <<task, mail, gen, session, stops, due, job, crashes, failures>>
-----------------------------------------------------------------------------
Idle == [kind |-> "none"]
NoWatch == [turn |-> 0, recovery |-> 0, exhausted |-> FALSE]

(* Ids are digests of what identifies the message; the same circumstances  *)
(* give the same id, and a message with a known id is accepted once.       *)
Input(i) == <<"input", i>>
Continuation(state, chain, marker, attempt) == <<state, chain, marker, attempt>>
Recovery(turn) == <<"stall", turn>>

IsContinuation(id) == id[1] \in {"in_progress", "waiting"}

Message(id, steer) == [id |-> id, steer |-> steer, status |-> "queued", turn |-> 0, fails |-> 0]

Place(id) == SelectInSeq(mail, LAMBDA m : m.id = id)

Accepted(id) == IF Place(id) = 0 THEN Append(mail, Message(id, FALSE)) ELSE mail

With(id, field, value) == [mail EXCEPT ![Place(id)][field] = value]

Open == {"queued", "delivering"}

(* A steer joins an open Turn; all else waits for the Session to be ready, *)
(* and for the messages before it.                                         *)
Next1 == SelectInSeq(mail, LAMBDA m : m.status \in Open)

Deliverable(m) ==
    \/ m.status = "delivering"
    \/ session.state = "ready"
    \/ session.state = "running" /\ m.steer

(* A completed check; a fresh marker makes it a step without effect.       *)
Handled(g, marker) == IF g.marker = marker THEN [g EXCEPT !.handled = marker] ELSE g

Superseded ==
    \/ gen.turn # 0
    \/ \E i \in DOMAIN mail :
          \/ mail[i].status = "queued"
          \/ mail[i].status = "delivering" /\ mail[i].id # gen.chain

Unfinished == {"in_progress", "waiting"}
-----------------------------------------------------------------------------
TaskInit ==
    /\ task = [state |-> "not_started", scheduled |-> FALSE]
    /\ mail = <<>>
    /\ gen = [chain |-> <<>>, count |-> 0, marker |-> 0, handled |-> 0, turn |-> 0, watch |-> NoWatch]
    /\ session = [state |-> "stopped", turn |-> 0, ended |-> 0, stalled |-> FALSE,
                  took |-> [id \in {} |-> 0]]
    /\ stops = <<>>
    /\ due = FALSE /\ job = Idle /\ crashes = 0 /\ failures = 0

(* Anyone sends a message; anyone edits the schedules.                     *)
Accept(i, steer) ==
    /\ Place(Input(i)) = 0
    /\ mail' = Append(mail, Message(Input(i), steer))
    /\ UNCHANGED <<task, gen, session, stops, due, job, crashes, failures>>

Reschedule ==
    /\ task' = [task EXCEPT !.scheduled = ~@]
    /\ UNCHANGED <<mail, gen, session, stops, due, job, crashes, failures>>

(* The Agent of an open Turn declares how far the Task is.                 *)
AgentSets(state) ==
    /\ job = Idle /\ session.state = "running"
    /\ task' = [task EXCEPT !.state = state]
    /\ UNCHANGED <<mail, gen, session, stops, due, job, crashes, failures>>

(* End Turn: queued steers are cancelled and the Task is paused.           *)
EndTurn ==
    /\ job = Idle /\ session.state = "running"
    /\ session' = [session EXCEPT !.state = "ready", !.ended = session.turn, !.stalled = FALSE]
    /\ mail' = [i \in DOMAIN mail |->
                  IF mail[i].status = "queued" /\ mail[i].steer
                  THEN [mail[i] EXCEPT !.status = "cancelled"] ELSE mail[i]]
    /\ task' = [task EXCEPT !.state = "paused"]
    /\ UNCHANGED <<gen, stops, due, job, crashes, failures>>

(* AgentHub: a Turn ends, or nothing is heard of it for too long.          *)
TurnEnds ==
    /\ session.state = "running"
    /\ session' = [session EXCEPT !.state = "ready", !.ended = session.turn, !.stalled = FALSE]
    /\ UNCHANGED <<task, mail, gen, stops, due, job, crashes, failures>>

Stalls ==
    /\ session.state = "running" /\ ~session.stalled
    /\ session' = [session EXCEPT !.stalled = TRUE]
    /\ UNCHANGED <<task, mail, gen, stops, due, job, crashes, failures>>

Sleeps ==
    /\ session.state = "ready" /\ mail # <<>> /\ Next1 = 0 /\ job = Idle
    /\ session' = [session EXCEPT !.state = "stopped"]
    /\ UNCHANGED <<task, mail, gen, stops, due, job, crashes, failures>>
-----------------------------------------------------------------------------
(* A look at the Session: its open Turn is projected, and the last Turn    *)
(* that ended leaves its marker.  A marker calls for a check of the Task,  *)
(* done at once where no further Turn can follow.                          *)
Observed(g, marker) ==
    [g EXCEPT !.turn = IF session.state = "running" THEN session.turn ELSE 0, !.marker = marker]

SchedulesCheck(g) ==
    IF task.state \in Unfinished THEN gen' = g /\ due' = TRUE
    ELSE gen' = Handled(g, g.marker) /\ UNCHANGED due

Scheduled(g) ==
    IF g.marker = g.handled THEN gen' = g /\ UNCHANGED due ELSE SchedulesCheck(g)

(* A Turn that ended between two looks at an open Turn may be missed until *)
(* the next end.                                                           *)
Observe ==
    /\ job = Idle
    /\ \E marker \in {session.ended} \cup IF session.state = "running" THEN {gen.marker} ELSE {} :
          LET g == Observed(gen, marker)
          IN  /\ g # gen
              /\ IF marker = gen.marker THEN gen' = g /\ UNCHANGED due ELSE Scheduled(g)
    /\ UNCHANGED <<task, mail, session, stops, job, crashes, failures>>

WaitsForSchedule == task.state = "waiting" /\ task.scheduled

(* The check: a message is due unless newer work is there, the Task waits  *)
(* for a schedule, or the budget is spent.                                 *)
CheckSettles ==
    /\ job = Idle /\ due /\ gen.marker # gen.handled
    /\ \/ task.state \notin Unfinished
       \/ Superseded
       \/ WaitsForSchedule
    /\ gen' = Handled(gen, gen.marker)
    /\ due' = FALSE
    /\ UNCHANGED <<task, mail, session, stops, job, crashes, failures>>

CheckIsLate ==
    /\ job = Idle /\ due /\ gen.marker = gen.handled
    /\ due' = FALSE
    /\ UNCHANGED <<task, mail, gen, session, stops, job, crashes, failures>>

NeedsMessage ==
    /\ job = Idle /\ due /\ gen.marker # gen.handled
    /\ task.state \in Unfinished /\ ~Superseded /\ ~WaitsForSchedule

CheckGivesUp ==
    /\ NeedsMessage /\ gen.count >= MaxAttempts
    /\ task' = [task EXCEPT !.state = "error"]
    /\ due' = FALSE
    /\ job' = [kind |-> "settle", marker |-> gen.marker]
    /\ UNCHANGED <<mail, gen, session, stops, crashes, failures>>

Settle ==
    /\ job.kind = "settle"
    /\ gen' = Handled(gen, job.marker)
    /\ job' = Idle
    /\ UNCHANGED <<task, mail, session, stops, due, crashes, failures>>

CheckContinues ==
    /\ NeedsMessage /\ gen.count < MaxAttempts
    /\ mail' = Accepted(Continuation(task.state, gen.chain, gen.marker, gen.count + 1))
    /\ due' = FALSE
    /\ job' = [kind |-> "count", marker |-> gen.marker, attempt |-> gen.count + 1]
    /\ UNCHANGED <<task, gen, session, stops, crashes, failures>>

Count ==
    /\ job.kind = "count"
    /\ gen' = [Handled(gen, job.marker) EXCEPT
                  !.count = IF gen.marker = job.marker THEN job.attempt ELSE @]
    /\ job' = Idle
    /\ UNCHANGED <<task, mail, session, stops, due, crashes, failures>>
-----------------------------------------------------------------------------
(* The delivery of the first open message.  A queued one makes the Task in *)
(* progress; all but a continuation open a chain, whose budget is full and *)
(* to which no earlier marker belongs.                                     *)
Delivers(step) ==
    /\ job.kind = "deliver" /\ job.step = step

BeginDelivery ==
    /\ job = Idle /\ Next1 # 0 /\ Deliverable(mail[Next1])
    /\ job' = [kind |-> "deliver", id |-> mail[Next1].id,
               step |-> IF mail[Next1].status = "delivering" THEN "send"
                        ELSE IF IsContinuation(mail[Next1].id) THEN "state" ELSE "chain"]
    /\ UNCHANGED <<task, mail, gen, session, stops, due, crashes, failures>>

Chained(g, id) == [g EXCEPT !.chain = id, !.count = 0, !.handled = g.marker]

OpensChain ==
    /\ Delivers("chain")
    /\ gen' = Chained(gen, job.id)
    /\ job' = [job EXCEPT !.step = "state"]
    /\ UNCHANGED <<task, mail, session, stops, due, crashes, failures>>

(* Mutant of SetsInProgress: every message refills the budget.             *)
SetsAndRefills ==
    /\ Delivers("state")
    /\ task' = [task EXCEPT !.state = "in_progress"]
    /\ gen' = [gen EXCEPT !.count = 0]
    /\ job' = [job EXCEPT !.step = "send"]
    /\ UNCHANGED <<mail, session, stops, due, crashes, failures>>

SetsInProgress ==
    /\ Delivers("state")
    /\ task' = [task EXCEPT !.state = "in_progress"]
    /\ job' = [job EXCEPT !.step = "send"]
    /\ UNCHANGED <<mail, gen, session, stops, due, crashes, failures>>

(* AgentHub takes an id once: it joins the open Turn or opens the next.    *)
Takes(id) ==
    IF id \in DOMAIN session.took THEN UNCHANGED session
    ELSE LET turn == IF session.state = "running" THEN session.turn ELSE session.turn + 1
         IN  /\ turn <= MaxTurns
             /\ session' = [session EXCEPT !.state = "running", !.turn = turn,
                               !.took = [x \in DOMAIN @ \cup {id} |-> IF x = id THEN turn ELSE @[x]]]

(* The answer tells the Turn; without one the message stays in delivery.   *)
SendAnswered ==
    /\ Delivers("send") /\ session.state \in {"ready", "running"} /\ Takes(job.id)
    /\ mail' = [mail EXCEPT ![Place(job.id)].status = "delivered",
                            ![Place(job.id)].turn = session'.took[job.id]]
    /\ gen' = [gen EXCEPT !.turn = IF session'.state = "running" THEN session'.turn ELSE 0]
    /\ job' = Idle
    /\ UNCHANGED <<task, stops, due, crashes, failures>>

SendUnanswered ==
    /\ Delivers("send") /\ crashes + failures < MaxFaults
    /\ \/ UNCHANGED session
       \/ session.state \in {"ready", "running"} /\ Takes(job.id)
    /\ mail' = With(job.id, "status", "delivering")
    /\ failures' = failures + 1
    /\ job' = Idle
    /\ UNCHANGED <<task, gen, stops, due, crashes>>

(* The outcome of a delivery is never learnt: its generation is gone.      *)
GivesUp ==
    /\ job = Idle /\ Next1 # 0 /\ mail[Next1].status = "delivering"
    /\ mail' = [mail EXCEPT ![Next1].status = "unknown"]
    /\ UNCHANGED <<task, gen, session, stops, due, job, crashes, failures>>

(* Mail resumes the Session.  A Session that cannot be had is tried again; *)
(* after the last try the message ends and the Task is in error.           *)
Resume ==
    /\ job = Idle /\ Next1 # 0 /\ session.state = "stopped"
    /\ session' = [session EXCEPT !.state = "ready"]
    /\ UNCHANGED <<task, mail, gen, stops, due, job, crashes, failures>>

StartFails ==
    /\ job = Idle /\ Next1 # 0 /\ session.state = "stopped" /\ mail[Next1].status = "queued"
    /\ crashes + failures < MaxFaults
    /\ failures' = failures + 1
    /\ LET spent == mail[Next1].fails + 1 >= MaxAttempts
       IN  /\ mail' = [mail EXCEPT ![Next1].fails = @ + 1,
                                   ![Next1].status = IF spent THEN "undeliverable" ELSE @]
           /\ job' = IF spent THEN [kind |-> "error"] ELSE Idle
    /\ UNCHANGED <<task, gen, session, stops, due, crashes>>

StartFailed ==
    /\ job.kind = "error"
    /\ task' = [task EXCEPT !.state = "error"]
    /\ job' = Idle
    /\ UNCHANGED <<mail, gen, session, stops, due, crashes, failures>>
-----------------------------------------------------------------------------
(* The watchdog looks at an open Turn.  What it stopped, the message that  *)
(* resumes and the Turn that message opens are kept until that Turn ends;  *)
(* that Turn is not stopped a second time.                                 *)
Watch == gen.watch

Known(id) == Place(id) # 0 /\ mail[Place(id)].status = "delivered"

Resumed(w) ==
    IF w.turn # 0 /\ w.recovery = 0 /\ Known(Recovery(w.turn))
    THEN [w EXCEPT !.recovery = mail[Place(Recovery(w.turn))].turn] ELSE w

Over(w) ==
    \/ /\ w.turn # 0 /\ Place(Recovery(w.turn)) # 0
       /\ mail[Place(Recovery(w.turn))].status \in {"cancelled", "undeliverable", "unknown"}
    \/ w.recovery # 0 /\ session.state # "running"

Advanced(w) == IF Over(Resumed(w)) THEN NoWatch ELSE Resumed(w)

Judged(w) ==
    IF w.turn = 0 \/ w.exhausted \/ session.state # "running" THEN w
    ELSE IF w.recovery = 0 THEN IF w.turn = session.turn THEN w ELSE [w EXCEPT !.recovery = session.turn]
    ELSE IF w.recovery # session.turn THEN NoWatch
    ELSE [w EXCEPT !.exhausted = session.stalled]

WatchdogLooks ==
    /\ job = Idle
    /\ gen' = [gen EXCEPT !.watch = Judged(Advanced(Watch))]
    /\ gen' # gen
    /\ UNCHANGED <<task, mail, session, stops, due, job, crashes, failures>>

(* Recovery: the message is accepted, the request is recorded, and only    *)
(* then the Session is stopped, once, whatever comes of it.                *)
WatchdogStarts ==
    /\ job = Idle /\ Advanced(Watch) = NoWatch
    /\ session.state = "running" /\ session.stalled
    /\ mail' = Accepted(Recovery(session.turn))
    /\ job' = [kind |-> "guard", turn |-> session.turn]
    /\ UNCHANGED <<task, gen, session, stops, due, crashes, failures>>

Guards ==
    /\ job.kind = "guard"
    /\ gen' = [gen EXCEPT !.watch = [NoWatch EXCEPT !.turn = job.turn]]
    /\ job' = [job EXCEPT !.kind = "stop"]
    /\ UNCHANGED <<task, mail, session, stops, due, crashes, failures>>

Stopped == IF session.turn = session.ended THEN [session EXCEPT !.state = "stopped"]
           ELSE [session EXCEPT !.state = "stopped", !.ended = session.turn, !.stalled = FALSE]

Stop ==
    /\ job.kind = "stop"
    /\ session' = Stopped
    /\ stops' = Append(stops, job.turn)
    /\ gen' = [gen EXCEPT !.turn = 0]
    /\ job' = Idle
    /\ UNCHANGED <<task, mail, due, crashes, failures>>

StopUnanswered ==
    /\ job.kind = "stop" /\ crashes + failures < MaxFaults
    /\ session' \in {session, Stopped}
    /\ stops' = Append(stops, job.turn)
    /\ failures' = failures + 1
    /\ job' = Idle
    /\ UNCHANGED <<task, mail, gen, due, crashes>>
-----------------------------------------------------------------------------
(* The process ends and is started again: the job and the queued check are *)
(* gone, and the recovery of the generation looks at its marker.           *)
Dies ==
    /\ crashes + failures < MaxFaults
    /\ crashes' = crashes + 1
    /\ job' = Idle
    /\ LET g == Observed(gen, IF session.state = "running" THEN gen.marker ELSE session.ended)
       IN  IF g.marker # g.handled /\ task.state \in Unfinished
           THEN gen' = g /\ due' = TRUE
           ELSE gen' = Handled(g, g.marker) /\ due' = FALSE
    /\ UNCHANGED <<task, mail, session, stops, failures>>

(* A file of the job cannot be written: the rest of it is not done, and    *)
(* nobody comes back to it but a restart or a later Turn.                  *)
JobFails ==
    /\ job.kind \notin {"none", "stop"} /\ crashes + failures < MaxFaults
    /\ failures' = failures + 1
    /\ job' = Idle
    /\ UNCHANGED <<task, mail, gen, session, stops, due, crashes>>

Check == CheckSettles \/ CheckIsLate \/ CheckGivesUp \/ Settle \/ CheckContinues \/ Count
Delivery == BeginDelivery \/ OpensChain \/ SetsInProgress \/ SendAnswered \/ SendUnanswered
            \/ GivesUp \/ Resume \/ StartFails \/ StartFailed
Watchdog == WatchdogLooks \/ WatchdogStarts \/ Guards \/ Stop \/ StopUnanswered
Others == Reschedule \/ EndTurn \/ TurnEnds \/ Stalls \/ Sleeps
          \/ (\E i \in Inputs, steer \in BOOLEAN : Accept(i, steer))
          \/ (\E state \in {"waiting", "paused"} : AgentSets(state))

TaskNext == Others \/ Observe \/ Check \/ Delivery \/ Watchdog \/ JobFails \/ Dies

TaskSpec == TaskInit /\ [][TaskNext]_taskVars
-----------------------------------------------------------------------------
(* The continuations of one chain of work stay within the budget: only a   *)
(* message accepted before a crash or a failed write goes uncounted.       *)
Budget ==
    \A chain \in {mail[i].id : i \in DOMAIN mail} :
        Cardinality({i \in DOMAIN mail : IsContinuation(mail[i].id) /\ mail[i].id[2] = chain})
            <= MaxAttempts + crashes + failures

(* Nothing runs, nothing waits and nothing remains to be looked at.        *)
Quiet == job = Idle /\ ~due /\ Next1 = 0 /\ session.state # "running" /\ gen.marker = session.ended

(* A Task in progress is never left with nothing that would drive it: the  *)
(* process may end between any two writes.  A failed write or a message    *)
(* that ended without an outcome does leave it so.                         *)
NotStranded ==
    Quiet /\ failures = 0 => task.state # "in_progress"

(* The watchdog asks at most once for the end of a Turn, over crashes and  *)
(* lost answers, and not before the message that resumes the Session is in *)
(* the mailbox.                                                            *)
StopsOnce ==
    /\ IsInjective(stops)
    /\ \A i \in DOMAIN stops : Place(Recovery(stops[i])) # 0

(* The work of a Task goes on by itself, within its budget, and a stalled  *)
(* Turn is stopped once, over crashes, lost answers and steers             *)
(* (task_state_runtime.go:144, resource_stall_watchdog.go:245).            *)
WorkKept == Budget /\ NotStranded /\ StopsOnce
=============================================================================
