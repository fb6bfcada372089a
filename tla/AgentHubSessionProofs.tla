------------------------ MODULE AgentHubSessionProofs ------------------------
(* What holds of AgentHubSession for any messages, calls and faults.       *)
EXTENDS AgentHubSession, SequenceTheorems, TLAPS

(* What was never appended is in no log, and what was has its Turn; a call *)
(* appends a message before it delivers it.                                *)
InputsOK ==
  /\ \A m \in Msgs : IF msgs[m].state = "none" THEN \A i \in DOMAIN log : log[i] # m
                     ELSE msgs[m].turn \in Msgs
  /\ job.pc = "input" => msgs[job.m].state = "none" /\ job.turn \in Msgs
  /\ job.pc \in {"open", "deliver", "ensure", "wait", "prompt", "accept"} =>
       msgs[job.m].state # "none" /\ job.turn = msgs[job.m].turn
  /\ job # Idle => \A m \in job.rest : msgs[m].state # "none"

(* A call that waits for a run, or acts on it, loses it when the run ends. *)
CallsOK ==
  /\ cut \/ stop # "idle" \/ resume \in {"own", "cur"} => run # NoRun
  /\ job # Idle => (job.held \in {"own", "cur"} => run # NoRun)

(* The end of a run is decided when its start is over, and it is not just  *)
(* some end when the start failed.                                         *)
EndingOK ==
  Finalizing(run) => /\ run.phase \in {"up", "failed", "missing"}
                     /\ run.phase # "up" =>
                          run.ending \in {"requested", "startup_error", "missing"}

TInv == TypeOK /\ InputsOK /\ CallsOK /\ EndingOK

-----------------------------------------------------------------------------
USE SessionAssumption

LEMMA RunFacts ==
  /\ \A r \in Run : /\ r # NoRun /\ r.turn \in Turns /\ r.opened \in BOOLEAN
                    /\ r.interrupted \in BOOLEAN /\ r.asked \in BOOLEAN
                    /\ r.closed \in BOOLEAN /\ r.work \in SUBSET Msgs
                    /\ r.reaped \in {"no", "ok", "err"}
                    /\ r.proc \in {"none", "alive", "gone", "stuck"}
                    /\ r.phase \in {"new", "spawned", "recorded", "up", "failed", "missing"}
                    /\ r.ending \in {"no", "requested", "startup_error", "missing", "other"}
  /\ NoRun.phase = "none"
BY DEF Run, NoRun

LEMMA JobFacts ==
  /\ \A j \in Job : /\ j # Idle /\ j.m \in Msgs /\ j.turn \in Turns
                    /\ j.rest \in SUBSET Msgs
                    /\ j.held \in {"none", "own", "cur", "ok", "err"}
                    /\ j.pc \in {"converge", "input", "open", "deliver", "ensure",
                                 "wait", "prompt", "accept"}
  /\ Idle.pc = "idle"
BY DEF Job, Idle

LEMMA SessionTypes ==
  ASSUME NEW ss \in Session
  PROVE  /\ \A st \in {"ready", "starting", "running", "stopping", "stopped"},
              reason \in Reasons : SetState(ss, st, reason) \in Session
         /\ \A t \in Turns : OpenTurn(ss, t) \in Session /\ CloseTurn(ss, t) \in Session
         /\ [ss EXCEPT !.open = TRUE] \in Session
         /\ [ss EXCEPT !.st = "archived"] \in Session
<1>1. ASSUME NEW st \in {"ready", "starting", "running", "stopping", "stopped"},
             NEW reason \in Reasons
      PROVE  SetState(ss, st, reason) \in Session
  BY DEF Session, SetState, Reasons
<1>2. ASSUME NEW t \in Turns PROVE OpenTurn(ss, t) \in Session /\ CloseTurn(ss, t) \in Session
  BY DEF Session, OpenTurn, CloseTurn, Turns
<1>3. [ss EXCEPT !.open = TRUE] \in Session /\ [ss EXCEPT !.st = "archived"] \in Session
  BY DEF Session
<1>4. QED  BY <1>1, <1>2, <1>3

LEMMA ClosedTypes ==
  ASSUME NEW r \in Run, NEW dies \in BOOLEAN
  PROVE  /\ Closed(r, dies) \in Run
         /\ Closed(r, dies).phase = r.phase /\ Closed(r, dies).asked = r.asked
         /\ Closed(r, dies).turn = r.turn /\ Closed(r, dies).closed
         /\ Closed(r, dies).ending = r.ending /\ Closed(r, dies).opened = r.opened
BY DEF Closed, Run

LEMMA SettleTypes ==
  ASSUME msgs \in [Msgs -> Message], NEW t, NEW verdict \in {"closed", "failed", "cancelled"}
  PROVE  SettleTurn(t, verdict) \in [Msgs -> Message]
BY DEF SettleTurn, Message, PendingStates, SettledStates

LEMMA RecordTypes ==
  ASSUME msgs \in [Msgs -> Message], NEW m \in Msgs,
         NEW state \in {"attempting", "pending", "accepted"},
         NEW n \in 0 .. MaxStartups + 1, NEW later \in BOOLEAN,
         Record(m, state, n, later)
  PROVE  msgs' \in [Msgs -> Message]
<1>1. [msgs[m] EXCEPT !.state = state, !.startups = n, !.later = later] \in Message
  BY DEF Message, PendingStates, SettledStates
<1>2. \/ msgs' = msgs
      \/ msgs' = [msgs EXCEPT ![m] = [@ EXCEPT !.state = state, !.startups = n,
                                               !.later = later]]
  BY DEF Record
<1>3. QED  BY <1>1, <1>2

LEMMA ConvergeTypes ==
  ASSUME sess \in Session, msgs \in [Msgs -> Message],
         NEW reason \in Reasons \union {"missing"}
  PROVE  ConvergedSession(reason) \in Session /\ ConvergedMessages(reason) \in [Msgs -> Message]
<1>1. ReasonOf(reason) \in Reasons
  BY DEF ReasonOf, Reasons
<1>2. ConvergedTurn(reason) \in Turns
  BY DEF ConvergedTurn, Session, Turns
<1>3. SetState(sess, "stopped", ReasonOf(reason)) \in Session
  BY <1>1, SessionTypes
<1>4. \A m \in Msgs : ConvergedMessage(m, reason) \in Message
  BY DEF ConvergedMessage, Message, PendingStates, SettledStates
<1>5. QED  BY <1>2, <1>3, <1>4 DEF ConvergedSession, ConvergedMessages, Session

LEMMA RunEdits ==
  ASSUME NEW r \in Run
  PROVE  /\ \A ph \in {"spawned", "recorded", "up", "failed", "missing"} :
              [r EXCEPT !.phase = ph] \in Run
         /\ \A t \in Turns : [r EXCEPT !.turn = t] \in Run
         /\ \A t \in Msgs : [r EXCEPT !.work = @ \union {t}] \in Run
         /\ \A t : [r EXCEPT !.work = @ \ {t}] \in Run
         /\ \A t : [r EXCEPT !.work = @ \ {t}, !.turn = NoTurn, !.interrupted = FALSE] \in Run
         /\ [r EXCEPT !.turn = NoTurn, !.interrupted = FALSE] \in Run
         /\ \A i \in BOOLEAN : [r EXCEPT !.interrupted = i] \in Run
         /\ [r EXCEPT !.asked = TRUE] \in Run
         /\ [r EXCEPT !.phase = "spawned", !.proc = "alive"] \in Run
         /\ [r EXCEPT !.proc = "gone", !.closed = TRUE] \in Run
<1>1. \A ph \in {"spawned", "recorded", "up", "failed", "missing"} :
        [r EXCEPT !.phase = ph] \in Run
  BY DEF Run
<1>2. \A t \in Turns : [r EXCEPT !.turn = t] \in Run
  BY DEF Run
<1>3. \A t \in Msgs : [r EXCEPT !.work = @ \union {t}] \in Run
  BY DEF Run
<1>4. \A t : [r EXCEPT !.work = @ \ {t}] \in Run
  BY DEF Run
<1>5. \A t : [r EXCEPT !.work = @ \ {t}, !.turn = NoTurn, !.interrupted = FALSE] \in Run
  BY DEF Run, Turns
<1>6. [r EXCEPT !.turn = NoTurn, !.interrupted = FALSE] \in Run
  BY DEF Run, Turns
<1>7. \A i \in BOOLEAN : [r EXCEPT !.interrupted = i] \in Run
  BY DEF Run
<1>8. [r EXCEPT !.asked = TRUE] \in Run
  BY DEF Run
<1>9. [r EXCEPT !.phase = "spawned", !.proc = "alive"] \in Run
  BY DEF Run
<1>10. [r EXCEPT !.proc = "gone", !.closed = TRUE] \in Run
  BY DEF Run
<1>11. QED  BY <1>1, <1>2, <1>3, <1>4, <1>5, <1>6, <1>7, <1>8, <1>9, <1>10

LEMMA NewRun ==
  ASSUME sess \in Session, CreateRun
  PROVE  /\ run' \in Run /\ run'.phase = "new" /\ run'.turn = sess.turn
         /\ run'.opened = (sess.turn # NoTurn) /\ run'.proc = "none"
         /\ ~run'.asked /\ ~run'.closed /\ ~run'.interrupted /\ run'.work = {}
         /\ run'.ending = "no"
         /\ sess' \in Session
<1>1. sess.turn \in Turns
  BY DEF Session
<1>2. sess' \in Session
  BY SessionTypes DEF CreateRun, Reasons
<1>3. QED  BY <1>1, <1>2 DEF CreateRun, Run

LEMMA JobEdits ==
  ASSUME NEW j \in Job
  PROVE  /\ \A pc \in {"open", "deliver", "ensure", "prompt", "accept"} :
              [j EXCEPT !.pc = pc] \in Job
         /\ \A h \in {"own", "cur", "ok", "err"} : [j EXCEPT !.pc = "wait", !.held = h] \in Job
         /\ \A h \in {"none", "own", "cur", "ok", "err"} : [j EXCEPT !.held = h] \in Job
BY DEF Job

LEMMA NewJobTypes ==
  ASSUME NEW pc \in {"converge", "input", "deliver"}, NEW m \in Msgs,
         NEW t \in Turns, NEW rest \in SUBSET Msgs
  PROVE  NewJob(pc, m, t, rest) \in Job
BY DEF NewJob, Job

LEMMA NextJobTypes ==
  ASSUME msgs \in [Msgs -> Message], NEW rest \in SUBSET Msgs, NextJob(rest)
  PROVE  job' = Idle \/ job' \in Job
<1>1. CASE rest = {} /\ job' = Idle
  BY <1>1
<1>2. CASE \E m \in rest : /\ FirstOf(m, rest)
                           /\ job' = NewJob("deliver", m, msgs[m].turn, rest \ {m})
  <2>1. PICK m \in rest : job' = NewJob("deliver", m, msgs[m].turn, rest \ {m})
    BY <1>2
  <2>2. m \in Msgs /\ msgs[m].turn \in Turns
    BY DEF Message
  <2>3. QED  BY <2>1, <2>2, NewJobTypes
<1>3. QED  BY <1>1, <1>2 DEF NextJob

LEMMA DecisionTypes ==
  ASSUME msgs \in [Msgs -> Message], NEW ss \in Session, NEW m \in Msgs
  PROVE  Decision(ss, m) = Idle \/ Decision(ss, m) \in Job
<1>1. msgs[m].turn \in Turns /\ ss.turn \in Turns /\ m \in Turns /\ {} \in SUBSET Msgs
  BY DEF Message, Session, Turns
<1>2. /\ NewJob("deliver", m, msgs[m].turn, {}) \in Job
      /\ NewJob("input", m, m, {}) \in Job /\ NewJob("input", m, ss.turn, {}) \in Job
  BY <1>1, NewJobTypes
<1>3. QED  BY <1>2 DEF Decision

LEMMA KillsTypes ==
  ASSUME faults \in 0 .. MaxFaults, NEW r, NEW dies \in Kills(r), Count(dies)
  PROVE  dies \in BOOLEAN /\ faults' \in 0 .. MaxFaults
<1>1. dies = TRUE \/ (dies = FALSE /\ faults < MaxFaults)
  BY DEF Kills
<1>2. CASE dies = TRUE
  <2>1. faults' = faults
    BY <1>2 DEF Count
  <2>2. QED  BY <1>2, <2>1
<1>3. CASE dies = FALSE /\ faults < MaxFaults
  <2>1. faults' = faults + 1
    BY <1>3 DEF Count
  <2>2. faults' \in 0 .. MaxFaults
    BY <1>3, <2>1
  <2>3. QED  BY <1>3, <2>2, Zenon
<1>4. QED  BY <1>1, <1>2, <1>3

(* The end of a run leaves the calls that wait for it with an answer.      *)
LEMMA ConvergeActiveTypes ==
  ASSUME TypeOK, ConvergeActive
  PROVE  TypeOK'
<1>0. run \in Run
  BY DEF ConvergeActive, Finalizing, TypeOK
<1>1. run.ending \in Reasons \union {"missing"}
  BY <1>0, RunFacts DEF ConvergeActive, Finalizing, Reasons
<1>2. sess' \in Session /\ msgs' \in [Msgs -> Message] /\ log' = log
  BY <1>1, ConvergeTypes DEF ConvergeActive, Converge, TypeOK
<1>3. \A h \in {"none", "own", "cur", "ok", "err"} :
         Released(h, run) \in {"none", "own", "cur", "ok", "err"}
  BY DEF Released
<1>4. job' = Idle \/ job' \in Job
  <2>1. CASE job = Idle
    BY <2>1 DEF ConvergeActive
  <2>2. CASE job # Idle
    <3>1. job \in Job
      BY <2>2 DEF TypeOK
    <3>2. job' = [job EXCEPT !.held = Released(job.held, run)]
      BY <2>2 DEF ConvergeActive
    <3>3. Released(job.held, run) \in {"none", "own", "cur", "ok", "err"}
      BY <1>3, <3>1, JobFacts
    <3>4. QED  BY <3>1, <3>2, <3>3, JobEdits
  <2>3. QED  BY <2>1, <2>2
<1>5. outrun' \in BOOLEAN
  BY <1>0, RunFacts DEF ConvergeActive, TypeOK
<1>6. run' = NoRun /\ strays' \subseteq {"recorded", "unrecorded", "stuck", "aborted", "spared"}
  BY DEF ConvergeActive, Outlives, TypeOK
<1>7. resume' \in {"none", "own", "cur", "ok", "err"} /\ stop' = "idle" /\ cut' = FALSE
  BY <1>3 DEF ConvergeActive, TypeOK
<1>8. QED
  BY <1>2, <1>4, <1>5, <1>6, <1>7 DEF ConvergeActive, TypeOK

(* Whoever ends a run only decides what its end is called: the run stays,  *)
(* and nobody who waits for it is told yet.                                *)
Finalizes == StartAborted \/ ProcessEnd \/ StopConverges

LEMMA OutcomeTypes ==
  \A r : Outcome(r) \in {"requested", "startup_error", "missing", "other"}
BY DEF Outcome

LEMMA FinalizeFacts ==
  ASSUME TypeOK, CallsOK, Finalizes
  PROVE  /\ run \in Run /\ run' \in Run /\ run.ending = "no" /\ run'.ending = Outcome(run)
         /\ run'.phase = run.phase /\ run.phase \in {"up", "failed", "missing"}
         /\ run'.asked = run.asked /\ run'.turn = run.turn /\ run'.opened = run.opened
         /\ faults' \in 0 .. MaxFaults
         /\ UNCHANGED <<durable, calls, strays, history>>
         /\ \E r \in Run : /\ run' = [r EXCEPT !.ending = Outcome(run)]
                           /\ r = run \/ \E dies \in BOOLEAN : r = Closed(run, dies)
<1>1. run \in Run /\ run # NoRun
  BY RunFacts DEF Finalizes, StartAborted, ProcessEnd, StopConverges, TypeOK, CallsOK
<1>2. PICK r : /\ Finalize(r) /\ faults' \in 0 .. MaxFaults
               /\ r = run \/ \E dies \in BOOLEAN : r = Closed(run, dies)
  <2>1. CASE StartAborted
    <3>1. PICK dies \in Kills(run) : Finalize(Closed(run, dies)) /\ Count(dies)
      BY <2>1 DEF StartAborted
    <3>2. dies \in BOOLEAN /\ faults' \in 0 .. MaxFaults
      BY <3>1, KillsTypes DEF TypeOK
    <3>3. QED  BY <3>1, <3>2
  <2>2. CASE ProcessEnd
    BY <2>2 DEF ProcessEnd, world, TypeOK
  <2>3. CASE StopConverges
    BY <2>3 DEF StopConverges, world, TypeOK
  <2>4. QED  BY <2>1, <2>2, <2>3 DEF Finalizes
<1>3. /\ r \in Run /\ r.phase = run.phase /\ r.asked = run.asked /\ r.turn = run.turn
      /\ r.opened = run.opened
  BY <1>1, <1>2, ClosedTypes
<1>4. Outcome(r) = Outcome(run) /\ Outcome(run) \in {"requested", "startup_error", "missing", "other"}
  BY <1>3 DEF Outcome
<1>5. run' = [r EXCEPT !.ending = Outcome(run)] /\ run.ending = "no"
  BY <1>1, <1>2, <1>4 DEF Finalize, Finalizing
<1>6. /\ run' \in Run /\ run'.ending = Outcome(run)
      /\ run'.phase = run.phase /\ run'.asked = run.asked /\ run'.turn = run.turn
      /\ run'.opened = run.opened
  BY <1>3, <1>4, <1>5 DEF Run
<1>7. run.phase \in {"up", "failed", "missing"} /\ UNCHANGED <<durable, calls, strays, history>>
  BY DEF Finalizes, StartAborted, ProcessEnd, StopConverges, durable, calls, world, history
<1>8. QED  BY <1>1, <1>2, <1>3, <1>5, <1>6, <1>7

-----------------------------------------------------------------------------
(* Types.                                                                  *)

LEMMA InitTInv == Init => TInv
<1> SUFFICES ASSUME Init PROVE TInv
  OBVIOUS
<1>1. /\ [st |-> "ready", reason |-> "none", asked |-> FALSE, turn |-> NoTurn, open |-> FALSE]
           \in Session
      /\ [state |-> "none", turn |-> NoTurn, startups |-> 0, later |-> FALSE] \in Message
  BY DEF Session, Message, Turns, Reasons
<1>2. log \in Seq(Msgs) /\ DOMAIN log = {} /\ IsInjective(log)
  BY DEF Init, IsInjective
<1>3. TypeOK
  <2>1. tries \in [Msgs -> Nat] /\ msgs \in [Msgs -> Message] /\ sess \in Session
    BY <1>1 DEF Init
  <2>2. run \in Run \union {NoRun} /\ faults \in 0 .. MaxFaults
    BY DEF Init
  <2>3. QED  BY <1>2, <2>1, <2>2 DEF Init, TypeOK
<1>4. InputsOK
  BY <1>1, <1>2, JobFacts DEF Init, InputsOK
<1>5. CallsOK /\ EndingOK
  BY JobFacts DEF Init, CallsOK, EndingOK, Finalizing
<1>6. QED  BY <1>3, <1>4, <1>5 DEF TInv

LEMMA ProcessTypes ==
  ASSUME TypeOK, InputsOK, CallsOK, \/ Spawn \/ RecordProcess \/ HandshakeOk \/ StartFails
                 \/ Finalizes \/ ConvergeActive \/ ProviderExits \/ ProcessEndStuck \/ TurnDone \/ StrayExits
  PROVE  TypeOK'
<1> USE DEF TypeOK, durable, calls, world, history
<1>0. TypeOK /\ CallsOK /\ (run # NoRun => run \in Run)
  OBVIOUS
<1>1. CASE Spawn
  <2>1. run' \in Run
    BY <1>0, <1>1, RunEdits DEF Spawn
  <2>2. QED  BY <1>0, <1>1, <2>1 DEF Spawn
<1>2. CASE RecordProcess
  <2>1. run' \in Run /\ sess' \in Session
    BY <1>0, <1>2, RunEdits, SessionTypes DEF RecordProcess
  <2>2. QED  BY <1>0, <1>2, <2>1 DEF RecordProcess
<1>3. CASE HandshakeOk
  <2>1. run' \in Run
    BY <1>0, <1>3, RunEdits DEF HandshakeOk
  <2>2. sess' \in Session
    <3>1. \A st \in {"running", "ready"} : SetState(sess, st, "none") \in Session
      BY SessionTypes DEF Reasons
    <3>2. QED  BY <1>0, <1>3, <3>1 DEF HandshakeOk
  <2>3. tries' \in [Msgs -> Nat]
    BY <1>0, <1>3 DEF HandshakeOk
  <2>4. QED  BY <1>0, <1>3, <2>1, <2>2, <2>3 DEF HandshakeOk
<1>4. CASE StartFails
  <2>1. PICK why \in {"failed", "missing"}, dies \in BOOLEAN :
          /\ faults' = faults + (IF dies THEN 0 ELSE 1)
                              + (IF run.phase = "recorded" /\ run.closed THEN 0 ELSE 1)
          /\ faults' <= MaxFaults
          /\ run' = [(IF Adapter = "pi" /\ run.phase = "recorded" THEN Closed(run, dies)
                      ELSE run) EXCEPT !.phase = why]
    BY <1>0, <1>4 DEF StartFails
  <2>2. run' \in Run
    <3>1. run \in Run /\ Closed(run, dies) \in Run
      BY <1>0, <1>4, ClosedTypes DEF StartFails
    <3>2. QED  BY <2>1, <3>1, RunEdits
  <2>3. faults' \in 0 .. MaxFaults
    BY <2>1
  <2>4. QED  BY <1>0, <1>4, <2>2, <2>3 DEF StartFails
<1>5. CASE Finalizes
  BY <1>5, FinalizeFacts
<1>6. CASE ConvergeActive
  BY <1>6, ConvergeActiveTypes
<1>7. CASE ProviderExits
  <2>1. run' \in Run
    BY <1>0, <1>7, RunEdits DEF ProviderExits
  <2>2. QED  BY <1>0, <1>7, <2>1 DEF ProviderExits, Fault
<1>8. CASE ProcessEndStuck
  <2>1. run' \in Run /\ sess' \in Session
    BY <1>0, <1>8, ClosedTypes, SessionTypes DEF ProcessEndStuck, Reasons
  <2>2. faults' \in 0 .. MaxFaults
    BY <1>0, <1>8 DEF ProcessEndStuck, Fault
  <2>3. QED  BY <1>0, <1>8, <2>1, <2>2 DEF ProcessEndStuck
<1>9. CASE TurnDone
  <2>0. run \in Run /\ run.turn \in Turns
    BY <1>0, <1>9, RunFacts DEF TurnDone
  <2>1. PICK t \in run.work, verdict \in {"closed", "failed"} :
          IF run.turn = NoTurn \/ Finalizing(run)
          THEN run' = [run EXCEPT !.work = @ \ {t}] /\ UNCHANGED <<sess, msgs>>
          ELSE /\ run' = [run EXCEPT !.work = @ \ {t}, !.turn = NoTurn, !.interrupted = FALSE]
               /\ sess' = CloseTurn(sess, run.turn)
               /\ msgs' = SettleTurn(run.turn, IF run.interrupted THEN "cancelled" ELSE verdict)
    BY <1>0, <1>9 DEF TurnDone
  <2>2. run' \in Run
    <3>1. CASE run.turn = NoTurn \/ Finalizing(run)
      <4>1. run' = [run EXCEPT !.work = @ \ {t}]
        BY <2>1, <3>1
      <4>2. QED  BY <2>0, <4>1, RunEdits
    <3>2. CASE ~(run.turn = NoTurn \/ Finalizing(run))
      <4>1. run' = [run EXCEPT !.work = @ \ {t}, !.turn = NoTurn, !.interrupted = FALSE]
        BY <2>1, <3>2
      <4>2. QED  BY <2>0, <4>1, RunEdits
    <3>3. QED  BY <3>1, <3>2
  <2>3. sess' \in Session /\ msgs' \in [Msgs -> Message]
    <3>1. CloseTurn(sess, run.turn) \in Session
      BY <2>0, SessionTypes
    <3>2. SettleTurn(run.turn, IF run.interrupted THEN "cancelled" ELSE verdict)
            \in [Msgs -> Message]
      <4>1. (IF run.interrupted THEN "cancelled" ELSE verdict)
              \in {"closed", "failed", "cancelled"}
        OBVIOUS
      <4>2. QED  BY <4>1, SettleTypes
    <3>3. QED  BY <2>1, <3>1, <3>2
  <2>4. QED  BY <1>0, <1>9, <2>2, <2>3 DEF TurnDone
<1>10. CASE StrayExits
  BY <1>0, <1>10 DEF StrayExits
<1>11. QED
  BY <1>1, <1>2, <1>3, <1>4, <1>5, <1>6, <1>7, <1>8, <1>9, <1>10

LEMMA CallTypes ==
  ASSUME TypeOK, InputsOK, CallsOK, \/ StopBegins \/ StopCloses
                 \/ InterruptBegins \/ InterruptEnds \/ InterruptFails
                 \/ StartBegins \/ StartDelivers \/ Archive \/ Restart
                 \/ RetryFires \/ \E m \in Msgs : DelayPasses(m)
  PROVE  TypeOK'
<1> USE DEF TypeOK, durable, calls, world, history
<1>0. TypeOK /\ CallsOK /\ (run # NoRun => run \in Run)
  OBVIOUS
<1>1. CASE StopBegins
  <2>1. CASE run = NoRun
    <3>1. "requested" \in Reasons
      BY DEF Reasons
    <3>2. sess' \in Session /\ msgs' \in [Msgs -> Message]
      BY <1>0, <1>1, <2>1, <3>1, ConvergeTypes DEF StopBegins, Converge
    <3>3. QED  BY <1>0, <1>1, <2>1, <3>2 DEF StopBegins, Converge
  <2>2. CASE run # NoRun
    <3>1. run' \in Run /\ sess' \in Session
      BY <1>0, <1>1, <2>2, RunEdits, SessionTypes DEF StopBegins, Reasons
    <3>2. QED  BY <1>0, <1>1, <2>2, <3>1 DEF StopBegins
  <2>3. QED  BY <2>1, <2>2
<1>2. CASE StopCloses
  <2>1. PICK dies \in Kills(run) :
          /\ run' = Closed(run, dies)
          /\ stop' = IF Closed(run, dies).reaped = "ok" THEN "wait" ELSE "idle"
          /\ Count(dies)
    BY <1>0, <1>2 DEF StopCloses
  <2>2. dies \in BOOLEAN /\ faults' \in 0 .. MaxFaults
    BY <2>1, KillsTypes
  <2>3. run \in Run => run' \in Run
    BY <2>1, <2>2, ClosedTypes
  <2>4. stop' \in {"idle", "close", "wait"}
    BY <2>1
  <2>5. run' \in Run /\ UNCHANGED <<durable, job, cut, resume, retrying, strays, history>>
    BY <1>0, <1>2, <2>3 DEF StopCloses, CallsOK
  <2>6. QED  BY <2>2, <2>4, <2>5
<1>4. CASE InterruptBegins
  <2>1. run' \in Run
    BY <1>0, <1>4, RunEdits DEF InterruptBegins
  <2>2. QED  BY <1>0, <1>4, <2>1 DEF InterruptBegins
<1>5. CASE InterruptEnds
  <2>1. CASE run.turn # NoTurn /\ run.interrupted /\ ~Finalizing(run)
    <3>1. run # NoRun => run.turn \in Turns
      BY <1>0, RunFacts
    <3>2. run # NoRun
      BY <1>0, <1>5 DEF InterruptEnds, CallsOK
    <3>3. run.turn \in Turns
      BY <3>1, <3>2
    <3>4. QED
      <4>1. run' \in Run
        BY <1>0, <1>5, <2>1, <3>2, RunEdits DEF InterruptEnds
      <4>2. sess' \in Session
        <5>1. sess' = CloseTurn(sess, run.turn)
          BY <1>5, <2>1 DEF InterruptEnds
        <5>2. QED  BY <3>3, <5>1, SessionTypes
      <4>3. msgs' \in [Msgs -> Message]
        BY <1>0, <1>5, SettleTypes, <2>1 DEF InterruptEnds
      <4>4. QED  BY <1>0, <1>5, <4>1, <4>2, <4>3 DEF InterruptEnds
  <2>2. CASE ~(run.turn # NoTurn /\ run.interrupted /\ ~Finalizing(run))
    BY <1>0, <1>5, <2>2 DEF InterruptEnds
  <2>3. QED  BY <2>1, <2>2
<1>11. CASE RetryFires
  <2>1. job' = Idle \/ job' \in Job
    BY <1>0, <1>11, NextJobTypes DEF RetryFires, PendingMsgs
  <2>2. QED  BY <1>0, <1>11, <2>1 DEF RetryFires
<1>12. CASE \E m \in Msgs : DelayPasses(m)
  <2>1. PICK m \in Msgs : DelayPasses(m)
    BY <1>12
  <2>2. [msgs[m] EXCEPT !.later = FALSE] \in Message
    BY ZenonT(30) DEF Message
  <2>3. msgs' \in [Msgs -> Message]
    BY <2>1, <2>2 DEF DelayPasses
  <2>4. QED  BY <2>1, <2>3 DEF DelayPasses
<1>6. CASE InterruptFails
  <2>1. run # NoRun => run' \in Run
    BY <1>0, <1>6, RunEdits DEF InterruptFails
  <2>2. faults' \in 0 .. MaxFaults
    BY <1>0, <1>6 DEF InterruptFails, Fault
  <2>3. run' \in Run
    BY <1>0, <1>6, <2>1 DEF InterruptFails, CallsOK
  <2>4. QED  BY <1>6, <2>2, <2>3 DEF InterruptFails
<1>7. CASE StartBegins
  <2>1. CASE run = NoRun
    BY <1>0, <1>7, <2>1, NewRun DEF StartBegins
  <2>2. CASE run # NoRun
    BY <1>0, <1>7, <2>2 DEF StartBegins
  <2>3. QED  BY <2>1, <2>2
<1>8. CASE StartDelivers
  <2>1. PendingMsgs \in SUBSET Msgs
    BY DEF PendingMsgs
  <2>2. job' = Idle \/ job' \in Job
    BY <1>0, <1>8, <2>1, NextJobTypes DEF StartDelivers
  <2>3. QED  BY <1>0, <1>8, <2>2 DEF StartDelivers
<1>9. CASE Archive
  BY <1>0, <1>9, SessionTypes DEF Archive
<1>10. CASE Restart
  <2>1. \A s : sess' = ConvergedSession(s) /\ msgs' = ConvergedMessages(s)
                 /\ s \in Reasons => sess' \in Session /\ msgs' \in [Msgs -> Message]
    BY ConvergeTypes
  <2>2. RecoveryReason \in Reasons
    BY DEF RecoveryReason, Reasons
  <2>3. SetState(sess, "stopping", "none") \in Session
    BY SessionTypes DEF Reasons
  <2>4. sess' \in Session /\ msgs' \in [Msgs -> Message]
    BY <1>0, <1>10, <2>1, <2>2, <2>3 DEF Restart, Converge
  <2>5. retrying' \in BOOLEAN
    BY <1>0, <1>10 DEF Restart
  <2>6. faults' \in 0 .. MaxFaults
    <3>1. Fault \/ (faults + 2 <= MaxFaults /\ faults' = faults + 2)
      BY <1>10, Zenon DEF Restart
    <3>2. QED  BY <3>1 DEF Fault
  <2>7. strays' \subseteq {"recorded", "unrecorded", "stuck", "aborted", "spared"}
    <3>1. Orphaned(run) \subseteq {"recorded", "unrecorded"}
      BY DEF Orphaned
    <3>2. QED  BY <1>0, <1>10, <3>1 DEF Restart
  <2>8. log' = log
    BY <1>0, <1>10 DEF Restart, Converge
  <2>9. QED
    BY <1>0, <1>10, <2>4, <2>5, <2>6, <2>7, <2>8 DEF Restart
<1>20. QED
  BY <1>1, <1>2, <1>4, <1>5, <1>6, <1>7, <1>8, <1>9, <1>10, <1>11, <1>12

LEMMA InputTypes ==
  ASSUME TypeOK, InputsOK, CallsOK, \/ SendConverges \/ AppendInput \/ StartTurn \/ Deliver \/ Ensure
               \/ Started \/ PromptOk \/ PromptFails \/ AppendAccepted
               \/ \E m \in Msgs : SendMessage(m)
  PROVE  TypeOK'
<1> USE DEF TypeOK, durable, calls, world, history
<1>0. TypeOK /\ InputsOK /\ (run # NoRun => run \in Run) /\ (job.pc # "idle" => job \in Job)
  BY JobFacts
<1>12. 0 \in 0 .. MaxStartups + 1 /\ FALSE \in BOOLEAN
  OBVIOUS
<1>1. CASE SendConverges
  <2>1. job \in Job /\ job.m \in Msgs
    BY <1>0, <1>1, JobFacts DEF SendConverges
  <2>2. "requested" \in Reasons
    BY DEF Reasons
  <2>3. ConvergedSession("requested") \in Session
    BY <1>0, <2>2, ConvergeTypes
  <2>4. sess' \in Session /\ msgs' \in [Msgs -> Message]
    BY <1>0, <1>1, <2>2, ConvergeTypes DEF SendConverges, Converge
  <2>5. job' = Idle \/ job' \in Job
    BY <1>0, <1>1, <2>1, <2>3, DecisionTypes DEF SendConverges
  <2>6. QED  BY <1>0, <1>1, <2>4, <2>5 DEF SendConverges, Converge
<1>2. CASE AppendInput
  <2>1. job \in Job /\ job.m \in Msgs /\ job.turn \in Turns
    BY <1>0, <1>2, JobFacts DEF AppendInput
  <2>2. CASE sess.st = "archived"
    BY <1>0, <1>2, <2>2 DEF AppendInput
  <2>3. CASE sess.st # "archived"
    <3>1. [msgs[job.m] EXCEPT !.state = "new", !.turn = job.turn] \in Message
      BY ZenonT(30), <1>0, <2>1 DEF Message, PendingStates
    <3>2. msgs' \in [Msgs -> Message] /\ sess' = sess /\ wanted' = TRUE /\ log' = Append(log, job.m)
      BY <1>0, <1>2, <2>3, <3>1 DEF AppendInput
    <3>3. log' \in Seq(Msgs) /\ IsInjective(log')
      <4>1. \A i \in DOMAIN log : log[i] # job.m
        BY <1>0, <1>2, <2>1 DEF InputsOK, AppendInput
      <4>2. QED  BY <1>0, <2>1, <3>2, <4>1 DEF IsInjective
    <3>4. job' \in Job
      BY ZenonT(30), <1>2, <2>1, <2>3, JobEdits DEF AppendInput, GoTo
    <3>5. QED  BY <1>0, <1>2, <3>2, <3>3, <3>4 DEF AppendInput
  <2>4. QED  BY <2>2, <2>3
<1>3. CASE StartTurn
  <2>1. job \in Job /\ job.turn \in Turns
    BY <1>0, <1>3, JobFacts DEF StartTurn
  <2>2. job' = Idle \/ job' \in Job
    BY <1>3, <2>1, JobEdits DEF StartTurn, GoTo
  <2>3. sess' \in Session
    <3>1. sess' = sess \/ sess' = OpenTurn(sess, job.turn)
      BY <1>3 DEF StartTurn
    <3>2. OpenTurn(sess, job.turn) \in Session
      BY <2>1, SessionTypes
    <3>3. QED  BY <3>1, <3>2
  <2>4. QED  BY <1>0, <1>3, <2>2, <2>3 DEF StartTurn
<1>4. CASE Deliver
  <2>1. job \in Job /\ job.turn \in Turns /\ job.m \in Msgs
    BY <1>0, <1>4, JobFacts DEF Deliver
  <2>2. NextCount(job.m) \in 0 .. MaxStartups + 1
    BY <1>0, <2>1 DEF NextCount, Message
  <2>3. sess' \in Session
    <3>1. ConvergedSession("startup_error") \in Session /\ OpenTurn(sess, job.turn) \in Session
      BY <1>0, <2>1, SessionTypes, ConvergeTypes DEF Reasons
    <3>2. \/ sess' = sess \/ sess' = ConvergedSession("startup_error")
          \/ sess' = OpenTurn(sess, job.turn)
      BY <1>4 DEF Deliver
    <3>3. QED  BY <1>0, <3>1, <3>2
  <2>4. msgs' \in [Msgs -> Message]
    <3>1. \/ msgs' = msgs \/ msgs' = ConvergedMessages("startup_error")
          \/ Record(job.m, "attempting", NextCount(job.m), FALSE)
      BY <1>4 DEF Deliver
    <3>2. ConvergedMessages("startup_error") \in [Msgs -> Message]
      BY ConvergeTypes DEF Reasons
    <3>3. CASE Record(job.m, "attempting", NextCount(job.m), FALSE)
      BY <2>1, <2>2, <3>3, RecordTypes
    <3>4. QED  BY <3>1, <3>2, <3>3
  <2>5. job' = Idle \/ job' = [job EXCEPT !.pc = "ensure"]
    BY <1>4 DEF Deliver, Retry, GiveUp, GoTo
  <2>6. retrying' \in BOOLEAN
    BY <1>0, <1>4 DEF Deliver, Retry, GiveUp
  <2>7. job' = Idle \/ job' \in Job
    BY <2>1, <2>5, JobEdits
  <2>8. QED  BY <1>0, <1>4, <2>3, <2>4, <2>6, <2>7 DEF Deliver
<1>5. CASE Ensure
  <2>1. job \in Job /\ job.m \in Msgs
    BY <1>0, <1>5, JobFacts DEF Ensure
  <2>2. job' \in Job
    BY <1>5, <2>1, JobEdits DEF Ensure
  <2>3. tries' \in [Msgs -> Nat]
    BY SMTT(20), <1>0, <1>5, <2>1 DEF Ensure
  <2>4. sess' \in Session /\ run' \in Run \union {NoRun}
    BY <1>0, <1>5, NewRun DEF Ensure
  <2>5. QED  BY <1>0, <1>5, <2>2, <2>3, <2>4 DEF Ensure
<1>6. CASE Started
  <2>1. job \in Job /\ job.m \in Msgs /\ job.rest \in SUBSET Msgs /\ job.turn \in Turns
    BY <1>0, <1>6, JobFacts DEF Started
  <2>2. msgs' \in [Msgs -> Message]
    <3>1. msgs[job.m].startups \in 0 .. MaxStartups + 1
      BY <1>0, <2>1 DEF Message
    <3>2. \/ msgs' = msgs \/ Record(job.m, "pending", msgs[job.m].startups, TRUE)
          \/ Record(job.m, "attempting", 0, FALSE)
      BY <1>6 DEF Started
    <3>3. CASE Record(job.m, "pending", msgs[job.m].startups, TRUE)
      BY <2>1, <3>1, <3>3, RecordTypes
    <3>4. CASE Record(job.m, "attempting", 0, FALSE)
      BY <2>1, <1>12, <3>4, RecordTypes
    <3>5. QED  BY <3>2, <3>3, <3>4
  <2>3. job' = Idle \/ job' \in Job
    <3>1. NextJob(job.rest) \/ job' = Idle \/ job' = [job EXCEPT !.pc = "prompt"]
      BY <1>6 DEF Started, Done, GiveUp, Retry, GoTo
    <3>2. QED  BY <1>0, <2>1, <3>1, NextJobTypes, JobEdits
  <2>4. run' \in Run \union {NoRun}
    <3>1. run' = run \/ (job.held \in {"own", "cur"} /\ StartOk(job.held)
                         /\ run' = [run EXCEPT !.turn = job.turn])
      BY <1>6 DEF Started
    <3>2. job.held \in {"own", "cur"} => run \in Run
      BY <1>0, <2>1, JobFacts DEF CallsOK
    <3>3. job.held \in {"own", "cur"} => [run EXCEPT !.turn = job.turn] \in Run
      BY <2>1, <3>2, RunEdits
    <3>4. QED  BY <3>1, <3>3
  <2>5. retrying' \in BOOLEAN
    BY <1>0, <1>6 DEF Started, Done, GiveUp, Retry
  <2>6. QED  BY <1>0, <1>6, <2>2, <2>3, <2>4, <2>5 DEF Started
<1>7. CASE PromptOk
  <2>1. job \in Job /\ job.turn \in Msgs
    BY <1>0, <1>7, JobFacts DEF PromptOk, InputsOK
  <2>2. run # NoRun
    BY <1>7, <2>1, JobFacts DEF PromptOk, CanPrompt, CallsOK
  <2>3. run' \in Run /\ job' \in Job
    BY <1>0, <1>7, <2>1, <2>2, RunEdits, JobEdits DEF PromptOk, GoTo
  <2>4. QED  BY <1>0, <1>7, <2>3 DEF PromptOk
<1>8. CASE PromptFails
  <2>1. job.m \in Msgs
    BY <1>0, <1>8, JobFacts DEF PromptFails
  <2>2. msgs' \in [Msgs -> Message]
    <3>1. Record(job.m, "pending", 0, FALSE)
      BY <1>8 DEF PromptFails
    <3>2. QED  BY <1>12, <2>1, <3>1, RecordTypes
  <2>3. faults' \in 0 .. MaxFaults
    BY <1>0, <1>8 DEF PromptFails, Fault
  <2>4. QED  BY <1>0, <1>8, <2>2, <2>3 DEF PromptFails, Retry
<1>9. CASE AppendAccepted
  <2>1. job \in Job /\ job.m \in Msgs /\ job.rest \in SUBSET Msgs
    BY <1>0, <1>9, JobFacts DEF AppendAccepted
  <2>2. msgs' \in [Msgs -> Message]
    <3>1. Record(job.m, "accepted", 0, FALSE)
      BY <1>9 DEF AppendAccepted
    <3>2. QED  BY <1>12, <2>1, <3>1, RecordTypes
  <2>3. job' = Idle \/ job' \in Job
    BY <1>0, <1>9, <2>1, NextJobTypes DEF AppendAccepted, Done, Retry
  <2>4. retrying' \in BOOLEAN
    BY <1>0, <1>9 DEF AppendAccepted, Done, Retry
  <2>5. QED  BY <1>0, <1>9, <2>2, <2>3, <2>4 DEF AppendAccepted
<1>10. CASE \E m \in Msgs : SendMessage(m)
  <2>1. PICK m \in Msgs : SendMessage(m)
    BY <1>10
  <2>2. NewJob("converge", m, NoTurn, {}) \in Job
    BY NewJobTypes DEF Turns
  <2>3. job' = Idle \/ job' \in Job
    BY <1>0, <2>1, <2>2, DecisionTypes DEF SendMessage
  <2>4. QED  BY <1>0, <2>1, <2>3 DEF SendMessage
<1>11. QED
  BY <1>1, <1>2, <1>3, <1>4, <1>5, <1>6, <1>7, <1>8, <1>9, <1>10

-----------------------------------------------------------------------------
(* What a step other than AppendInput does to the messages and to the call *)
(* that holds the input lock.                                              *)

Keeps ==
  \A m \in Msgs : /\ msgs'[m].state = "none" <=> msgs[m].state = "none"
                  /\ msgs'[m].turn = msgs[m].turn
                  /\ msgs'[m].state \in PendingStates => Pending(m)

Told == {m \in Msgs : msgs[m].state # "none"}

JobMoves ==
  \/ job' = job \/ job' = Idle
  \/ \E S \in SUBSET Told : NextJob(S)
  \/ \E m \in Msgs, ss \in Session :
       job' \in {Decision(ss, m), NewJob("converge", m, NoTurn, {})}
  \/ /\ job.pc \in {"open", "deliver", "ensure", "wait", "prompt"}
     /\ \E pc \in {"deliver", "ensure", "wait", "prompt", "accept"},
           h \in {"none", "own", "cur", "ok", "err"} :
          job' = [job EXCEPT !.pc = pc, !.held = h]
  \/ job # Idle /\ \E h : job' = [job EXCEPT !.held = h]

LEMMA KeepsFacts ==
  ASSUME msgs \in [Msgs -> Message]
  PROVE  /\ UNCHANGED msgs => Keeps
         /\ \A t : \A verdict \in {"closed", "failed", "cancelled"} :
              msgs' = SettleTurn(t, verdict) => Keeps
         /\ \A reason : msgs' = ConvergedMessages(reason) => Keeps
         /\ \A m \in Msgs : \A n : Record(m, "attempting", n, FALSE) => Keeps
         /\ \A m \in Msgs : \A n, l : Record(m, "pending", n, l) => Keeps
         /\ \A m \in Msgs : \A n : Record(m, "accepted", n, FALSE) => Keeps
<1> USE DEF Keeps, Pending, PendingStates
<1>1. UNCHANGED msgs => Keeps
  OBVIOUS
<1>2. ASSUME NEW t, NEW verdict \in {"closed", "failed", "cancelled"},
             msgs' = SettleTurn(t, verdict)
      PROVE  Keeps
  BY <1>2 DEF SettleTurn, Message
<1>3. ASSUME NEW reason, msgs' = ConvergedMessages(reason) PROVE Keeps
  <2>1. CASE msgs' = msgs
    BY <2>1
  <2>2. CASE msgs' = [m \in Msgs |-> ConvergedMessage(m, reason)]
    <3>1. ASSUME NEW m \in Msgs
          PROVE  LET c == ConvergedMessage(m, reason)
                 IN /\ c.state = "none" <=> msgs[m].state = "none"
                    /\ c.turn = msgs[m].turn
                    /\ c.state \in PendingStates => Pending(m)
      BY DEF ConvergedMessage, Message
    <3>2. QED  BY <2>2, <3>1
  <2>3. QED  BY <1>3, <2>1, <2>2 DEF ConvergedMessages
<1>4. ASSUME NEW m \in Msgs, NEW n, NEW l, NEW st \in {"attempting", "pending", "accepted"},
             Record(m, st, n, l)
      PROVE  Keeps
  <2>1. CASE msgs' = msgs
    BY <2>1
  <2>2. CASE /\ Pending(m) \/ (msgs[m].state = "closed" /\ st = "accepted")
             /\ msgs' = [msgs EXCEPT ![m] = [@ EXCEPT !.state = st, !.startups = n, !.later = l]]
    BY <2>2 DEF Message
  <2>3. QED  BY <1>4, <2>1, <2>2 DEF Record
<1>5. QED  BY <1>1, <1>2, <1>3, <1>4

LEMMA ConvergeActiveMoves ==
  ASSUME TypeOK, ConvergeActive
  PROVE  Keeps /\ log' = log /\ JobMoves
BY KeepsFacts DEF ConvergeActive, Converge, ConvergedMessages, TypeOK, JobMoves

OtherSteps ==
  \/ ProcessSteps \/ ProviderExits \/ ProcessEndStuck \/ TurnDone \/ StrayExits
  \/ SendConverges \/ StartTurn \/ Deliver \/ Ensure
  \/ Started \/ PromptOk \/ PromptFails \/ AppendAccepted \/ RetryFires
  \/ \E m \in Msgs : SendMessage(m) \/ DelayPasses(m)
  \/ StopBegins \/ StopCloses \/ StopConverges
  \/ InterruptBegins \/ InterruptEnds \/ InterruptFails
  \/ StartBegins \/ StartDelivers \/ Archive \/ Restart

LEMMA StepMoves ==
  ASSUME TypeOK, InputsOK, CallsOK, OtherSteps
  PROVE  Keeps /\ log' = log /\ JobMoves
<1> USE DEF TypeOK, durable, calls, world, history
<1>1. CASE \/ Spawn \/ RecordProcess \/ HandshakeOk \/ StartFails \/ ProviderExits
           \/ ProcessEndStuck \/ StrayExits \/ StopCloses \/ InterruptBegins
           \/ InterruptFails \/ StartBegins \/ Archive
  BY <1>1, KeepsFacts
     DEF Spawn, RecordProcess, HandshakeOk, StartFails, ProviderExits, ProcessEndStuck,
         StrayExits, StopCloses, InterruptBegins, InterruptFails, StartBegins, Archive,
         JobMoves
<1>2. CASE Finalizes
  BY <1>2, FinalizeFacts, KeepsFacts DEF JobMoves
<1>16. CASE ConvergeActive
  BY <1>16, ConvergeActiveMoves
<1>3. CASE TurnDone
  <2>1. (IF run.interrupted THEN "cancelled" ELSE "closed") \in {"closed", "failed", "cancelled"}
        /\ (IF run.interrupted THEN "cancelled" ELSE "failed") \in {"closed", "failed", "cancelled"}
    OBVIOUS
  <2>2. \/ msgs' = msgs
        \/ \E v \in {"closed", "failed", "cancelled"} : msgs' = SettleTurn(run.turn, v)
    BY <1>3 DEF TurnDone
  <2>3. QED  BY <1>3, <2>2, KeepsFacts DEF TurnDone, JobMoves
<1>4. CASE InterruptEnds
  <2>1. msgs' = msgs \/ msgs' = SettleTurn(run.turn, "cancelled")
    BY <1>4 DEF InterruptEnds
  <2>2. QED  BY <1>4, <2>1, KeepsFacts DEF InterruptEnds, JobMoves
<1>5. CASE StopBegins
  <2>1. (msgs' = msgs \/ msgs' = ConvergedMessages("requested")) /\ log' = log /\ job' = job
    BY <1>5 DEF StopBegins, Converge
  <2>2. QED  BY <2>1, KeepsFacts DEF JobMoves
<1>6. CASE Restart
  <2>1. (msgs' = msgs \/ msgs' = ConvergedMessages(RecoveryReason)) /\ log' = log /\ job' = Idle
    BY <1>6 DEF Restart, Converge
  <2>2. QED  BY <2>1, KeepsFacts DEF JobMoves
<1>7. CASE RetryFires \/ StartDelivers
  <2>1. PendingMsgs \in SUBSET Told
    BY DEF PendingMsgs, Told, Pending, PendingStates
  <2>2. msgs' = msgs /\ log' = log /\ (job' = job \/ job' = Idle \/ NextJob(PendingMsgs))
    BY <1>7 DEF RetryFires, StartDelivers
  <2>3. QED  BY <2>1, <2>2, KeepsFacts DEF JobMoves
<1>8. CASE \E m \in Msgs : DelayPasses(m)
  <2>1. PICK m \in Msgs : DelayPasses(m)
    BY <1>8
  <2>2. Keeps
    BY <2>1 DEF DelayPasses, Keeps, Pending, Message
  <2>3. QED  BY <2>1, <2>2 DEF DelayPasses, JobMoves
<1>9. CASE \E m \in Msgs : SendMessage(m)
  <2>1. PICK m \in Msgs : SendMessage(m)
    BY <1>9
  <2>2. JobMoves
    BY <2>1 DEF SendMessage, JobMoves
  <2>3. QED  BY <2>1, <2>2, KeepsFacts DEF SendMessage
<1>10. CASE SendConverges
  <2>1. job.m \in Msgs /\ ConvergedSession("requested") \in Session
    BY <1>10, JobFacts, ConvergeTypes DEF SendConverges, Reasons
  <2>2. JobMoves
    BY <1>10, <2>1 DEF SendConverges, JobMoves
  <2>3. QED  BY <1>10, <2>2, KeepsFacts DEF SendConverges, Converge
<1>11. CASE StartTurn \/ Ensure \/ PromptOk
  <2>1. job \in Job /\ job.pc \in {"open", "ensure", "prompt"} /\ msgs' = msgs /\ log' = log
    BY <1>11, JobFacts DEF StartTurn, Ensure, PromptOk
  <2>2. \/ job' = Idle \/ job' = [job EXCEPT !.pc = "deliver"]
        \/ \E h \in {"own", "cur", "err"} : job' = [job EXCEPT !.pc = "wait", !.held = h]
        \/ job' = [job EXCEPT !.pc = "accept"]
    BY <1>11 DEF StartTurn, Ensure, PromptOk, GoTo
  <2>3. [job EXCEPT !.pc = "deliver"] = [job EXCEPT !.pc = "deliver", !.held = job.held]
        /\ [job EXCEPT !.pc = "accept"] = [job EXCEPT !.pc = "accept", !.held = job.held]
        /\ job.held \in {"none", "own", "cur", "ok", "err"}
    BY <2>1, JobFacts DEF Job
  <2>4. JobMoves
    BY <2>1, <2>2, <2>3 DEF JobMoves
  <2>5. QED  BY <2>1, <2>4, KeepsFacts
<1>12. CASE Deliver
  <2>1. job \in Job /\ job.pc = "deliver" /\ job.m \in Msgs /\ log' = log
    BY <1>12, JobFacts DEF Deliver
  <2>2. job' = Idle \/ job' = [job EXCEPT !.pc = "ensure"]
    BY <1>12 DEF Deliver, Retry, GiveUp, GoTo
  <2>3. [job EXCEPT !.pc = "ensure"] = [job EXCEPT !.pc = "ensure", !.held = job.held]
        /\ job.held \in {"none", "own", "cur", "ok", "err"}
    BY <2>1, JobFacts DEF Job
  <2>4. JobMoves
    BY <2>1, <2>2, <2>3 DEF JobMoves
  <2>5. \/ msgs' = msgs \/ msgs' = ConvergedMessages("startup_error")
        \/ Record(job.m, "attempting", NextCount(job.m), FALSE)
    BY <1>12 DEF Deliver
  <2>6. QED  BY <2>1, <2>4, <2>5, KeepsFacts
<1>13. CASE Started
  <2>1. job \in Job /\ job.pc = "wait" /\ job.m \in Msgs /\ log' = log
    BY <1>13, JobFacts DEF Started
  <2>2. NextJob(job.rest) \/ job' = Idle \/ job' = [job EXCEPT !.pc = "prompt"]
    BY <1>13 DEF Started, Done, GiveUp, Retry, GoTo
  <2>3. [job EXCEPT !.pc = "prompt"] = [job EXCEPT !.pc = "prompt", !.held = job.held]
        /\ job.held \in {"none", "own", "cur", "ok", "err"}
    BY <2>1, JobFacts DEF Job
  <2>4. job.rest \in SUBSET Told
    BY <2>1, JobFacts DEF InputsOK, Told
  <2>5. JobMoves
    BY <2>1, <2>2, <2>3, <2>4 DEF JobMoves
  <2>6. \/ msgs' = msgs \/ Record(job.m, "pending", msgs[job.m].startups, TRUE)
        \/ Record(job.m, "attempting", 0, FALSE)
    BY <1>13 DEF Started
  <2>7. QED  BY <2>1, <2>5, <2>6, KeepsFacts
<1>14. CASE PromptFails \/ AppendAccepted
  <2>1. job \in Job /\ job.m \in Msgs /\ log' = log
    BY <1>14, JobFacts DEF PromptFails, AppendAccepted
  <2>2. NextJob(job.rest) \/ job' = Idle
    BY <1>14 DEF PromptFails, AppendAccepted, Done, Retry
  <2>3. job.rest \in SUBSET Told
    BY <2>1, JobFacts DEF InputsOK, Told
  <2>4. JobMoves
    BY <2>2, <2>3 DEF JobMoves
  <2>5. Record(job.m, "pending", 0, FALSE) \/ Record(job.m, "accepted", 0, FALSE)
    BY <1>14 DEF PromptFails, AppendAccepted
  <2>6. QED  BY <2>1, <2>4, <2>5, KeepsFacts
<1>15. QED
  BY <1>1, <1>2, <1>3, <1>4, <1>5, <1>6, <1>7, <1>8, <1>9, <1>10, <1>11, <1>12,
     <1>13, <1>14, <1>16 DEF OtherSteps, ProcessSteps, Finalizes

LEMMA JobMovesInputs ==
  ASSUME TypeOK, InputsOK, TypeOK', Keeps, log' = log, JobMoves
  PROVE  InputsOK'
<1>0. /\ msgs \in [Msgs -> Message] /\ msgs' \in [Msgs -> Message]
      /\ \A m \in Msgs : /\ msgs'[m].state = "none" <=> msgs[m].state = "none"
                         /\ msgs'[m].turn = msgs[m].turn
  BY DEF TypeOK, Keeps
<1>1. \A m \in Msgs : IF msgs'[m].state = "none" THEN \A i \in DOMAIN log' : log'[i] # m
                      ELSE msgs'[m].turn \in Msgs
  BY <1>0 DEF InputsOK
<1>2. CASE job' = job \/ job' = Idle
  <2>1. CASE job' = Idle
    BY <1>1, <2>1, JobFacts DEF InputsOK
  <2>2. CASE job' = job /\ job \in Job
    BY <1>0, <1>1, <2>2, JobFacts DEF InputsOK
  <2>3. QED  BY <1>2, <2>1, <2>2 DEF TypeOK
<1>3. CASE \E S \in SUBSET Told : NextJob(S)
  <2>1. PICK S \in SUBSET Told : NextJob(S)
    BY <1>3
  <2>2. CASE job' = Idle
    BY <1>1, <2>2, JobFacts DEF InputsOK
  <2>3. CASE \E m \in S : job' = NewJob("deliver", m, msgs[m].turn, S \ {m})
    <3>1. PICK m \in S : job' = NewJob("deliver", m, msgs[m].turn, S \ {m})
      BY <2>3
    <3>2. /\ job'.pc = "deliver" /\ job'.m = m /\ job'.turn = msgs[m].turn
          /\ job'.rest = S \ {m} /\ m \in Told
      BY <3>1 DEF NewJob
    <3>3. QED  BY <1>0, <1>1, <3>2 DEF InputsOK, Told
  <2>4. QED  BY <2>1, <2>2, <2>3 DEF NextJob
<1>4. CASE \E m \in Msgs, ss \in Session :
              job' \in {Decision(ss, m), NewJob("converge", m, NoTurn, {})}
  <2>1. PICK m \in Msgs, ss \in Session :
               job' \in {Decision(ss, m), NewJob("converge", m, NoTurn, {})}
    BY <1>4
  <2>2. \/ job' = Idle \/ job' = NewJob("converge", m, NoTurn, {})
        \/ msgs[m].state # "none" /\ job' = NewJob("deliver", m, msgs[m].turn, {})
        \/ msgs[m].state = "none" /\ job' = NewJob("input", m, m, {})
        \/ /\ msgs[m].state = "none" /\ ss.turn \in Msgs
           /\ job' = NewJob("input", m, ss.turn, {})
    BY <2>1 DEF Decision, Pending, PendingStates, Session, Turns
  <2>3. QED  BY <1>0, <1>1, <2>2, JobFacts DEF InputsOK, NewJob
<1>5. CASE /\ job.pc \in {"open", "deliver", "ensure", "wait", "prompt"}
           /\ \E pc \in {"deliver", "ensure", "wait", "prompt", "accept"},
                 h \in {"none", "own", "cur", "ok", "err"} :
                job' = [job EXCEPT !.pc = pc, !.held = h]
  <2>1. job \in Job
    BY <1>5, JobFacts DEF TypeOK
  <2>2. /\ job'.pc \in {"deliver", "ensure", "wait", "prompt", "accept"}
        /\ job'.m = job.m /\ job'.turn = job.turn /\ job'.rest = job.rest
    BY <1>5, <2>1 DEF Job
  <2>3. QED  BY <1>0, <1>1, <1>5, <2>1, <2>2, JobFacts DEF InputsOK
<1>6. CASE job # Idle /\ \E h : job' = [job EXCEPT !.held = h]
  <2>1. job \in Job
    BY <1>6 DEF TypeOK
  <2>2. job'.pc = job.pc /\ job'.m = job.m /\ job'.turn = job.turn /\ job'.rest = job.rest
    BY <1>6, <2>1 DEF Job
  <2>3. QED  BY <1>0, <1>1, <1>6, <2>1, <2>2, JobFacts DEF InputsOK
<1>7. QED  BY <1>2, <1>3, <1>4, <1>5, <1>6 DEF JobMoves

LEMMA AppendInputInputs ==
  ASSUME TypeOK, InputsOK, AppendInput
  PROVE  InputsOK'
<1>1. job \in Job /\ job.m \in Msgs /\ job.pc = "input" /\ job.turn \in Msgs
  BY JobFacts DEF AppendInput, TypeOK, InputsOK
<1>2. CASE sess.st = "archived"
  BY <1>2, JobFacts DEF AppendInput, InputsOK, durable
<1>3. CASE sess.st # "archived"
  <2>1. /\ msgs' = [msgs EXCEPT ![job.m] = [@ EXCEPT !.state = "new", !.turn = job.turn]]
        /\ log' = Append(log, job.m)
    BY <1>3 DEF AppendInput
  <2>2. \E pc \in {"open", "deliver"} : job' = [job EXCEPT !.pc = pc]
    BY <1>3 DEF AppendInput, GoTo
  <2>3. /\ msgs'[job.m].state = "new" /\ msgs'[job.m].turn = job.turn
        /\ \A m \in Msgs \ {job.m} : msgs'[m] = msgs[m]
    BY <1>1, <2>1 DEF TypeOK, Message
  <2>4. \A i \in DOMAIN log' : (i \in DOMAIN log /\ log'[i] = log[i]) \/ log'[i] = job.m
    BY <1>1, <2>1 DEF TypeOK
  <2>5. job'.pc \in {"open", "deliver"} /\ job'.m = job.m /\ job'.turn = job.turn
        /\ job'.rest = job.rest
    BY <1>1, <2>2 DEF Job
  <2>6. \A m \in Msgs : IF msgs'[m].state = "none" THEN \A i \in DOMAIN log' : log'[i] # m
                        ELSE msgs'[m].turn \in Msgs
    BY <1>1, <2>3, <2>4 DEF InputsOK
  <2>7. job' # Idle => \A m \in job'.rest : msgs'[m].state # "none"
    BY <1>1, <2>3, <2>5, JobFacts DEF InputsOK
  <2>8. QED  BY <2>3, <2>5, <2>6, <2>7 DEF InputsOK
<1>4. QED  BY <1>2, <1>3

(* A step that keeps the run it finds, and who waits for it.               *)
Stays == run \in Run /\ run' \in Run

LEMMA StaysFacts ==
  ASSUME TypeOK, InputsOK, CallsOK,
         \/ Spawn \/ RecordProcess \/ HandshakeOk \/ StartFails \/ ProviderExits
         \/ ProcessEndStuck \/ TurnDone \/ StopCloses \/ InterruptBegins
         \/ InterruptEnds \/ InterruptFails \/ PromptOk \/ Finalizes
  PROVE  Stays
<1>0. run # NoRun => run \in Run
  BY DEF TypeOK
<1>1. CASE Spawn \/ RecordProcess \/ HandshakeOk \/ ProviderExits \/ InterruptBegins
  BY <1>0, <1>1, RunEdits
     DEF Spawn, RecordProcess, HandshakeOk, ProviderExits, InterruptBegins, Stays
<1>2. CASE StartFails
  <2>1. run \in Run /\ \A dies \in BOOLEAN : Closed(run, dies) \in Run
    BY <1>0, <1>2, ClosedTypes DEF StartFails
  <2>2. PICK why \in {"failed", "missing"}, dies \in BOOLEAN :
          run' = [(IF Adapter = "pi" /\ run.phase = "recorded" THEN Closed(run, dies)
                   ELSE run) EXCEPT !.phase = why]
    BY <1>2 DEF StartFails
  <2>3. QED  BY <2>1, <2>2, RunEdits DEF Stays
<1>3. CASE ProcessEndStuck \/ StopCloses
  <2>1. run \in Run
    BY <1>0, <1>3 DEF ProcessEndStuck, StopCloses, CallsOK
  <2>2. \E dies \in BOOLEAN : run' = Closed(run, dies)
    BY <1>3, KillsTypes DEF ProcessEndStuck, StopCloses, TypeOK
  <2>3. QED  BY <2>1, <2>2, ClosedTypes DEF Stays
<1>4. CASE TurnDone \/ InterruptEnds \/ InterruptFails
  <2>1. run \in Run
    BY <1>0, <1>4 DEF TurnDone, InterruptEnds, InterruptFails, CallsOK
  <2>2. \/ run' = run
        \/ \E t : run' = [run EXCEPT !.work = @ \ {t}]
        \/ \E t : run' = [run EXCEPT !.work = @ \ {t}, !.turn = NoTurn, !.interrupted = FALSE]
        \/ run' = [run EXCEPT !.turn = NoTurn, !.interrupted = FALSE]
        \/ run' = [run EXCEPT !.interrupted = FALSE]
    BY <1>4 DEF TurnDone, InterruptEnds, InterruptFails
  <2>3. /\ \A t : /\ [run EXCEPT !.work = @ \ {t}] \in Run
                  /\ [run EXCEPT !.work = @ \ {t}, !.turn = NoTurn, !.interrupted = FALSE]
                      \in Run
        /\ [run EXCEPT !.turn = NoTurn, !.interrupted = FALSE] \in Run
        /\ [run EXCEPT !.interrupted = FALSE] \in Run
    BY <2>1, RunEdits
  <2>4. QED  BY ZenonT(30), <2>1, <2>2, <2>3 DEF Stays
<1>5. CASE PromptOk
  <2>1. job \in Job /\ job.held \in {"own", "cur"}
    BY <1>5, JobFacts DEF PromptOk, CanPrompt, TypeOK
  <2>2. run \in Run
    BY <1>0, <2>1, JobFacts DEF CallsOK
  <2>3. run' = [run EXCEPT !.work = @ \union {job.turn}]
    BY <1>5 DEF PromptOk
  <2>4. job.turn \in Msgs
    BY <1>5, <2>1, JobFacts DEF PromptOk, InputsOK
  <2>5. QED  BY <2>2, <2>3, <2>4, RunEdits DEF Stays
<1>6. CASE Finalizes
  BY <1>6, FinalizeFacts DEF Stays
<1>7. QED  BY <1>1, <1>2, <1>3, <1>4, <1>5, <1>6

(* A call of the user or of the provider is not asked for by itself, and   *)
(* only the handshake brings a provider up.                                *)
LEMMA PhaseFacts ==
  ASSUME TypeOK, InputsOK, CallsOK,
         \/ Spawn \/ RecordProcess \/ StartFails \/ ProviderExits \/ ProcessEndStuck
         \/ TurnDone \/ StopCloses \/ InterruptBegins \/ InterruptEnds \/ InterruptFails
         \/ PromptOk \/ Finalizes
  PROVE  (run'.phase = "up" => run.phase = "up") /\ run'.asked = run.asked
<1>0. run \in Run
  BY StaysFacts DEF Stays
<1>1. CASE Spawn \/ RecordProcess \/ ProviderExits \/ InterruptBegins \/ PromptOk
  BY <1>0, <1>1 DEF Spawn, RecordProcess, ProviderExits, InterruptBegins, PromptOk, Run
<1>2. CASE StartFails
  <2>1. \A dies \in BOOLEAN : Closed(run, dies) \in Run /\ Closed(run, dies).asked = run.asked
    BY <1>0, ClosedTypes
  <2>2. PICK why \in {"failed", "missing"}, dies \in BOOLEAN :
          run' = [(IF Adapter = "pi" /\ run.phase = "recorded" THEN Closed(run, dies)
                   ELSE run) EXCEPT !.phase = why]
    BY <1>2 DEF StartFails
  <2>3. QED  BY <1>0, <2>1, <2>2 DEF Run
<1>3. CASE ProcessEndStuck \/ StopCloses
  <2>1. \E dies \in BOOLEAN : run' = Closed(run, dies)
    BY <1>3, KillsTypes DEF ProcessEndStuck, StopCloses, TypeOK
  <2>2. QED  BY <1>0, <2>1, ClosedTypes
<1>4. CASE TurnDone \/ InterruptEnds \/ InterruptFails
  <2>1. \/ run' = run
        \/ \E t : run' = [run EXCEPT !.work = @ \ {t}]
        \/ \E t : run' = [run EXCEPT !.work = @ \ {t}, !.turn = NoTurn, !.interrupted = FALSE]
        \/ run' = [run EXCEPT !.turn = NoTurn, !.interrupted = FALSE]
        \/ run' = [run EXCEPT !.interrupted = FALSE]
    BY <1>4 DEF TurnDone, InterruptEnds, InterruptFails
  <2>2. QED  BY <1>0, <2>1 DEF Run
<1>5. CASE Finalizes
  BY <1>5, FinalizeFacts
<1>6. QED  BY <1>1, <1>2, <1>3, <1>4, <1>5

(* What is decided of the end of a run stays, and its start is over.       *)
LEMMA EndingStays ==
  ASSUME TypeOK, InputsOK, CallsOK,
         \/ Spawn \/ RecordProcess \/ HandshakeOk \/ StartFails \/ ProviderExits
         \/ ProcessEndStuck \/ TurnDone \/ StopCloses \/ InterruptBegins
         \/ InterruptEnds \/ InterruptFails \/ PromptOk
  PROVE  /\ run'.ending = run.ending
         /\ run.phase \in {"up", "failed", "missing"} => run'.phase = run.phase
<1>0. run \in Run
  BY StaysFacts DEF Stays
<1>1. CASE Spawn \/ RecordProcess \/ HandshakeOk \/ ProviderExits \/ InterruptBegins \/ PromptOk
  BY <1>0, <1>1 DEF Spawn, RecordProcess, HandshakeOk, ProviderExits, InterruptBegins, PromptOk,
       Run
<1>2. CASE StartFails
  <2>1. \A dies \in BOOLEAN : /\ Closed(run, dies) \in Run
                              /\ Closed(run, dies).ending = run.ending
    BY <1>0, ClosedTypes
  <2>2. PICK why \in {"failed", "missing"}, dies \in BOOLEAN :
          run' = [(IF Adapter = "pi" /\ run.phase = "recorded" THEN Closed(run, dies)
                   ELSE run) EXCEPT !.phase = why]
    BY <1>2 DEF StartFails
  <2>3. run'.ending = run.ending
    BY <1>0, <2>1, <2>2 DEF Run
  <2>4. QED  BY <1>2, <2>3 DEF StartFails
<1>3. CASE ProcessEndStuck \/ StopCloses
  <2>1. \E dies \in BOOLEAN : run' = Closed(run, dies)
    BY <1>3, KillsTypes DEF ProcessEndStuck, StopCloses, TypeOK
  <2>2. QED  BY <1>0, <2>1, ClosedTypes
<1>4. CASE TurnDone \/ InterruptEnds \/ InterruptFails
  <2>1. \/ run' = run
        \/ \E t : run' = [run EXCEPT !.work = @ \ {t}]
        \/ \E t : run' = [run EXCEPT !.work = @ \ {t}, !.turn = NoTurn, !.interrupted = FALSE]
        \/ run' = [run EXCEPT !.turn = NoTurn, !.interrupted = FALSE]
        \/ run' = [run EXCEPT !.interrupted = FALSE]
    BY <1>4 DEF TurnDone, InterruptEnds, InterruptFails
  <2>2. QED  BY <1>0, <2>1 DEF Run
<1>5. QED  BY <1>1, <1>2, <1>3, <1>4

(* What the steps that are no event of a run do to it.                     *)
LEMMA OtherRuns ==
  ASSUME TypeOK, InputsOK, CallsOK,
         \/ StrayExits \/ SendConverges \/ AppendInput \/ StartTurn \/ Deliver \/ Ensure
         \/ Started \/ PromptFails \/ AppendAccepted \/ RetryFires
         \/ (\E m \in Msgs : SendMessage(m) \/ DelayPasses(m))
         \/ StopBegins \/ StartBegins \/ StartDelivers \/ Archive
  PROVE  /\ \/ run' = run
            \/ /\ run \in Run /\ run' \in Run /\ run'.phase = run.phase /\ run'.proc = run.proc
               /\ run'.closed = run.closed /\ run'.ending = run.ending
            \/ run = NoRun /\ ~Refusing /\ CreateRun /\ run' \in Run /\ run'.phase = "new" /\ run'.proc = "none"
         /\ stop' \in {stop, "close"}
         /\ strays' \subseteq strays
<1> USE DEF durable, calls, world, history
<1>1. stop' \in {stop, "close"} /\ strays' \subseteq strays
  BY DEF StrayExits, SendConverges, AppendInput, StartTurn, Deliver, Ensure,
         Started, PromptFails, AppendAccepted, RetryFires, SendMessage, DelayPasses,
         StopBegins, StartBegins, StartDelivers, Archive
<1>2. \/ run' = run
      \/ run = NoRun /\ ~Refusing /\ CreateRun
      \/ run # NoRun /\ run' = [run EXCEPT !.asked = TRUE]
      \/ run # NoRun /\ job \in Job /\ run' = [run EXCEPT !.turn = job.turn]
  <2>1. CASE Started
    <3>1. job \in Job
      BY <2>1, JobFacts DEF Started, TypeOK
    <3>2. QED  BY <2>1, <3>1, JobFacts DEF Started, CallsOK
  <2>2. CASE ~Started
    BY <2>2 DEF StrayExits, SendConverges, AppendInput, StartTurn, Deliver, Ensure,
         PromptFails, AppendAccepted, RetryFires, SendMessage, DelayPasses,
         StopBegins, StartBegins, StartDelivers, Archive
  <2>3. QED  BY <2>1, <2>2
<1>3. CASE run # NoRun /\ run' = [run EXCEPT !.asked = TRUE]
  <2>1. run \in Run /\ run' \in Run
    BY <1>3, RunEdits DEF TypeOK
  <2>2. QED  BY <1>1, <1>3, <2>1 DEF Run
<1>4. CASE run # NoRun /\ job \in Job /\ run' = [run EXCEPT !.turn = job.turn]
  <2>1. run \in Run /\ run' \in Run
    BY <1>4, RunEdits, JobFacts DEF TypeOK
  <2>2. QED  BY <1>1, <1>4, <2>1 DEF Run
<1>5. CASE run = NoRun /\ ~Refusing /\ CreateRun
  BY <1>1, <1>5, NewRun DEF TypeOK
<1>6. QED  BY <1>1, <1>2, <1>3, <1>4, <1>5

LEMMA StepEnding ==
  ASSUME TypeOK, InputsOK, CallsOK, EndingOK, Next
  PROVE  EndingOK'
<1> USE DEF durable, calls, world, history
<1>1. CASE \/ Spawn \/ RecordProcess \/ HandshakeOk \/ StartFails \/ ProviderExits
           \/ ProcessEndStuck \/ TurnDone \/ StopCloses \/ InterruptBegins
           \/ InterruptEnds \/ InterruptFails \/ PromptOk
  <2>1. run # NoRun
    BY <1>1, StaysFacts, RunFacts DEF Stays
  <2>2. QED  BY <1>1, <2>1, EndingStays DEF EndingOK, Finalizing
<1>2. CASE Finalizes
  BY <1>2, FinalizeFacts DEF EndingOK, Outcome
<1>3. CASE ConvergeActive \/ Restart
  BY <1>3 DEF ConvergeActive, Restart, EndingOK, Finalizing
<1>4. CASE \/ StrayExits \/ SendConverges \/ AppendInput \/ StartTurn \/ Deliver \/ Ensure
           \/ Started \/ PromptFails \/ AppendAccepted \/ RetryFires
           \/ (\E m \in Msgs : SendMessage(m) \/ DelayPasses(m))
           \/ StopBegins \/ StartBegins \/ StartDelivers \/ Archive
  <2>1. CreateRun => run'.ending = "no"
    BY DEF CreateRun
  <2>2. QED  BY <1>4, <2>1, OtherRuns, RunFacts DEF EndingOK, Finalizing
<1>5. QED
  BY <1>1, <1>2, <1>3, <1>4 DEF Next, ProcessSteps, InputSteps, Finalizes

(* A run that ends leaves nobody waiting for it.                           *)
LEMMA ConvergeActiveCalls ==
  ASSUME TypeOK, ConvergeActive
  PROVE  CallsOK'
<1>1. /\ cut' = FALSE /\ stop' = "idle" /\ resume' = Released(resume, run)
      /\ job' = IF job = Idle THEN Idle ELSE [job EXCEPT !.held = Released(@, run)]
  BY DEF ConvergeActive
<1>2. \A h : Released(h, run) \notin {"own", "cur"}
  BY DEF Released
<1>3. job # Idle => job'.held = Released(job.held, run)
  BY <1>1 DEF TypeOK, Job
<1>4. QED  BY <1>1, <1>2, <1>3, RunFacts, JobFacts DEF CallsOK

LEMMA StepCalls ==
  ASSUME TypeOK, InputsOK, CallsOK, Next
  PROVE  CallsOK'
<1> USE DEF durable, calls, world, history
<1>0. \A pc, m, t, rest : NewJob(pc, m, t, rest).held \notin {"own", "cur"}
  BY DEF NewJob
<1>1. CASE \/ Spawn \/ RecordProcess \/ HandshakeOk \/ StartFails \/ ProviderExits
           \/ ProcessEndStuck \/ TurnDone \/ StopCloses \/ InterruptBegins
           \/ InterruptEnds \/ InterruptFails \/ PromptOk \/ Finalizes
  <2>1. run' \in Run /\ run' # NoRun
    BY <1>1, StaysFacts, RunFacts DEF Stays
  <2>2. QED  BY <2>1 DEF CallsOK
<1>2. CASE ConvergeActive
  BY <1>2, ConvergeActiveCalls
<1>4. CASE StrayExits \/ Archive \/ \E m \in Msgs : DelayPasses(m)
  BY <1>4 DEF StrayExits, Archive, DelayPasses, CallsOK
<1>5. CASE StopBegins
  <2>1. job' = job /\ cut' = cut /\ resume' = resume
    BY <1>5 DEF StopBegins
  <2>2. CASE run = NoRun
    BY <1>5, <2>1, <2>2 DEF StopBegins, CallsOK
  <2>3. CASE run # NoRun
    <3>1. run' # NoRun
      <4>1. run' = [run EXCEPT !.asked = TRUE] /\ run \in Run
        BY <1>5, <2>3 DEF StopBegins, TypeOK
      <4>2. QED  BY <4>1, RunEdits, RunFacts
    <3>2. QED  BY <3>1 DEF CallsOK
  <2>4. QED  BY <2>2, <2>3
<1>6. CASE StartBegins
  <2>1. run' # NoRun
    BY <1>6, NewRun, RunFacts DEF StartBegins, TypeOK
  <2>2. QED  BY <2>1 DEF CallsOK
<1>7. CASE Restart
  BY <1>7 DEF Restart, CallsOK
<1>8. CASE StartDelivers \/ RetryFires
  <2>1. /\ run' = run /\ cut' = cut /\ stop' = stop /\ resume' \in {resume, "none"}
        /\ job' = job \/ job' = Idle \/ NextJob(PendingMsgs)
    BY <1>8 DEF StartDelivers, RetryFires
  <2>2. job' = job \/ job' = Idle \/ job'.held \notin {"own", "cur"}
    BY <1>0, <2>1 DEF NextJob
  <2>3. QED  BY <2>1, <2>2 DEF CallsOK
<1>9. CASE SendConverges \/ \E m \in Msgs : SendMessage(m)
  <2>1. /\ run' = run /\ cut' = cut /\ stop' = stop /\ resume' = resume
        /\ job' = Idle \/ job'.held \notin {"own", "cur"}
    BY <1>0, <1>9 DEF SendConverges, SendMessage, Decision
  <2>2. QED  BY <2>1 DEF CallsOK
<1>10. CASE AppendInput \/ StartTurn \/ Deliver
  <2>1. job \in Job
    BY <1>10, JobFacts DEF AppendInput, StartTurn, Deliver, TypeOK
  <2>2. /\ run' = run /\ cut' = cut /\ stop' = stop /\ resume' = resume
        /\ job' = Idle \/ \E pc : job' = [job EXCEPT !.pc = pc]
    BY <1>10 DEF AppendInput, StartTurn, Deliver, GoTo, GiveUp, Retry
  <2>3. job' = Idle \/ job'.held = job.held
    BY <2>1, <2>2 DEF Job
  <2>4. QED  BY <2>1, <2>2, <2>3, JobFacts DEF CallsOK
<1>11. CASE Ensure
  <2>1. job \in Job /\ cut' = cut /\ stop' = stop /\ resume' = resume
    BY <1>11, JobFacts DEF Ensure, TypeOK
  <2>2. CASE job' = [job EXCEPT !.pc = "wait", !.held = "err"] /\ run' = run
    <3>1. job'.held = "err"
      BY <2>1, <2>2 DEF Job
    <3>2. QED  BY <2>1, <2>2, <3>1 DEF CallsOK
  <2>3. CASE run' # NoRun
    BY <2>3 DEF CallsOK
  <2>4. CreateRun => run' # NoRun
    BY NewRun, RunFacts DEF TypeOK
  <2>5. QED  BY <1>11, <2>2, <2>3, <2>4 DEF Ensure
<1>12. CASE Started
  <2>1. job \in Job /\ cut' = cut /\ stop' = stop /\ resume' = resume
    BY <1>12, JobFacts DEF Started, TypeOK
  <2>2. run # NoRun => run' # NoRun
    <3>1. run' = run \/ run' = [run EXCEPT !.turn = job.turn]
      BY <1>12 DEF Started
    <3>2. run \in Run => [run EXCEPT !.turn = job.turn] \in Run
      BY <2>1, RunEdits, JobFacts
    <3>3. QED  BY <3>1, <3>2, RunFacts DEF TypeOK
  <2>3. NextJob(job.rest) \/ job' = Idle \/ job' = [job EXCEPT !.pc = "prompt"]
    BY <1>12 DEF Started, Done, GiveUp, Retry, GoTo
  <2>4. job' = Idle \/ job'.held = job.held \/ job'.held \notin {"own", "cur"}
    <3>1. NextJob(job.rest) => job' = Idle \/ job'.held \notin {"own", "cur"}
      BY <1>0 DEF NextJob
    <3>2. [job EXCEPT !.pc = "prompt"].held = job.held
      BY <2>1 DEF Job
    <3>3. QED  BY <2>3, <3>1, <3>2
  <2>5. QED  BY <2>1, <2>2, <2>4, JobFacts DEF CallsOK
<1>13. CASE PromptFails \/ AppendAccepted
  <2>1. /\ run' = run /\ cut' = cut /\ stop' = stop /\ resume' = resume
        /\ NextJob(job.rest) \/ job' = Idle
    BY <1>13 DEF PromptFails, AppendAccepted, Done, Retry
  <2>2. job' = Idle \/ job'.held \notin {"own", "cur"}
    BY <1>0, <2>1 DEF NextJob
  <2>3. QED  BY <2>1, <2>2 DEF CallsOK
<1>14. QED
  BY <1>1, <1>2, <1>4, <1>5, <1>6, <1>7, <1>8, <1>9, <1>10, <1>11, <1>12,
     <1>13 DEF Next, ProcessSteps, InputSteps, Finalizes

LEMMA StepTInv == TInv /\ [Next]_vars => TInv'
<1> SUFFICES ASSUME TInv, [Next]_vars PROVE TInv'
  OBVIOUS
<1>0. TypeOK /\ InputsOK /\ CallsOK /\ EndingOK
  BY DEF TInv
<1>1. CASE Next
  <2>1. TypeOK'
    BY <1>0, <1>1, ProcessTypes, CallTypes, InputTypes DEF Next, ProcessSteps, InputSteps, Finalizes
  <2>2. InputsOK'
    <3>1. AppendInput \/ OtherSteps
      BY <1>1 DEF Next, InputSteps, OtherSteps
    <3>2. QED  BY <1>0, <2>1, <3>1, StepMoves, JobMovesInputs, AppendInputInputs
  <2>3. QED  BY <1>0, <1>1, <2>1, <2>2, StepCalls, StepEnding DEF TInv
<1>2. CASE UNCHANGED vars
  BY <1>0, <1>2
     DEF vars, durable, calls, world, history, TInv, TypeOK, InputsOK, CallsOK, EndingOK, Finalizing
<1>3. QED  BY <1>1, <1>2

(* The durable log, the run and every call keep their types; no message is *)
(* in the log twice.                                                       *)
THEOREM SpecTypeOK == Spec => []TypeOK
<1>1. TInv => TypeOK
  BY DEF TInv
<1>2. QED  BY <1>1, InitTInv, StepTInv, PTL DEF Spec

-----------------------------------------------------------------------------
(* The budget of starts.                                                   *)

NoTries == \A m \in Msgs : tries[m] = 0

(* The durable count of a message that waits is at least the number of     *)
(* providers started for it; it falls to zero only when a provider is up,  *)
(* which is when the budget begins anew.                                   *)
Counted ==
  /\ \A m \in Msgs : Pending(m) => tries[m] <= msgs[m].startups
  /\ \A m \in Msgs : msgs[m].state = "none" => tries[m] = 0 /\ msgs[m].startups = 0
  /\ run.phase = "up" => NoTries
  /\ job.pc \in {"prompt", "accept"} => NoTries
  /\ job # Idle => (job.held = "ok" => NoTries)

(* A call that is about to start a provider has counted the attempt.       *)
AttemptOK ==
  job.pc = "ensure" /\ Pending(job.m) =>
    /\ tries[job.m] < msgs[job.m].startups
    /\ run = NoRun => tries[job.m] < MaxStartups

RunOpen == run # NoRun => sess.st # "archived"

BInv == Counted /\ AttemptOK /\ BudgetHolds /\ RunOpen

SameCounts == \A m \in Msgs : msgs'[m].startups = msgs[m].startups

LEMMA InitBInv == Init => BInv
BY JobFacts, RunFacts
   DEF Init, BInv, Counted, AttemptOK, BudgetHolds, RunOpen, NoTries, Pending, PendingStates

LEMMA CountFacts ==
  ASSUME msgs \in [Msgs -> Message]
  PROVE  /\ UNCHANGED msgs => SameCounts
         /\ \A t, verdict : msgs' = SettleTurn(t, verdict) => SameCounts
         /\ \A reason : msgs' = ConvergedMessages(reason) => SameCounts
         /\ \A m \in Msgs : DelayPasses(m) => SameCounts
<1>1. UNCHANGED msgs => SameCounts
  BY DEF SameCounts
<1>2. ASSUME NEW t, NEW verdict, msgs' = SettleTurn(t, verdict) PROVE SameCounts
  BY <1>2 DEF SettleTurn, SameCounts, Message
<1>3. ASSUME NEW reason, msgs' = ConvergedMessages(reason) PROVE SameCounts
  <2>1. \A m \in Msgs : ConvergedMessage(m, reason).startups = msgs[m].startups
    BY DEF ConvergedMessage, Message
  <2>2. QED  BY <1>3, <2>1 DEF ConvergedMessages, SameCounts
<1>4. ASSUME NEW m \in Msgs, DelayPasses(m) PROVE SameCounts
  BY <1>4 DEF DelayPasses, SameCounts, Message
<1>5. QED  BY <1>1, <1>2, <1>3, <1>4

(* A step that starts and hands over nothing.                              *)
LEMMA BStays ==
  ASSUME TypeOK, TypeOK', BInv, Keeps, SameCounts, tries' = tries, RunOpen',
         run'.phase = "up" => run.phase = "up",
         run # NoRun => run' # NoRun,
         job' = job \/ job' = Idle \/ job'.pc \notin {"ensure", "prompt", "accept"},
         job' = job \/ job' = Idle \/ job'.held # "ok"
  PROVE  BInv'
<1>1. \A m \in Msgs : tries[m] \in Nat /\ msgs[m].startups \in Nat
  BY DEF TypeOK, Message
<1>2. NoTries => NoTries'
  BY DEF NoTries
<1>3. job' = Idle \/ job' \in Job
  BY DEF TypeOK
<1>4. Counted'
  BY <1>1, <1>2, <1>3, JobFacts DEF BInv, Counted, Keeps, SameCounts, Pending
<1>5. AttemptOK'
  BY <1>1, <1>3, JobFacts DEF BInv, AttemptOK, Keeps, SameCounts, Pending
<1>6. BudgetHolds'
  BY DEF BInv, BudgetHolds
<1>7. QED  BY <1>4, <1>5, <1>6 DEF BInv

(* Only Archive archives.                                                  *)
LEMMA OpenFacts ==
  ASSUME TypeOK
  PROVE  /\ \A ss \in Session, st \in {"ready", "starting", "running", "stopping", "stopped"} :
              \A reason : SetState(ss, st, reason).st = st
         /\ \A ss \in Session : \A t :
              /\ OpenTurn(ss, t).st = "running"
              /\ CloseTurn(ss, t).st = "archived" => ss.st = "archived"
         /\ \A reason : ConvergedSession(reason).st = "archived" <=> sess.st = "archived"
BY DEF SetState, OpenTurn, CloseTurn, ConvergedSession, Session, TypeOK, Converged

LEMMA StepOpen ==
  ASSUME TypeOK, InputsOK, CallsOK, RunOpen, Next
  PROVE  RunOpen'
<1> USE OpenFacts DEF RunOpen, TypeOK, durable, calls, world, history
<1>1. CASE \/ Spawn \/ StartFails \/ ProviderExits \/ StrayExits \/ StopCloses
           \/ InterruptBegins \/ InterruptFails \/ PromptOk \/ StartDelivers \/ RetryFires
           \/ AppendInput \/ PromptFails \/ AppendAccepted
           \/ \E m \in Msgs : DelayPasses(m) \/ SendMessage(m)
  <2>1. sess' = sess
    BY <1>1 DEF Spawn, StartFails, ProviderExits, StrayExits, StopCloses, InterruptBegins,
        InterruptFails, PromptOk, StartDelivers, RetryFires, AppendInput, PromptFails,
        AppendAccepted, DelayPasses, SendMessage
  <2>2. run' # NoRun => run # NoRun
    BY ZenonT(30), <1>1, StaysFacts, RunFacts
       DEF StrayExits, StartDelivers, RetryFires, AppendInput, PromptFails, AppendAccepted,
           DelayPasses, SendMessage, Stays
  <2>3. QED  BY <2>1, <2>2
<1>2. CASE RecordProcess \/ HandshakeOk \/ ProcessEndStuck
  <2>1. run # NoRun
    BY <1>2 DEF RecordProcess, HandshakeOk, ProcessEndStuck
  <2>2. \/ sess' = [sess EXCEPT !.open = TRUE] \/ sess' = sess
        \/ \E st \in {"running", "ready", "stopping"} : sess' = SetState(sess, st, "none")
    BY <1>2 DEF RecordProcess, HandshakeOk, ProcessEndStuck
  <2>3. [sess EXCEPT !.open = TRUE].st = sess.st
    BY DEF Session
  <2>4. sess.st # "archived"
    BY <2>1
  <2>5. CASE \E st \in {"running", "ready", "stopping"} : sess' = SetState(sess, st, "none")
    BY <2>5
  <2>6. QED  BY <2>2, <2>3, <2>4, <2>5
<1>3. CASE ConvergeActive \/ Restart
  <2>1. run' = NoRun
    BY <1>3 DEF ConvergeActive, Restart
  <2>2. QED  BY <2>1
<1>4. CASE TurnDone \/ InterruptEnds
  <2>1. run # NoRun /\ (sess' = sess \/ \E t : sess' = CloseTurn(sess, t))
    BY <1>4 DEF TurnDone, InterruptEnds, CallsOK
  <2>2. QED  BY <2>1
<1>5. CASE SendConverges \/ StartTurn \/ Deliver \/ Started
  <2>1. \/ sess' = sess \/ \E reason : sess' = ConvergedSession(reason)
        \/ \E t : sess' = OpenTurn(sess, t)
    BY <1>5 DEF SendConverges, Converge, StartTurn, Deliver, Started
  <2>2. run' # NoRun => run # NoRun
    <3>1. run' = run \/ Started
      BY <1>5 DEF SendConverges, StartTurn, Deliver
    <3>2. Started => run' = run \/ job.held \in {"own", "cur"}
      BY DEF Started
    <3>3. Started => job # Idle
      BY JobFacts DEF Started
    <3>4. QED  BY <3>1, <3>2, <3>3 DEF CallsOK
  <2>3. QED  BY <2>1, <2>2
<1>6. CASE Ensure \/ StartBegins
  <2>1. UNCHANGED <<run, sess>> \/ CreateRun
    BY <1>6 DEF Ensure, StartBegins
  <2>2. CreateRun => sess'.st = "starting"
    BY DEF CreateRun
  <2>3. QED  BY <2>1, <2>2
<1>7. CASE StopBegins
  BY <1>7 DEF StopBegins
<1>8. CASE Archive
  BY <1>8 DEF Archive
<1>9. CASE Finalizes
  BY <1>9, FinalizeFacts, RunFacts
<1>10. QED
  BY <1>1, <1>2, <1>3, <1>4, <1>5, <1>6, <1>7, <1>8, <1>9
     DEF Next, ProcessSteps, InputSteps, Finalizes

(* When a run ends, a message whose budget is spent is given up, unless    *)
(* the run was up, which renewed the budget.                               *)
LEMMA BConverges ==
  ASSUME TypeOK, InputsOK, CallsOK, EndingOK, TypeOK', BInv, RunOpen', ConvergeActive
  PROVE  BInv'
<1>0. Keeps /\ SameCounts /\ tries' = tries
  BY ConvergeActiveMoves, CountFacts DEF ConvergeActive, Converge, TypeOK
<1>1. /\ run' = NoRun
      /\ job = Idle => job' = Idle
      /\ job # Idle => job' = [job EXCEPT !.held = Released(job.held, run)]
  BY DEF ConvergeActive
<1>2. \A m \in Msgs : tries[m] \in Nat /\ msgs[m].startups \in Nat /\ tries'[m] \in Nat
  BY <1>0 DEF TypeOK, Message
<1>3. job # Idle => /\ job \in Job /\ job'.pc = job.pc /\ job'.m = job.m
                    /\ job'.held = Released(job.held, run)
  BY <1>1 DEF TypeOK, Job
<1>4. run.phase = "up" => NoTries
  BY DEF BInv, Counted
<1>5. Counted'
  <2>1. NoTries => NoTries'
    BY <1>0 DEF NoTries
  <2>2. run'.phase # "up"
    BY <1>1, RunFacts
  <2>3. job' # Idle => (job'.held = "ok" => NoTries')
    BY <1>1, <1>3, <1>4, <2>1 DEF Released, BInv, Counted
  <2>4. job'.pc \in {"prompt", "accept"} => NoTries'
    BY <1>1, <1>3, <2>1, JobFacts DEF BInv, Counted
  <2>5. QED
    BY <1>0, <1>2, <2>1, <2>2, <2>3, <2>4 DEF BInv, Counted, Keeps, SameCounts, Pending
<1>6. AttemptOK'
  <2>1. SUFFICES ASSUME job.pc = "ensure", Pending(job.m)' PROVE
          tries[job.m] < msgs[job.m].startups /\ tries[job.m] < MaxStartups
    BY <1>0, <1>1, <1>3, JobFacts DEF AttemptOK, SameCounts, Pending
  <2>2. job \in Job /\ job.m \in Msgs /\ job'.m = job.m
    BY <1>3, <2>1, JobFacts
  <2>3. Pending(job.m) /\ msgs'[job.m].state \in PendingStates
    BY <1>0, <2>1, <2>2 DEF Keeps, Pending
  <2>4. tries[job.m] < msgs[job.m].startups
    BY <2>1, <2>3 DEF BInv, AttemptOK
  <2>5. CASE run.phase = "up"
    BY <1>4, <2>2, <2>4, <2>5 DEF NoTries
  <2>6. CASE run.phase # "up"
    <3>1. run.ending \in {"requested", "startup_error", "missing"} /\ run # NoRun
      BY <2>6 DEF ConvergeActive, EndingOK, Finalizing
    <3>2. msgs'[job.m] = ConvergedMessage(job.m, run.ending)
      BY <2>2, <2>3, <3>1 DEF ConvergeActive, Converge, ConvergedMessages, BInv, RunOpen, Converged
    <3>3. ~(msgs[job.m].startups >= MaxStartups)
      BY <2>2, <2>3, <3>1, <3>2 DEF ConvergedMessage, TypeOK, Message, PendingStates
    <3>4. QED  BY <1>2, <2>2, <2>4, <3>3
  <2>7. QED  BY <2>5, <2>6
<1>7. QED  BY <1>0, <1>5, <1>6 DEF BInv, BudgetHolds

(* After a provider came up nothing is counted.                            *)
LEMMA BNone ==
  ASSUME TypeOK, TypeOK', InputsOK, BInv, NoTries, tries' = tries, RunOpen',
         job'.pc # "ensure",
         NEW m \in Msgs, msgs[m].state # "none", NEW st, Record(m, st, 0, FALSE)
  PROVE  BInv'
<1>1. \A i \in Msgs : tries'[i] = 0
  BY DEF NoTries
<1>2. \A i \in Msgs : msgs'[i].startups \in Nat
  BY DEF TypeOK, Message
<1>3. \A i \in Msgs : msgs'[i].state = "none" => msgs'[i].startups = 0
  <2>1. CASE msgs' = msgs
    BY <2>1 DEF BInv, Counted
  <2>2. CASE msgs' = [msgs EXCEPT ![m] = [@ EXCEPT !.state = st, !.startups = 0,
                                                   !.later = FALSE]]
    BY <2>2 DEF BInv, Counted, TypeOK, Message
  <2>3. QED  BY <2>1, <2>2 DEF Record
<1>4. Counted' /\ AttemptOK'
  BY <1>1, <1>2, <1>3 DEF Counted, AttemptOK, NoTries
<1>5. QED  BY <1>4 DEF BInv, BudgetHolds

LEMMA StepBInv ==
  ASSUME TypeOK, InputsOK, CallsOK, EndingOK, BInv, TypeOK', Next
  PROVE  BInv'
<1> USE DEF durable, calls, world, history
<1>0. RunOpen' /\ msgs \in [Msgs -> Message]
  BY StepOpen DEF BInv, TypeOK
<1>n. \A pc, m, t, rest : NewJob(pc, m, t, rest).held # "ok" /\ NewJob(pc, m, t, rest).pc = pc
  BY DEF NewJob
<1>1. CASE \/ Spawn \/ RecordProcess \/ StartFails \/ ProviderExits \/ ProcessEndStuck
           \/ TurnDone \/ StopCloses \/ InterruptBegins \/ InterruptEnds \/ InterruptFails
           \/ Finalizes
  <2>1. run' # NoRun /\ (run'.phase = "up" => run.phase = "up")
    BY <1>1, StaysFacts, PhaseFacts, RunFacts DEF Stays
  <2>2. job' = job /\ tries' = tries
    BY <1>1 DEF Spawn, RecordProcess, StartFails, ProviderExits, ProcessEndStuck, TurnDone,
          StopCloses, InterruptBegins, InterruptEnds, InterruptFails, Finalizes, StartAborted,
          ProcessEnd, StopConverges
  <2>3. Keeps
    BY <1>1, StepMoves DEF OtherSteps, ProcessSteps, Finalizes
  <2>4. SameCounts
    <3>1. msgs' = msgs \/ \E t, v : msgs' = SettleTurn(t, v)
      BY <1>1 DEF Spawn, RecordProcess, StartFails, ProviderExits, ProcessEndStuck, TurnDone,
          StopCloses, InterruptBegins, InterruptEnds, InterruptFails, Finalizes, StartAborted,
          ProcessEnd, StopConverges
    <3>2. QED  BY <1>0, <3>1, CountFacts
  <2>5. QED  BY <1>0, <2>1, <2>2, <2>3, <2>4, BStays
<1>2. CASE StrayExits \/ Archive \/ StartDelivers \/ RetryFires \/ StopBegins
           \/ StartBegins \/ SendConverges \/ \E m \in Msgs : DelayPasses(m) \/ SendMessage(m)
  <2>1. Keeps
    BY <1>2, StepMoves DEF OtherSteps
  <2>2. SameCounts /\ tries' = tries
    <3>1. \/ msgs' = msgs \/ msgs' = ConvergedMessages("requested")
          \/ \E m \in Msgs : DelayPasses(m)
      BY <1>2 DEF StrayExits, Archive, StartDelivers, RetryFires, StopBegins, StartBegins,
            SendConverges, Converge, SendMessage
    <3>2. tries' = tries
      BY <1>2 DEF StrayExits, Archive, StartDelivers, RetryFires, StopBegins, StartBegins,
            SendConverges, SendMessage, DelayPasses
    <3>3. QED  BY <1>0, <3>1, <3>2, CountFacts
  <2>3. /\ run'.phase = "up" => run.phase = "up"
        /\ run # NoRun => run' # NoRun
    <3>1. CASE StopBegins /\ run # NoRun
      <4>1. run \in Run /\ run' = [run EXCEPT !.asked = TRUE]
        BY <3>1 DEF StopBegins, TypeOK
      <4>2. run' \in Run /\ run'.phase = run.phase
        BY <4>1 DEF Run
      <4>3. QED  BY <3>1, <4>2, RunFacts
    <3>2. CASE run' = run
      BY <3>2
    <3>3. CASE run = NoRun /\ CreateRun
      BY <3>3, NewRun DEF TypeOK
    <3>4. QED
      BY <1>2, <3>1, <3>2, <3>3
         DEF StrayExits, Archive, StartDelivers, RetryFires, StopBegins, StartBegins,
             SendConverges, SendMessage, DelayPasses
  <2>4. /\ job' = job \/ job' = Idle \/ job'.pc \notin {"ensure", "prompt", "accept"}
        /\ job' = job \/ job' = Idle \/ job'.held # "ok"
    <3>1. \/ job' = job \/ job' = Idle \/ NextJob(PendingMsgs)
          \/ \E ss, m : job' = Decision(ss, m) \/ job' = NewJob("converge", m, NoTurn, {})
      BY <1>2 DEF StrayExits, Archive, StartDelivers, RetryFires, StopBegins, StartBegins,
             SendConverges, SendMessage, DelayPasses
    <3>2. \/ job' = job \/ job' = Idle
          \/ \E pc \in {"deliver", "input", "converge"} : \E m, t, rest : job' = NewJob(pc, m, t, rest)
      <4>1. NextJob(PendingMsgs) =>
              job' = Idle \/ \E m, t, rest : job' = NewJob("deliver", m, t, rest)
        BY DEF NextJob
      <4>2. \A ss, m : \/ Decision(ss, m) = Idle
                       \/ \E pc \in {"deliver", "input"} : \E t, rest :
                           Decision(ss, m) = NewJob(pc, m, t, rest)
        BY DEF Decision
      <4>3. QED  BY <3>1, <4>1, <4>2
    <3>3. QED  BY <1>n, <3>2
  <2>5. QED  BY <1>0, <2>1, <2>2, <2>3, <2>4, BStays
<1>3. CASE Restart
  <2>1. Keeps /\ job' = Idle /\ run' = NoRun /\ tries' = tries
    BY <1>3, StepMoves DEF OtherSteps, Restart
  <2>2. SameCounts
    <3>1. msgs' = msgs \/ msgs' = ConvergedMessages(RecoveryReason)
      BY <1>3 DEF Restart, Converge
    <3>2. QED  BY <1>0, <3>1, CountFacts
  <2>3. Counted' /\ AttemptOK'
    BY <2>1, <2>2, RunFacts, JobFacts
       DEF BInv, Counted, AttemptOK, Keeps, SameCounts, Pending
  <2>4. QED  BY <1>0, <2>1, <2>3 DEF BInv, BudgetHolds
<1>4. CASE ConvergeActive
  BY <1>0, <1>4, BConverges
<1>5. CASE HandshakeOk
  <2>1. /\ msgs' = msgs /\ job' = job /\ run # NoRun /\ tries' = [m \in Msgs |-> 0]
        /\ run \in Run /\ run' \in Run
    BY <1>5, StaysFacts DEF HandshakeOk, Stays
  <2>2. \A m \in Msgs : msgs[m].startups \in Nat /\ tries[m] \in Nat /\ tries'[m] = 0
    BY <2>1 DEF TypeOK, Message
  <2>3. Counted'
    BY <2>1, <2>2 DEF BInv, Counted, NoTries, Pending
  <2>4. AttemptOK'
    <3>1. job.pc = "ensure" => job.m \in Msgs
      BY JobFacts DEF TypeOK
    <3>2. QED  BY <2>1, <2>2, <3>1, RunFacts DEF BInv, AttemptOK, Pending
  <2>5. QED  BY <1>0, <2>2, <2>3, <2>4 DEF BInv, BudgetHolds
<1>6. CASE AppendInput
  <2>1. job \in Job /\ job.m \in Msgs /\ msgs[job.m].state = "none"
    BY <1>6, JobFacts DEF AppendInput, TypeOK, InputsOK
  <2>2. run' = run /\ tries' = tries
    BY <1>6 DEF AppendInput
  <2>3. /\ job' = Idle \/ (job'.pc \in {"open", "deliver"} /\ job'.held = job.held)
        /\ \A m \in Msgs : /\ msgs'[m].startups = msgs[m].startups
                           /\ m # job.m => msgs'[m] = msgs[m]
                           /\ msgs'[m].state = "none" => msgs[m].state = "none"
    <3>1. CASE sess.st = "archived"
      BY <1>6, <3>1 DEF AppendInput
    <3>2. CASE sess.st # "archived"
      <4>1. /\ msgs' = [msgs EXCEPT ![job.m] = [@ EXCEPT !.state = "new", !.turn = job.turn]]
            /\ GoTo(IF job.turn = job.m THEN "open" ELSE "deliver")
        BY <1>6, <3>2 DEF AppendInput
      <4>2. job'.pc \in {"open", "deliver"} /\ job'.held = job.held
        BY <2>1, <4>1 DEF GoTo, Job
      <4>3. QED  BY <1>0, <2>1, <4>1, <4>2 DEF Message
    <3>3. QED  BY <3>1, <3>2
  <2>4. \A m \in Msgs : tries[m] \in Nat /\ msgs[m].startups \in Nat
    BY DEF TypeOK, Message
  <2>5. Counted'
    BY <2>1, <2>2, <2>3, <2>4, JobFacts DEF BInv, Counted, NoTries, Pending
  <2>6. AttemptOK'
    BY <2>3, JobFacts DEF AttemptOK
  <2>7. QED  BY <1>0, <2>2, <2>5, <2>6 DEF BInv, BudgetHolds
<1>7. CASE StartTurn \/ PromptOk
  <2>1. job \in Job /\ msgs' = msgs /\ tries' = tries
    BY <1>7, JobFacts DEF StartTurn, PromptOk, TypeOK
  <2>2. \/ job' = Idle
        \/ job'.pc = "deliver" /\ job'.held = job.held
        \/ job.pc = "prompt" /\ job'.pc = "accept" /\ job'.held = job.held
    BY <1>7, <2>1 DEF StartTurn, PromptOk, GoTo, Job
  <2>3. run'.phase = "up" => run.phase = "up"
    BY <1>7, PhaseFacts DEF StartTurn
  <2>4. Counted' /\ AttemptOK'
    BY <2>1, <2>2, <2>3, JobFacts DEF BInv, Counted, AttemptOK, NoTries, Pending
  <2>5. QED  BY <1>0, <2>1, <2>4 DEF BInv, BudgetHolds
<1>8. CASE Deliver
  <2>1. job \in Job /\ job.pc = "deliver" /\ run' = run /\ tries' = tries
    BY <1>8, JobFacts DEF Deliver, TypeOK
  <2>2. CASE job' = Idle
    <3>1. msgs' = msgs \/ msgs' = ConvergedMessages("startup_error")
      BY <1>8, <2>1, <2>2, JobFacts DEF Deliver, Retry, GiveUp, GoTo, Job
    <3>2. Keeps /\ SameCounts
      BY <1>0, <3>1, CountFacts, KeepsFacts DEF TypeOK
    <3>3. QED  BY <1>0, <2>1, <2>2, <3>2, BStays
  <2>3. CASE job' # Idle
    <3>1. /\ ~Exhausted(job.m)
          /\ job' = [job EXCEPT !.pc = "ensure"]
          /\ Record(job.m, "attempting", NextCount(job.m), FALSE)
      BY <1>8, <2>3 DEF Deliver, Retry, GiveUp, GoTo
    <3>2. job'.pc = "ensure" /\ job'.m = job.m /\ job'.held = job.held /\ job.m \in Msgs
      BY <2>1, <3>1 DEF Job
    <3>3. sess.st # "archived"
      BY <1>8, <2>3 DEF Deliver, Retry, GiveUp, Refusing
    <3>4. msgs[job.m].state # "none"
      BY <2>1, <3>2 DEF InputsOK
    <3>5. /\ \A m \in Msgs : m # job.m => msgs'[m] = msgs[m]
          /\ Pending(job.m)' => Pending(job.m) /\ msgs'[job.m].startups = NextCount(job.m)
          /\ msgs'[job.m].state # "none"
      <4>1. CASE msgs' = msgs /\ ~Pending(job.m)
        BY <3>2, <3>4, <4>1 DEF Pending
      <4>2. CASE Pending(job.m) /\ msgs' = [msgs EXCEPT ![job.m] =
                   [@ EXCEPT !.state = "attempting", !.startups = NextCount(job.m),
                             !.later = FALSE]]
        BY <1>0, <3>2, <4>2 DEF Message
      <4>3. Pending(job.m) \/ msgs' = msgs
        BY <3>1 DEF Record
      <4>4. QED  BY <3>1, <3>3, <4>1, <4>2, <4>3 DEF Record
    <3>6. /\ \A m \in Msgs : tries[m] \in Nat /\ msgs[m].startups \in 0 .. MaxStartups + 1
          /\ tries[job.m] <= MaxStartups /\ MaxStartups \in Nat
      BY <3>2 DEF TypeOK, Message, BInv, BudgetHolds
    <3>7. Pending(job.m)' => /\ tries[job.m] < msgs'[job.m].startups
                             /\ run = NoRun => tries[job.m] < MaxStartups
      <4>1. Pending(job.m) => tries[job.m] <= msgs[job.m].startups
        BY <3>2 DEF BInv, Counted
      <4>2. QED  BY <3>1, <3>2, <3>5, <3>6, <4>1 DEF NextCount, Exhausted
    <3>8. Counted'
      <4>1. \A m \in Msgs : Pending(m)' => tries[m] <= msgs'[m].startups
        <5>1. ASSUME NEW m \in Msgs, m # job.m, Pending(m)'
              PROVE  tries[m] <= msgs'[m].startups
          BY <3>5, <5>1 DEF BInv, Counted, Pending
        <5>2. Pending(job.m)' => tries[job.m] <= msgs'[job.m].startups
          BY <3>2, <3>5, <3>6, <3>7 DEF NextCount
        <5>3. QED  BY <3>2, <5>1, <5>2
      <4>2. \A m \in Msgs : msgs'[m].state = "none" => tries[m] = 0 /\ msgs'[m].startups = 0
        BY <3>5 DEF BInv, Counted
      <4>3. NoTries' <=> NoTries
        BY <2>1 DEF NoTries
      <4>4. job # Idle
        BY <2>1, JobFacts
      <4>5. QED
        BY <2>1, <3>2, <4>1, <4>2, <4>3, <4>4 DEF BInv, Counted
    <3>9. AttemptOK'
      BY <2>1, <3>2, <3>7 DEF AttemptOK
    <3>10. QED  BY <1>0, <2>1, <3>8, <3>9 DEF BInv, BudgetHolds
  <2>4. QED  BY <2>2, <2>3
<1>9. CASE Ensure
  <2>1. /\ job \in Job /\ job.m \in Msgs /\ job.pc = "ensure" /\ msgs' = msgs
        /\ msgs[job.m].state # "none"
    BY <1>9, JobFacts DEF Ensure, TypeOK, InputsOK
  <2>2. job'.pc = "wait" /\ job'.held # "ok"
    <3>1. \E h \in {"own", "cur", "err"} : job' = [job EXCEPT !.pc = "wait", !.held = h]
      BY <1>9 DEF Ensure
    <3>2. QED  BY <2>1, <3>1 DEF Job
  <2>3. \A m \in Msgs : tries[m] \in Nat /\ msgs[m].startups \in 0 .. MaxStartups + 1
    BY DEF TypeOK, Message
  <2>4. CASE tries' = tries /\ run' = run
    <3>1. NoTries' <=> NoTries
      BY <2>4 DEF NoTries
    <3>2. Counted' /\ AttemptOK'
      BY <2>1, <2>2, <2>4, <3>1 DEF BInv, Counted, AttemptOK, Pending
    <3>3. QED  BY <1>0, <2>4, <3>2 DEF BInv, BudgetHolds
  <2>5. CASE /\ Pending(job.m) /\ run = NoRun /\ CreateRun
             /\ tries' = [tries EXCEPT ![job.m] = @ + 1]
    <3>1. tries[job.m] < msgs[job.m].startups /\ tries[job.m] < MaxStartups
      BY <2>1, <2>5 DEF BInv, AttemptOK
    <3>2. /\ \A m \in Msgs : m # job.m => tries'[m] = tries[m]
          /\ tries'[job.m] = tries[job.m] + 1
      BY <2>1, <2>5 DEF TypeOK
    <3>3. run'.phase = "new"
      BY <2>5 DEF CreateRun
    <3>4. Counted'
      <4>1. \A m \in Msgs : Pending(m) => tries'[m] <= msgs[m].startups
        BY <2>1, <2>3, <3>1, <3>2 DEF BInv, Counted
      <4>2. \A m \in Msgs : msgs[m].state = "none" => tries'[m] = 0 /\ msgs[m].startups = 0
        BY <2>1, <3>2 DEF BInv, Counted
      <4>3. QED  BY <2>1, <2>2, <3>3, <4>1, <4>2 DEF Counted, Pending
    <3>5. BudgetHolds'
      BY <2>1, <2>3, <3>1, <3>2 DEF BInv, BudgetHolds
    <3>6. QED  BY <1>0, <2>2, <3>4, <3>5 DEF BInv, AttemptOK
  <2>6. QED  BY <1>9, <2>4, <2>5 DEF Ensure
<1>10. CASE Started
  <2>1. job \in Job /\ job.pc = "wait" /\ tries' = tries /\ job.m \in Msgs
    BY <1>10, JobFacts DEF Started, TypeOK
  <2>2. CASE NextJob(job.rest) /\ msgs' = msgs /\ run' = run
    <3>1. Keeps /\ SameCounts
      BY <1>0, <2>2, CountFacts, KeepsFacts
    <3>2. job' = Idle \/ \E m, t, rest : job' = NewJob("deliver", m, t, rest)
      BY <2>2 DEF NextJob
    <3>3. QED  BY <1>0, <1>n, <2>1, <2>2, <3>1, <3>2, BStays
  <2>3. CASE job' = Idle /\ run' = run
    <3>1. /\ msgs' = msgs \/ Record(job.m, "pending", msgs[job.m].startups, TRUE)
      BY <1>10, <2>1, <2>3, JobFacts DEF Started, GoTo, Job
    <3>2. Keeps
      BY <1>0, <2>1, <3>1, KeepsFacts
    <3>3. SameCounts
      <4>1. CASE msgs' = msgs
        BY <4>1 DEF SameCounts
      <4>2. CASE msgs' = [msgs EXCEPT ![job.m] =
                   [@ EXCEPT !.state = "pending", !.startups = msgs[job.m].startups,
                             !.later = TRUE]]
        BY <1>0, <2>1, <4>2 DEF SameCounts, Message
      <4>3. QED  BY <3>1, <4>1, <4>2 DEF Record
    <3>4. QED  BY <1>0, <2>1, <2>3, <3>2, <3>3, BStays
  <2>4. CASE /\ Pending(job.m) /\ StartOk(job.held) /\ Record(job.m, "attempting", 0, FALSE)
             /\ job' = [job EXCEPT !.pc = "prompt"]
    <3>1. NoTries
      BY <2>1, <2>4, JobFacts DEF StartOk, BInv, Counted
    <3>2. job'.pc = "prompt"
      BY <2>1, <2>4 DEF Job
    <3>3. msgs[job.m].state # "none"
      BY <2>1 DEF InputsOK
    <3>4. QED  BY <1>0, <2>1, <2>4, <3>1, <3>2, <3>3, BNone
  <2>5. QED
    BY <1>10, <2>2, <2>3, <2>4 DEF Started, Done, GiveUp, Retry, GoTo
<1>11. CASE PromptFails \/ AppendAccepted
  <2>1. /\ job.m \in Msgs /\ tries' = tries /\ NoTries
        /\ \E st : Record(job.m, st, 0, FALSE)
    BY <1>11, JobFacts DEF PromptFails, AppendAccepted, TypeOK, BInv, Counted
  <2>2. job'.pc # "ensure"
    <3>1. job' = Idle \/ \E m, t, rest : job' = NewJob("deliver", m, t, rest)
      BY <1>11 DEF PromptFails, AppendAccepted, Retry, Done, NextJob
    <3>2. QED  BY <1>n, <3>1, JobFacts
  <2>3. msgs[job.m].state # "none"
    BY <1>11 DEF InputsOK, PromptFails, AppendAccepted
  <2>4. QED  BY <1>0, <2>1, <2>2, <2>3, BNone
<1>12. QED
  BY <1>1, <1>2, <1>3, <1>4, <1>5, <1>6, <1>7, <1>8, <1>9, <1>10, <1>11
     DEF Next, ProcessSteps, InputSteps, Finalizes

(* No message starts more than MaxStartups providers in a row, whatever    *)
(* the calls, the adapter, and the restarts (deliverMessageLocked).        *)
THEOREM SpecBudget == Spec => []BudgetHolds
<1>1. TInv /\ BInv /\ [Next]_vars => BInv'
  <2>1. CASE Next
    BY <2>1, StepBInv, StepTInv DEF TInv
  <2>2. CASE UNCHANGED vars
    BY <2>2 DEF vars, durable, calls, world, history, BInv, Counted, AttemptOK, BudgetHolds,
                RunOpen, NoTries, Pending
  <2>3. QED  BY <2>1, <2>2
<1>2. BInv => BudgetHolds
  BY DEF BInv
<1>3. QED  BY <1>1, <1>2, InitTInv, InitBInv, StepTInv, PTL DEF Spec

-----------------------------------------------------------------------------
(* The life of a run and what the log says of it.                          *)

(* The ProcessStart hook of the run was called.                            *)
Recorded(r) ==
  r.phase \in {"recorded", "up"} \/ (r.phase \in {"failed", "missing"} /\ r.proc # "none")

(* While there is a run the Session is neither stopped nor archived, and   *)
(* its recorded process is open in the log; who finds the Session stopped  *)
(* on request converges it before any run is created.                      *)
OInv ==
  /\ run # NoRun => sess.st \notin {"stopped", "archived"}
  /\ run # NoRun => (run.phase = "new" => run.proc = "none")
  /\ run # NoRun => (Recorded(run) => sess.open)
  /\ job.pc = "converge" => run = NoRun
  /\ "recorded" \notin strays

Dead(r) == r.proc \in {"none", "gone"}

(* The Pi adapter leaves no process alive behind a start that failed or    *)
(* behind a Close; a Stop that waits for the end of a run, and an end that *)
(* is decided, have seen the process of a run that was up die.             *)
PInv ==
  /\ run # NoRun => (run.phase = "new" => run.proc = "none")
  /\ run # NoRun => (run.phase \in {"failed", "missing"} => run.proc # "alive")
  /\ run # NoRun => (run.phase = "up" /\ run.closed => run.proc # "alive")
  /\ stop = "wait" => run.closed
  /\ stop = "wait" \/ Finalizing(run) => (run.phase = "up" => Dead(run))
  /\ "spared" \notin strays

LEMMA ClosedFacts ==
  ASSUME NEW r \in Run, NEW dies \in BOOLEAN
  PROVE  /\ Closed(r, dies).closed /\ Closed(r, dies).phase = r.phase
         /\ Closed(r, dies).proc = "none" <=> r.proc = "none"
         /\ Adapter = "pi" => Closed(r, dies).proc # "alive"
         /\ r.proc = "gone" => Closed(r, dies).proc = "gone"
         /\ Dead(r) => Dead(Closed(r, dies))
         /\ Adapter = "pi" /\ Closed(r, dies).reaped = "ok" => Dead(Closed(r, dies))
BY DEF Closed, Answered, Run, Dead

LEMMA SessFacts ==
  ASSUME NEW ss \in Session
  PROVE  /\ \A st \in {"ready", "starting", "running", "stopping", "stopped"} : \A reason :
              /\ SetState(ss, st, reason).st = st /\ SetState(ss, st, reason).turn = ss.turn
              /\ st # "stopped" => SetState(ss, st, reason).open = ss.open
              /\ st = "stopping" /\ reason = "none" => SetState(ss, st, reason).asked = ss.asked
              /\ reason = "requested" => SetState(ss, st, reason).asked
         /\ \A t : /\ OpenTurn(ss, t).st = "running" /\ OpenTurn(ss, t).turn = t
                   /\ OpenTurn(ss, t).open = ss.open /\ OpenTurn(ss, t).asked = ss.asked
         /\ \A t : /\ CloseTurn(ss, t).open = ss.open /\ CloseTurn(ss, t).asked = ss.asked
                   /\ CloseTurn(ss, t).turn = (IF ss.turn = t THEN NoTurn ELSE ss.turn)
                   /\ CloseTurn(ss, t).st \in {ss.st, "ready"}
                   /\ ss.st = "stopping" => CloseTurn(ss, t).st = "stopping"
         /\ /\ [ss EXCEPT !.open = TRUE].st = ss.st /\ [ss EXCEPT !.open = TRUE].open
            /\ [ss EXCEPT !.open = TRUE].turn = ss.turn
            /\ [ss EXCEPT !.open = TRUE].asked = ss.asked
<1>1. ASSUME NEW st \in {"ready", "starting", "running", "stopping", "stopped"}, NEW reason
      PROVE  /\ SetState(ss, st, reason).st = st /\ SetState(ss, st, reason).turn = ss.turn
             /\ st # "stopped" => SetState(ss, st, reason).open = ss.open
             /\ st = "stopping" /\ reason = "none" => SetState(ss, st, reason).asked = ss.asked
             /\ reason = "requested" => SetState(ss, st, reason).asked
  BY DEF Session, SetState
<1>2. ASSUME NEW t
      PROVE  /\ OpenTurn(ss, t).st = "running" /\ OpenTurn(ss, t).turn = t
             /\ OpenTurn(ss, t).open = ss.open /\ OpenTurn(ss, t).asked = ss.asked
  BY DEF Session, OpenTurn
<1>3. ASSUME NEW t
      PROVE  /\ CloseTurn(ss, t).open = ss.open /\ CloseTurn(ss, t).asked = ss.asked
             /\ CloseTurn(ss, t).turn = (IF ss.turn = t THEN NoTurn ELSE ss.turn)
             /\ CloseTurn(ss, t).st \in {ss.st, "ready"}
             /\ ss.st = "stopping" => CloseTurn(ss, t).st = "stopping"
  BY DEF Session, CloseTurn
<1>4. /\ [ss EXCEPT !.open = TRUE].st = ss.st /\ [ss EXCEPT !.open = TRUE].open
      /\ [ss EXCEPT !.open = TRUE].turn = ss.turn
      /\ [ss EXCEPT !.open = TRUE].asked = ss.asked
  BY DEF Session
<1>5. QED  BY <1>1, <1>2, <1>3, <1>4

(* What the steps of a run do to it.                                       *)
LEMMA RunSteps ==
  ASSUME TypeOK, InputsOK, CallsOK, run.phase = "new" => run.proc = "none",
         \/ Spawn \/ RecordProcess \/ HandshakeOk \/ StartFails \/ ProviderExits
         \/ ProcessEndStuck \/ TurnDone \/ StopCloses \/ InterruptBegins
         \/ InterruptEnds \/ InterruptFails \/ PromptOk
  PROVE  /\ run'.phase = "new" => run'.proc = "none"
         /\ Recorded(run)' => Recorded(run) \/ RecordProcess
         /\ run.closed => run'.closed
         /\ run'.phase = "up" => /\ run.phase = "up" \/ (run.phase = "recorded" /\ ~run.closed)
                                 /\ run.phase = "up" /\ Dead(run) => Dead(run')
         /\ Adapter = "pi" /\ PInv => 
              /\ run'.phase \in {"failed", "missing"} => run'.proc # "alive"
              /\ run'.phase = "up" /\ run'.closed => run'.proc # "alive"
<1>0. run \in Run /\ run # NoRun
  BY StaysFacts, RunFacts DEF Stays
<1> USE DEF Recorded, Dead
<1>1. CASE Spawn
  <2>1. run.phase = "new" /\ run' = [run EXCEPT !.phase = "spawned", !.proc = "alive"]
    BY <1>1 DEF Spawn
  <2>2. QED  BY <1>0, <2>1 DEF Run
<1>2. CASE RecordProcess
  <2>1. run' = [run EXCEPT !.phase = "recorded"]
    BY <1>2 DEF RecordProcess
  <2>2. QED  BY <1>0, <1>2, <2>1 DEF Run
<1>3. CASE HandshakeOk
  <2>1. run' = [run EXCEPT !.phase = "up"] /\ ~run.closed /\ run.phase = "recorded"
    BY <1>3 DEF HandshakeOk
  <2>2. QED  BY <1>0, <2>1 DEF Run
<1>4. CASE StartFails
  <2>1. PICK why \in {"failed", "missing"}, dies \in BOOLEAN :
          run' = [(IF Adapter = "pi" /\ run.phase = "recorded" THEN Closed(run, dies)
                   ELSE run) EXCEPT !.phase = why]
    BY <1>4 DEF StartFails
  <2>2. run.phase \in {"new", "recorded"}
    BY <1>4 DEF StartFails
  <2>3. CASE Adapter = "pi" /\ run.phase = "recorded"
    <3>1. Closed(run, dies) \in Run /\ run' = [Closed(run, dies) EXCEPT !.phase = why]
      BY <1>0, <2>1, <2>3, ClosedTypes
    <3>2. run'.phase = why /\ run'.closed /\ run'.proc = Closed(run, dies).proc
      BY <1>0, <3>1, ClosedFacts DEF Run
    <3>3. QED  BY <1>0, <2>3, <3>2, ClosedFacts
  <2>4. CASE ~(Adapter = "pi" /\ run.phase = "recorded")
    <3>1. run'.phase = why /\ run'.closed = run.closed /\ run'.proc = run.proc
      BY <1>0, <2>1, <2>4 DEF Run
    <3>2. QED  BY <1>0, <2>2, <2>4, <3>1
  <2>5. QED  BY <2>3, <2>4
<1>5. CASE ProviderExits
  <2>1. run.proc = "alive" /\ run' = [run EXCEPT !.proc = "gone", !.closed = TRUE]
    BY <1>5 DEF ProviderExits
  <2>2. QED  BY <1>0, <2>1 DEF Run
<1>6. CASE ProcessEndStuck \/ StopCloses
  <2>1. \E dies \in BOOLEAN : run' = Closed(run, dies)
    BY <1>6, KillsTypes DEF ProcessEndStuck, StopCloses, TypeOK
  <2>2. QED  BY <1>0, <2>1, ClosedFacts
<1>7. CASE TurnDone \/ InterruptBegins \/ InterruptEnds \/ InterruptFails \/ PromptOk
  <2>1. \/ run' = run
        \/ \E t : run' = [run EXCEPT !.work = @ \ {t}]
        \/ \E t : run' = [run EXCEPT !.work = @ \ {t}, !.turn = NoTurn, !.interrupted = FALSE]
        \/ run' = [run EXCEPT !.turn = NoTurn, !.interrupted = FALSE]
        \/ run' = [run EXCEPT !.interrupted = FALSE]
        \/ run' = [run EXCEPT !.interrupted = TRUE]
        \/ run' = [run EXCEPT !.work = @ \union {job.turn}]
    BY <1>7 DEF TurnDone, InterruptBegins, InterruptEnds, InterruptFails, PromptOk
  <2>2. run'.phase = run.phase /\ run'.proc = run.proc /\ run'.closed = run.closed
    BY <1>0, <2>1 DEF Run
  <2>3. QED  BY <1>0, <2>2 DEF PInv
<1>8. QED  BY <1>1, <1>2, <1>3, <1>4, <1>5, <1>6, <1>7

(* The state of the Session is stopped or archived only without a run.     *)
LEMMA OtherSessions ==
  ASSUME TypeOK, OInv, run # NoRun,
         \/ StrayExits \/ SendConverges \/ AppendInput \/ StartTurn \/ Deliver \/ Ensure
         \/ Started \/ PromptFails \/ AppendAccepted \/ RetryFires
         \/ (\E m \in Msgs : SendMessage(m) \/ DelayPasses(m))
         \/ StopBegins \/ StartBegins \/ StartDelivers \/ Archive
  PROVE  /\ sess'.open = sess.open
         /\ sess'.st \in {sess.st, "running", "stopping"}
<1> USE DEF durable, calls, world, history
<1>1. \/ sess' = sess \/ \E t : sess' = OpenTurn(sess, t)
      \/ sess' = SetState(sess, "stopping", "requested")
  <2>1. CASE Deliver
    BY <2>1 DEF Deliver, Exhausted
  <2>2. CASE ~Deliver
    BY <2>2 DEF StrayExits, SendConverges, AppendInput, StartTurn, Ensure,
         Started, PromptFails, AppendAccepted, RetryFires, SendMessage, DelayPasses,
         StopBegins, StartBegins, StartDelivers, Archive, OInv
  <2>3. QED  BY <2>1, <2>2
<1>2. QED  BY <1>1, SessFacts DEF TypeOK

(* Only SendMessage decides to converge the Session, and it found it       *)
(* stopped on request.                                                     *)
LEMMA OtherConverges ==
  ASSUME "overlap" \notin Calls, TypeOK,
         \/ StrayExits \/ SendConverges \/ AppendInput \/ StartTurn \/ Deliver \/ Ensure
         \/ Started \/ PromptFails \/ AppendAccepted \/ RetryFires
         \/ (\E m \in Msgs : SendMessage(m) \/ DelayPasses(m))
         \/ StopBegins \/ StartBegins \/ StartDelivers \/ Archive,
         job'.pc = "converge"
  PROVE  (job.pc = "converge" \/ StopRequested) /\ (run = NoRun => run' = run)
<1> USE DEF durable, calls, world, history
<1>0. \A pc, m, t, rest : NewJob(pc, m, t, rest).pc = pc
  BY DEF NewJob
<1>1. \A rest : NextJob(rest) => job'.pc # "converge"
  <2>1. \A rest : NextJob(rest) =>
          job' = Idle \/ \E m, t, left : job' = NewJob("deliver", m, t, left)
    BY DEF NextJob
  <2>2. QED  BY <1>0, <2>1, JobFacts
<1>2. \A ss, m : Decision(ss, m).pc # "converge"
  BY <1>0, JobFacts DEF Decision
<1>3. CASE StrayExits \/ StopBegins \/ Archive \/ \E m \in Msgs : DelayPasses(m)
  BY <1>3 DEF StrayExits, StopBegins, Archive, DelayPasses
<1>4. CASE StartBegins
  BY <1>4, JobFacts DEF StartBegins
<1>5. CASE StartDelivers \/ RetryFires
  <2>1. run' = run /\ job' = job
    BY <1>1, <1>5, JobFacts DEF StartDelivers, RetryFires
  <2>2. QED  BY <2>1
<1>6. CASE SendConverges \/ \E m \in Msgs : SendMessage(m)
  BY <1>2, <1>6, JobFacts DEF SendConverges, SendMessage
<1>7. CASE AppendInput \/ StartTurn \/ Deliver \/ Started
  <2>1. job \in Job
    BY <1>7, JobFacts DEF AppendInput, StartTurn, Deliver, Started, TypeOK
  <2>2. \/ job' = Idle \/ NextJob(job.rest)
        \/ \E pc \in {"open", "deliver", "ensure", "prompt"} : job' = [job EXCEPT !.pc = pc]
    BY <1>7 DEF AppendInput, StartTurn, Deliver, Started, GoTo, GiveUp, Retry, Done
  <2>3. QED  BY <1>1, <2>1, <2>2, JobFacts DEF Job
<1>8. CASE Ensure
  <2>1. job \in Job /\ \E h : job' = [job EXCEPT !.pc = "wait", !.held = h]
    BY <1>8, JobFacts DEF Ensure, TypeOK
  <2>2. QED  BY <2>1 DEF Job
<1>9. CASE PromptFails \/ AppendAccepted
  BY <1>1, <1>9, JobFacts DEF PromptFails, AppendAccepted, Done, Retry
<1>10. QED  BY <1>3, <1>4, <1>5, <1>6, <1>7, <1>8, <1>9

LEMMA StepOInv ==
  ASSUME "overlap" \notin Calls, TypeOK, InputsOK, CallsOK, OInv, Next
  PROVE  OInv'
<1> USE DEF durable, calls, world, history
<1>1. CASE \/ Spawn \/ RecordProcess \/ HandshakeOk \/ StartFails \/ ProviderExits
           \/ ProcessEndStuck \/ TurnDone \/ StopCloses \/ InterruptBegins
           \/ InterruptEnds \/ InterruptFails \/ PromptOk
  <2>1. run # NoRun
    BY <1>1, StaysFacts, RunFacts DEF Stays
  <2>2. strays' = strays
    BY <1>1 DEF Spawn, RecordProcess, HandshakeOk, StartFails, ProviderExits,
         ProcessEndStuck, TurnDone, StopCloses, InterruptBegins,
         InterruptEnds, InterruptFails, PromptOk
  <2>3. job'.pc # "converge"
    <3>1. CASE PromptOk
      <4>1. job \in Job /\ job' = [job EXCEPT !.pc = "accept"]
        BY <3>1, JobFacts DEF PromptOk, GoTo, TypeOK
      <4>2. QED  BY <4>1 DEF Job
    <3>2. CASE ~PromptOk
      <4>1. job' = job
        BY <1>1, <3>2 DEF Spawn, RecordProcess, HandshakeOk, StartFails, ProviderExits,
             ProcessEndStuck, TurnDone, StopCloses, InterruptBegins, InterruptEnds,
             InterruptFails
      <4>2. QED  BY <2>1, <4>1 DEF OInv
    <3>3. QED  BY <3>1, <3>2
  <2>4. \/ sess' = sess \/ sess' = [sess EXCEPT !.open = TRUE]
        \/ \E st \in {"running", "ready", "stopping"} : sess' = SetState(sess, st, "none")
        \/ \E t : sess' = CloseTurn(sess, t)
    BY <1>1 DEF Spawn, RecordProcess, HandshakeOk, StartFails, ProviderExits,
         ProcessEndStuck, TurnDone, StopCloses, InterruptBegins,
         InterruptEnds, InterruptFails, PromptOk
  <2>5. /\ sess.open => sess'.open
        /\ sess'.st \notin {"stopped", "archived"}
    <3>1. sess \in Session /\ sess.st \notin {"stopped", "archived"}
      BY <2>1 DEF TypeOK, OInv
    <3>2. CASE sess' = sess \/ sess' = [sess EXCEPT !.open = TRUE]
      BY <3>1, <3>2 DEF Session
    <3>3. CASE \E st \in {"running", "ready", "stopping"} : sess' = SetState(sess, st, "none")
      BY <3>1, <3>3, SessFacts
    <3>4. CASE \E t : sess' = CloseTurn(sess, t)
      BY <3>1, <3>4, SessFacts
    <3>5. QED  BY <2>4, <3>2, <3>3, <3>4
  <2>6. RecordProcess => sess'.open
    BY SessFacts DEF RecordProcess, TypeOK
  <2>7. QED  BY <1>1, <2>1, <2>2, <2>3, <2>5, <2>6, RunSteps DEF OInv
<1>2. CASE ConvergeActive
  <2>1. "recorded" \notin Outlives(run)
    BY DEF Outlives
  <2>2. QED  BY <1>2, <2>1 DEF ConvergeActive, OInv
<1>5. CASE Finalizes
  <2>1. PICK r \in Run : /\ run' = [r EXCEPT !.ending = Outcome(run)]
                         /\ r = run \/ \E dies \in BOOLEAN : r = Closed(run, dies)
    BY <1>5, FinalizeFacts
  <2>2. run \in Run /\ run # NoRun /\ run'.phase = run.phase /\ run.phase # "new"
    BY <1>5, FinalizeFacts, RunFacts
  <2>3. run'.proc = "none" <=> run.proc = "none"
    <3>1. r \in Run /\ run' = [r EXCEPT !.ending = Outcome(run)]
      BY <2>1
    <3>2. run'.proc = r.proc
      BY <3>1, OutcomeTypes DEF Run
    <3>3. QED  BY <2>1, <2>2, <3>2, ClosedFacts
  <2>4. UNCHANGED <<sess, job, strays>>
    BY <1>5, FinalizeFacts
  <2>5. QED  BY <2>2, <2>3, <2>4 DEF OInv, Recorded
<1>3. CASE Restart
  <2>1. run' = NoRun /\ "recorded" \notin strays
    BY <1>3 DEF Restart, OInv
  <2>2. ~sess.open => "recorded" \notin Orphaned(run)
    BY RunFacts DEF Orphaned, OInv, Recorded, TypeOK
  <2>3. sess.st = "archived" => "recorded" \notin Orphaned(run)
    BY DEF Orphaned, OInv
  <2>4. "recorded" \notin strays'
    <3>1. \/ /\ sess.st = "archived" \/ ~NeedsRecovery
             /\ strays' = strays \union Orphaned(run)
          \/ /\ sess.open \/ strays' = strays \union Orphaned(run)
             /\ ~sess.open \/ \E p \in {{}, {"stuck"}} :
                  strays' = ((strays \union Orphaned(run)) \ {"recorded"}) \union p
      BY <1>3 DEF Restart
    <3>2. QED  BY <2>1, <2>2, <2>3, <3>1 DEF NeedsRecovery
  <2>5. QED  BY <2>1, <2>4 DEF OInv
<1>4. CASE \/ StrayExits \/ SendConverges \/ AppendInput \/ StartTurn \/ Deliver \/ Ensure
           \/ Started \/ PromptFails \/ AppendAccepted \/ RetryFires
           \/ (\E m \in Msgs : SendMessage(m) \/ DelayPasses(m))
           \/ StopBegins \/ StartBegins \/ StartDelivers \/ Archive
  <2>1. /\ \/ run' = run
           \/ /\ run \in Run /\ run' \in Run /\ run'.phase = run.phase /\ run'.proc = run.proc
              /\ run'.closed = run.closed
           \/ run = NoRun /\ ~Refusing /\ CreateRun /\ run' \in Run /\ run'.phase = "new" /\ run'.proc = "none"
        /\ strays' \subseteq strays
    BY <1>4, OtherRuns
  <2>2. run # NoRun => /\ sess'.open = sess.open
                       /\ sess'.st \in {sess.st, "running", "stopping"}
    BY <1>4, OtherSessions
  <2>3. CreateRun => sess'.st = "starting"
    BY SessFacts DEF CreateRun, TypeOK
  <2>4. job'.pc = "converge" => (job.pc = "converge" \/ StopRequested) /\ (run = NoRun => run' = run)
    BY <1>4, OtherConverges
  <2>5. job'.pc = "converge" => run' = NoRun
    BY <2>4 DEF OInv, StopRequested
  <2>6. run' # NoRun => sess'.st \notin {"stopped", "archived"}
    BY <2>1, <2>2, <2>3, RunFacts DEF OInv
  <2>7. run' # NoRun => /\ run'.phase = "new" => run'.proc = "none"
                        /\ Recorded(run)' => sess'.open
    BY <2>1, <2>2, RunFacts DEF OInv, Recorded
  <2>8. QED  BY <2>1, <2>5, <2>6, <2>7 DEF OInv
<1>6. QED
  BY <1>1, <1>2, <1>3, <1>4, <1>5 DEF Next, ProcessSteps, InputSteps, Finalizes

LEMMA StepPInv ==
  ASSUME Adapter = "pi", TypeOK, InputsOK, CallsOK, EndingOK, PInv, Next
  PROVE  PInv'
<1> USE DEF durable, calls, world, history
<1>1. CASE \/ Spawn \/ RecordProcess \/ HandshakeOk \/ StartFails \/ ProviderExits
           \/ ProcessEndStuck \/ TurnDone \/ StopCloses \/ InterruptBegins
           \/ InterruptEnds \/ InterruptFails \/ PromptOk
  <2>1. run # NoRun /\ run \in Run
    BY <1>1, StaysFacts, RunFacts DEF Stays
  <2>2. strays' = strays
    BY <1>1 DEF Spawn, RecordProcess, HandshakeOk, StartFails, ProviderExits,
         ProcessEndStuck, TurnDone, StopCloses, InterruptBegins,
         InterruptEnds, InterruptFails, PromptOk
  <2>3. stop' = "wait" => run'.closed
    <3>1. CASE StopCloses
      <4>1. \E dies \in BOOLEAN : run' = Closed(run, dies)
        BY <3>1, KillsTypes DEF StopCloses, TypeOK
      <4>2. QED  BY <2>1, <4>1, ClosedFacts
    <3>2. CASE ~StopCloses
      <4>1. stop' = stop
        BY <1>1, <3>2 DEF Spawn, RecordProcess, HandshakeOk, StartFails, ProviderExits,
             ProcessEndStuck, TurnDone, InterruptBegins, InterruptEnds, InterruptFails, PromptOk
      <4>2. run.closed => run'.closed
        BY <1>1, <2>1, RunSteps DEF PInv
      <4>3. QED  BY <4>1, <4>2 DEF PInv
    <3>3. QED  BY <3>1, <3>2
  <2>4. /\ run'.phase = "new" => run'.proc = "none"
        /\ run'.phase \in {"failed", "missing"} => run'.proc # "alive"
        /\ run'.phase = "up" /\ run'.closed => run'.proc # "alive"
    BY <1>1, <2>1, RunSteps DEF PInv
  <2>5. stop' = "wait" \/ Finalizing(run)' => (run'.phase = "up" => Dead(run'))
    <3>1. SUFFICES ASSUME stop' = "wait" \/ Finalizing(run)', run'.phase = "up"
                   PROVE  Dead(run')
      OBVIOUS
    <3>2. CASE StopCloses /\ stop' = "wait"
      <4>1. \E dies \in BOOLEAN : run' = Closed(run, dies) /\ Closed(run, dies).reaped = "ok"
        BY <3>2, KillsTypes DEF StopCloses, TypeOK
      <4>2. QED  BY <2>1, <4>1, ClosedFacts
    <3>3. CASE ~(StopCloses /\ stop' = "wait")
      <4>1. stop = "wait" \/ Finalizing(run)
        <5>1. Finalizing(run)' => Finalizing(run)
          BY <1>1, <2>1, EndingStays DEF Finalizing
        <5>2. StopCloses \/ stop' = stop
          BY <1>1 DEF Spawn, RecordProcess, HandshakeOk, StartFails, ProviderExits,
               ProcessEndStuck, TurnDone, InterruptBegins, InterruptEnds, InterruptFails, PromptOk
        <5>3. QED  BY <3>1, <3>3, <5>1, <5>2
      <4>2. run.phase = "up" \/ (run.phase = "recorded" /\ ~run.closed)
        BY <1>1, <2>1, <3>1, RunSteps DEF PInv
      <4>3. run.phase = "up"
        BY <4>1, <4>2 DEF PInv, EndingOK
      <4>4. Dead(run)
        BY <4>1, <4>3 DEF PInv
      <4>5. QED  BY <1>1, <2>1, <3>1, <4>3, <4>4, RunSteps DEF PInv
    <3>4. QED  BY <3>2, <3>3
  <2>6. QED  BY <2>2, <2>3, <2>4, <2>5 DEF PInv
<1>2. CASE ConvergeActive
  <2>1. Finalizing(run) /\ run \in Run
    BY <1>2 DEF ConvergeActive, Finalizing, TypeOK
  <2>2. run.proc # "alive" /\ (run.phase = "up" => Dead(run))
    BY <2>1 DEF PInv, EndingOK, Finalizing, Dead
  <2>3. run.phase \in {"up", "failed", "missing"}
    BY <2>1 DEF EndingOK
  <2>4. "spared" \notin Outlives(run)
    BY <2>1, <2>2, <2>3 DEF Outlives, Dead, Run
  <2>5. run' = NoRun /\ stop' = "idle" /\ strays' = strays \union Outlives(run)
    BY <1>2 DEF ConvergeActive
  <2>6. QED  BY <2>4, <2>5 DEF PInv, Finalizing
<1>5. CASE Finalizes
  <2>1. /\ run \in Run /\ run # NoRun /\ run'.phase = run.phase /\ UNCHANGED <<stop, strays>>
        /\ run.phase \in {"up", "failed", "missing"}
    BY <1>5, FinalizeFacts, RunFacts
  <2>2. /\ run'.proc # "alive" /\ (run.closed => run'.closed)
        /\ run'.phase = "up" => Dead(run')
    <3>1. CASE StartAborted \/ ProcessEnd
      <4>1. PICK dies, r : /\ dies \in BOOLEAN /\ r = Closed(run, dies)
                           /\ run' = [r EXCEPT !.ending = Outcome(r)]
                           /\ run.phase = "up" => run.proc = "gone"
        BY <3>1, KillsTypes DEF StartAborted, ProcessEnd, Finalize, TypeOK
      <4>2. /\ r \in Run /\ r.closed /\ r.proc # "alive"
            /\ run.proc = "gone" => r.proc = "gone"
        <5>1. /\ Closed(run, dies) \in Run /\ Closed(run, dies).closed
              /\ Closed(run, dies).proc # "alive"
              /\ run.proc = "gone" => Closed(run, dies).proc = "gone"
          BY <2>1, <4>1, ClosedTypes, ClosedFacts
        <5>2. QED  BY <4>1, <5>1
      <4>3. run' = [r EXCEPT !.ending = Outcome(r)]
        BY <4>1
      <4>4. run'.proc = r.proc /\ run'.closed
        BY <4>2, <4>3, OutcomeTypes DEF Run
      <4>5. QED  BY <2>1, <4>1, <4>2, <4>4 DEF Dead
    <3>2. CASE StopConverges
      <4>1. stop = "wait" /\ run' = [run EXCEPT !.ending = Outcome(run)]
        BY <3>2 DEF StopConverges, Finalize
      <4>2. run'.proc = run.proc /\ run'.closed = run.closed
        BY <2>1, <4>1 DEF Run
      <4>3. QED  BY <2>1, <4>1, <4>2 DEF PInv, Dead
    <3>3. QED  BY <1>5, <3>1, <3>2 DEF Finalizes
  <2>3. QED  BY <2>1, <2>2 DEF PInv
<1>3. CASE Restart
  <2>1. run' = NoRun /\ stop' = "idle" /\ "spared" \notin strays /\ "spared" \notin Orphaned(run)
    BY <1>3 DEF Restart, PInv, Orphaned
  <2>2. "spared" \notin strays'
    <3>1. strays' \subseteq strays \union Orphaned(run) \union {"stuck"}
      BY <1>3 DEF Restart
    <3>2. QED  BY <2>1, <3>1
  <2>3. QED  BY <2>1, <2>2 DEF PInv, Finalizing
<1>4. CASE \/ StrayExits \/ SendConverges \/ AppendInput \/ StartTurn \/ Deliver \/ Ensure
           \/ Started \/ PromptFails \/ AppendAccepted \/ RetryFires
           \/ (\E m \in Msgs : SendMessage(m) \/ DelayPasses(m))
           \/ StopBegins \/ StartBegins \/ StartDelivers \/ Archive
  <2>1. /\ \/ run' = run
           \/ /\ run \in Run /\ run' \in Run /\ run'.phase = run.phase /\ run'.proc = run.proc
              /\ run'.closed = run.closed /\ run'.ending = run.ending
           \/ run = NoRun /\ ~Refusing /\ CreateRun /\ run' \in Run /\ run'.phase = "new" /\ run'.proc = "none"
        /\ stop' \in {stop, "close"} /\ strays' \subseteq strays
    BY <1>4, OtherRuns
  <2>2. stop' = "wait" => run'.closed
    BY <2>1 DEF PInv, CallsOK
  <2>3. run' # NoRun => /\ run'.phase = "new" => run'.proc = "none"
                        /\ run'.phase \in {"failed", "missing"} => run'.proc # "alive"
                        /\ run'.phase = "up" /\ run'.closed => run'.proc # "alive"
    BY <2>1, RunFacts DEF PInv
  <2>4. stop' = "wait" \/ Finalizing(run)' => (run'.phase = "up" => Dead(run'))
    BY <2>1, RunFacts DEF PInv, Finalizing, Dead
  <2>5. QED  BY <2>1, <2>2, <2>3, <2>4 DEF PInv
<1>6. QED
  BY <1>1, <1>2, <1>3, <1>4, <1>5 DEF Next, ProcessSteps, InputSteps, Finalizes

LEMMA InitOInv == Init => OInv /\ PInv
BY JobFacts DEF Init, OInv, PInv, Finalizing

LEMMA NextOInv ==
  ASSUME "overlap" \notin Calls
  PROVE  TInv /\ OInv /\ [Next]_vars => OInv'
<1>1. ASSUME TInv, OInv, Next PROVE OInv'
  BY <1>1, StepOInv DEF TInv
<1>2. ASSUME OInv, UNCHANGED vars PROVE OInv'
  BY <1>2 DEF vars, durable, calls, world, history, OInv, Recorded
<1>3. QED  BY <1>1, <1>2

LEMMA NextPInv ==
  ASSUME Adapter = "pi"
  PROVE  TInv /\ PInv /\ [Next]_vars => PInv'
<1>1. ASSUME TInv, PInv, Next PROVE PInv'
  BY <1>1, StepPInv DEF TInv
<1>2. ASSUME PInv, UNCHANGED vars PROVE PInv'
  BY <1>2 DEF vars, durable, calls, world, history, PInv, Finalizing, Dead
<1>3. QED  BY <1>1, <1>2

(* Behind a run that was up and ended (Stop, ProcessEnd) the Pi adapter    *)
(* leaves no process at all, and behind a start that failed none but one   *)
(* that Close could not kill; with any calls at any time.                  *)
THEOREM SpecStoppedMeansDead ==
  ASSUME Adapter = "pi"
  PROVE  Spec => []StoppedMeansDead
<1>1. TInv /\ PInv /\ [Next]_vars => PInv'
  BY NextPInv
<1>2. PInv => StoppedMeansDead
  BY DEF PInv, StoppedMeansDead
<1>3. QED  BY <1>1, <1>2, InitTInv, InitOInv, StepTInv, PTL DEF Spec

(* With the Pi adapter and no Start that overlaps an input, a provider     *)
(* that outlives the daemon is on record, and none is started beside it.   *)
THEOREM SpecProvidersKnown ==
  ASSUME Adapter = "pi", "overlap" \notin Calls
  PROVE  Spec => []ProvidersKnown
<1>1. TInv /\ PInv /\ [Next]_vars => PInv'
  BY NextPInv
<1>2. TInv /\ OInv /\ [Next]_vars => OInv'
  BY NextOInv
<1>3. TypeOK /\ OInv /\ PInv => ProvidersKnown
  BY RunFacts DEF OInv, PInv, ProvidersKnown, Recoverable, OneProvider, Recorded, TypeOK
<1>4. TInv => TypeOK
  BY DEF TInv
<1>5. QED  BY <1>1, <1>2, <1>3, <1>4, InitTInv, InitOInv, StepTInv, PTL DEF Spec

-----------------------------------------------------------------------------
(* The Turns of the Session, of its run and of the call that delivers.     *)

(* A Turn is known only by inputs that the log holds.                      *)
ToldInv ==
  /\ sess.turn # NoTurn => msgs[sess.turn].state # "none"
  /\ \A m \in Msgs : msgs[m].state # "none" => msgs[msgs[m].turn].state # "none"
  /\ job.pc = "input" => job.turn = job.m \/ msgs[job.turn].state # "none"

(* The Turn of the run is the Session's; the call that delivers a pending  *)
(* input has its Turn open, and opens one of its own when none is.         *)
TurnInv ==
  /\ run # NoRun => run.turn \in {NoTurn, sess.turn}
  /\ job.pc \in {"ensure", "wait", "prompt"} => (Pending(job.m) => sess.turn = job.turn)
  /\ job.pc = "open" => sess.turn = NoTurn
  /\ job.pc = "input" => (job.turn = job.m => sess.turn = NoTurn)

(* What convergence leaves of the Turn.                                    *)
LEMMA ConvergedTurns ==
  ASSUME TypeOK, NEW reason
  PROVE  /\ ConvergedSession(reason).turn \in {sess.turn, NoTurn}
         /\ \A m \in Msgs :
              ConvergedMessages(reason)[m].state \in PendingStates /\ msgs[m].turn = sess.turn
                => ConvergedSession(reason).turn = sess.turn
<1>1. CASE sess.st = "archived" \/ Converged
  <2>1. ConvergedSession(reason) = sess
    BY <1>1 DEF ConvergedSession
  <2>2. QED  BY <2>1
<1>2. CASE ~(sess.st = "archived" \/ Converged)
  <2>1. ConvergedSession(reason).turn = ConvergedTurn(reason)
    <3>1. ConvergedSession(reason) =
            [SetState(sess, "stopped", ReasonOf(reason)) EXCEPT !.turn = ConvergedTurn(reason)]
      BY <1>2 DEF ConvergedSession
    <3>2. QED  BY <3>1 DEF SetState, Session, TypeOK
  <2>2. \A m \in Msgs : ConvergedMessages(reason)[m] = ConvergedMessage(m, reason)
    BY <1>2 DEF ConvergedMessages
  <2>3. QED  BY <2>1, <2>2 DEF ConvergedTurn
<1>3. QED  BY <1>1, <1>2

(* The call goes on with the message and the Turn it has, or begins anew.  *)
JobCalm ==
  \/ job'.pc = job.pc /\ job'.m = job.m /\ job'.turn = job.turn
  \/ job'.pc \in {"idle", "deliver", "converge", "accept"}
  \/ /\ job.pc \in {"ensure", "wait"} /\ job'.pc \in {"wait", "prompt"}
     /\ job'.m = job.m /\ job'.turn = job.turn
  \/ \E m \in Msgs : job' = Decision(sess', m)

LEMMA DecisionFacts ==
  ASSUME NEW ss \in Session, NEW m \in Msgs, job' = Decision(ss, m)
  PROVE  \/ job'.pc \in {"idle", "deliver"}
         \/ job'.pc = "input" /\ job'.m = m /\ job'.turn = m /\ ss.turn = NoTurn
         \/ job'.pc = "input" /\ job'.m = m /\ job'.turn = ss.turn /\ ss.turn \in Msgs
            /\ msgs[m].state = "none"
<1>1. \/ job' = Idle \/ \E t : job' = NewJob("deliver", m, t, {})
      \/ ss.turn = NoTurn /\ job' = NewJob("input", m, m, {})
      \/ ss.turn \in Msgs /\ msgs[m].state = "none" /\ job' = NewJob("input", m, ss.turn, {})
  BY DEF Decision, Session, Turns
<1>2. QED  BY <1>1, JobFacts DEF NewJob

LEMMA ToldStays ==
  ASSUME TypeOK, TypeOK', InputsOK, Keeps, ToldInv, JobCalm,
         sess'.turn \in {sess.turn, NoTurn}
  PROVE  ToldInv'
<1>1. /\ \A m \in Msgs : /\ msgs'[m].state = "none" <=> msgs[m].state = "none"
                         /\ msgs'[m].turn = msgs[m].turn
                         /\ msgs[m].state # "none" => msgs[m].turn \in Msgs
      /\ sess.turn \in Turns /\ sess'.turn \in Turns
  BY DEF Keeps, InputsOK, TypeOK, Session
<1>2. sess'.turn # NoTurn => msgs'[sess'.turn].state # "none"
  BY <1>1 DEF ToldInv, Turns
<1>3. job'.pc = "input" => job'.turn = job'.m \/ msgs'[job'.turn].state # "none"
  <2>1. CASE job'.pc = job.pc /\ job'.m = job.m /\ job'.turn = job.turn
    BY <1>1, <2>1 DEF InputsOK, ToldInv
  <2>2. CASE \E m \in Msgs : job' = Decision(sess', m)
    <3>1. PICK m \in Msgs : job' = Decision(sess', m)
      BY <2>2
    <3>2. sess' \in Session
      BY DEF TypeOK
    <3>3. QED  BY <1>1, <1>2, <3>1, <3>2, DecisionFacts
  <2>3. QED  BY <2>1, <2>2 DEF JobCalm
<1>4. \A m \in Msgs : msgs'[m].state # "none" => msgs'[msgs'[m].turn].state # "none"
  BY <1>1 DEF ToldInv
<1>5. QED  BY <1>2, <1>3, <1>4 DEF ToldInv

(* The Turn of the Session stays, as long as the call's input is pending.  *)
LEMMA TurnStays ==
  ASSUME TypeOK, TypeOK', InputsOK, Keeps, ToldInv, TurnInv, JobCalm,
         sess'.turn \in {sess.turn, NoTurn},
         job.pc \in {"ensure", "wait", "prompt"} /\ Pending(job.m) /\ msgs'[job.m].state \in PendingStates
           => sess'.turn = sess.turn,
         run' # NoRun => run'.turn \in {NoTurn, sess'.turn}
  PROVE  TurnInv'
<1>1. job'.pc \in {"ensure", "wait", "prompt"} => (Pending(job.m)' => sess'.turn = job'.turn)
  <2>1. SUFFICES ASSUME job'.pc \in {"ensure", "wait", "prompt"}, Pending(job.m)'
                 PROVE  sess'.turn = job'.turn
    OBVIOUS
  <2>2. \A m \in Msgs : job' # Decision(sess', m)
    <3>1. sess' \in Session
      BY DEF TypeOK
    <3>2. QED  BY <2>1, <3>1, DecisionFacts
  <2>3. /\ job.pc \in {"ensure", "wait", "prompt"} /\ job'.m = job.m /\ job'.turn = job.turn
    BY <2>1, <2>2 DEF JobCalm
  <2>4. job.m \in Msgs
    BY <2>3, JobFacts DEF TypeOK
  <2>5. Pending(job.m) /\ msgs'[job.m].state \in PendingStates
    BY <2>1, <2>3, <2>4 DEF Keeps, Pending
  <2>6. QED  BY <2>3, <2>5 DEF TurnInv
<1>2. job'.pc = "open" => sess'.turn = NoTurn
  <2>1. \A m \in Msgs : job' = Decision(sess', m) => job'.pc # "open"
    <3>1. sess' \in Session
      BY DEF TypeOK
    <3>2. QED  BY <3>1, DecisionFacts
  <2>2. QED  BY <2>1 DEF JobCalm, TurnInv
<1>3. job'.pc = "input" => (job'.turn = job'.m => sess'.turn = NoTurn)
  <2>1. CASE \E m \in Msgs : job' = Decision(sess', m)
    <3>1. PICK m \in Msgs : job' = Decision(sess', m)
      BY <2>1
    <3>2. sess' \in Session
      BY DEF TypeOK
    <3>3. sess'.turn \in Msgs => msgs[sess'.turn].state # "none"
      BY DEF ToldInv
    <3>4. QED  BY <3>1, <3>2, <3>3, DecisionFacts
  <2>2. CASE job'.pc = job.pc /\ job'.m = job.m /\ job'.turn = job.turn
    BY <2>2 DEF TurnInv
  <2>3. QED  BY <2>1, <2>2 DEF JobCalm
<1>4. QED  BY <1>1, <1>2, <1>3 DEF TurnInv

(* A Turn ends with its inputs.                                            *)
LEMMA TurnCloses ==
  ASSUME TypeOK, TypeOK', InputsOK, ToldInv, TurnInv, run.turn # NoTurn,
         NEW verdict \in {"closed", "failed", "cancelled"},
         sess' = CloseTurn(sess, run.turn), msgs' = SettleTurn(run.turn, verdict),
         run'.turn = NoTurn, job' = job
  PROVE  ToldInv' /\ TurnInv'
<1>1. Keeps
  BY KeepsFacts DEF TypeOK
<1>2. sess'.turn = IF sess.turn = run.turn THEN NoTurn ELSE sess.turn
  BY SessFacts DEF TypeOK
<1>3. ToldInv'
  BY <1>1, <1>2, ToldStays DEF JobCalm
<1>4. ASSUME job.pc \in {"ensure", "wait", "prompt"}, Pending(job.m),
             msgs'[job.m].state \in PendingStates
      PROVE  sess'.turn = sess.turn
  <2>1. job.m \in Msgs /\ msgs[job.m].turn = job.turn
    BY <1>4, JobFacts DEF TypeOK, InputsOK
  <2>2. msgs[job.m].turn # run.turn
    <3>1. SUFFICES ASSUME msgs[job.m].turn = run.turn PROVE FALSE
      OBVIOUS
    <3>2. msgs'[job.m] = [msgs[job.m] EXCEPT !.state = verdict, !.later = FALSE]
      BY <1>4, <2>1, <3>1 DEF SettleTurn
    <3>3. msgs'[job.m].state = verdict
      BY <2>1, <3>2 DEF TypeOK, Message
    <3>4. QED  BY <1>4, <3>3 DEF PendingStates
  <2>3. QED  BY <1>2, <1>4, <2>1, <2>2 DEF TurnInv
<1>5. QED  BY <1>1, <1>2, <1>3, <1>4, TurnStays DEF JobCalm

(* The Session converges, and no run is left.                              *)
LEMMA TurnConverges ==
  ASSUME TypeOK, TypeOK', InputsOK, ToldInv, TurnInv, NEW reason,
         sess' = ConvergedSession(reason), msgs' = ConvergedMessages(reason),
         run' = NoRun, JobCalm
  PROVE  ToldInv' /\ TurnInv'
<1>1. Keeps
  BY KeepsFacts DEF TypeOK
<1>2. sess'.turn \in {sess.turn, NoTurn}
  BY ConvergedTurns
<1>3. ToldInv'
  BY <1>1, <1>2, ToldStays
<1>4. ASSUME job.pc \in {"ensure", "wait", "prompt"}, Pending(job.m),
             msgs'[job.m].state \in PendingStates
      PROVE  sess'.turn = sess.turn
  <2>1. job.m \in Msgs /\ msgs[job.m].turn = job.turn
    BY <1>4, JobFacts DEF TypeOK, InputsOK
  <2>2. msgs[job.m].turn = sess.turn
    BY <1>4, <2>1 DEF TurnInv
  <2>3. QED  BY <1>4, <2>1, <2>2, ConvergedTurns
<1>5. QED  BY <1>1, <1>2, <1>3, <1>4, TurnStays

LEMMA RunTurnStays ==
  ASSUME TypeOK, InputsOK, CallsOK,
         \/ Spawn \/ RecordProcess \/ HandshakeOk \/ StartFails \/ ProviderExits
         \/ ProcessEndStuck \/ StopCloses \/ InterruptBegins \/ InterruptFails
         \/ PromptOk \/ Finalizes
  PROVE  run'.turn = run.turn
<1>0. run # NoRun /\ run \in Run /\ run' \in Run
  BY StaysFacts, RunFacts DEF Stays
<1>5. CASE Finalizes
  BY <1>5, FinalizeFacts
<1>1. CASE Spawn \/ RecordProcess \/ HandshakeOk \/ ProviderExits \/ InterruptBegins
           \/ InterruptFails \/ PromptOk
  BY <1>0, <1>1 DEF Spawn, RecordProcess, HandshakeOk, ProviderExits, InterruptBegins,
       InterruptFails, PromptOk, Run
<1>2. CASE StartFails
  <2>1. PICK why \in {"failed", "missing"}, dies \in BOOLEAN :
          run' = [(IF Adapter = "pi" /\ run.phase = "recorded" THEN Closed(run, dies)
                   ELSE run) EXCEPT !.phase = why]
    BY <1>2 DEF StartFails
  <2>2. Closed(run, dies) \in Run /\ Closed(run, dies).turn = run.turn
    BY <1>0, ClosedTypes
  <2>3. QED  BY <1>0, <2>1, <2>2 DEF Run
<1>3. CASE ProcessEndStuck \/ StopCloses
  <2>1. \E dies \in BOOLEAN : run' = Closed(run, dies)
    BY <1>3, KillsTypes DEF ProcessEndStuck, StopCloses, TypeOK
  <2>2. QED  BY <1>0, <2>1, ClosedTypes
<1>6. QED  BY <1>0, <1>1, <1>2, <1>3, <1>5

LEMMA StepTurnInv ==
  ASSUME "overlap" \notin Calls, TypeOK, TypeOK', InputsOK, CallsOK, OInv,
         ToldInv, TurnInv, Next
  PROVE  ToldInv' /\ TurnInv'
<1> USE DEF durable, calls, world, history
<1>n. \A pc, m, t, rest : NewJob(pc, m, t, rest).pc = pc
  BY DEF NewJob
<1>o. \A rest : NextJob(rest) => job'.pc \in {"idle", "deliver"}
  <2>1. \A rest : NextJob(rest) =>
          job' = Idle \/ \E m, t, left : job' = NewJob("deliver", m, t, left)
    BY DEF NextJob
  <2>2. QED  BY <1>n, <2>1, JobFacts
<1>1. CASE \/ Spawn \/ RecordProcess \/ HandshakeOk \/ StartFails \/ ProviderExits
           \/ ProcessEndStuck \/ StopCloses \/ InterruptBegins \/ InterruptFails
           \/ PromptOk \/ Finalizes
  <2>1. run # NoRun /\ run \in Run /\ run' \in Run
    BY <1>1, StaysFacts, RunFacts DEF Stays
  <2>2. run'.turn = run.turn
    BY <1>1, RunTurnStays
  <2>3. sess'.turn = sess.turn /\ msgs' = msgs
    <3>1. /\ msgs' = msgs
          /\ \/ sess' = sess \/ sess' = [sess EXCEPT !.open = TRUE]
             \/ \E st \in {"running", "ready", "stopping"} : sess' = SetState(sess, st, "none")
      BY <1>1 DEF Spawn, RecordProcess, HandshakeOk, StartFails, ProviderExits,
           ProcessEndStuck, StopCloses, InterruptBegins, InterruptFails, PromptOk, Finalizes,
           StartAborted, ProcessEnd, StopConverges
    <3>2. [sess EXCEPT !.open = TRUE].turn = sess.turn
      BY SessFacts DEF TypeOK
    <3>3. \A st \in {"running", "ready", "stopping"} : SetState(sess, st, "none").turn = sess.turn
      BY SessFacts DEF TypeOK
    <3>4. QED  BY <3>1, <3>2, <3>3
  <2>4. JobCalm
    <3>1. CASE PromptOk
      <4>1. job \in Job /\ job' = [job EXCEPT !.pc = "accept"]
        BY <3>1, JobFacts DEF PromptOk, GoTo, TypeOK
      <4>2. QED  BY <4>1 DEF Job, JobCalm
    <3>2. CASE ~PromptOk
      BY <1>1, <3>2 DEF Spawn, RecordProcess, HandshakeOk, StartFails, ProviderExits,
           ProcessEndStuck, StopCloses, InterruptBegins, InterruptFails, Finalizes,
           StartAborted, ProcessEnd, StopConverges, JobCalm
    <3>3. QED  BY <3>1, <3>2
  <2>5. Keeps
    BY <2>3, KeepsFacts DEF TypeOK
  <2>6. run'.turn \in {NoTurn, sess'.turn}
    BY <2>1, <2>2, <2>3 DEF TurnInv
  <2>7. QED  BY <2>3, <2>4, <2>5, <2>6, ToldStays, TurnStays
<1>2. CASE TurnDone \/ InterruptEnds
  <2>1. run # NoRun /\ run \in Run /\ job' = job
    BY <1>2, StaysFacts, RunFacts DEF Stays, TurnDone, InterruptEnds
  <2>2. CASE /\ run.turn # NoTurn /\ run'.turn = NoTurn /\ sess' = CloseTurn(sess, run.turn)
             /\ \E v \in {"closed", "failed", "cancelled"} : msgs' = SettleTurn(run.turn, v)
    BY <2>1, <2>2, TurnCloses
  <2>3. CASE sess' = sess /\ msgs' = msgs /\ run'.turn = run.turn
    <3>1. Keeps /\ JobCalm
      BY <2>1, <2>3, KeepsFacts DEF TypeOK, JobCalm
    <3>2. run'.turn \in {NoTurn, sess'.turn}
      BY <2>1, <2>3 DEF TurnInv
    <3>3. QED  BY <2>3, <3>1, <3>2, ToldStays, TurnStays
  <2>4. QED
    <3>1. CASE TurnDone
      <4>1. PICK t \in run.work, v \in {"closed", "failed"} :
              IF run.turn = NoTurn \/ Finalizing(run)
              THEN /\ run' = [run EXCEPT !.work = @ \ {t}]
                   /\ UNCHANGED <<sess, msgs>>
              ELSE /\ run' = [run EXCEPT !.work = @ \ {t}, !.turn = NoTurn,
                                         !.interrupted = FALSE]
                   /\ sess' = CloseTurn(sess, run.turn)
                   /\ msgs' = SettleTurn(run.turn, IF run.interrupted THEN "cancelled" ELSE v)
        BY <3>1 DEF TurnDone
      <4>2. CASE run.turn = NoTurn \/ Finalizing(run)
        <5>1. run'.turn = run.turn
          BY <2>1, <4>1, <4>2 DEF Run
        <5>2. QED  BY <2>3, <4>1, <4>2, <5>1
      <4>3. CASE ~(run.turn = NoTurn \/ Finalizing(run))
        <5>1. run'.turn = NoTurn
          BY <2>1, <4>1, <4>3 DEF Run
        <5>2. \E w \in {"closed", "failed", "cancelled"} : msgs' = SettleTurn(run.turn, w)
          BY <4>1, <4>3
        <5>3. QED  BY <2>2, <4>1, <4>3, <5>1, <5>2
      <4>4. QED  BY <4>2, <4>3
    <3>2. CASE InterruptEnds
      <4>1. CASE run.turn # NoTurn /\ run.interrupted /\ ~Finalizing(run)
        <5>1. run'.turn = NoTurn
          BY <2>1, <3>2, <4>1 DEF InterruptEnds, Run
        <5>2. QED  BY <2>2, <3>2, <4>1, <5>1 DEF InterruptEnds
      <4>2. CASE ~(run.turn # NoTurn /\ run.interrupted /\ ~Finalizing(run))
        BY <2>3, <3>2, <4>2 DEF InterruptEnds
      <4>3. QED  BY <4>1, <4>2
    <3>3. QED  BY <1>2, <3>1, <3>2
<1>3. CASE ConvergeActive
  <2>1. JobCalm
    <3>1. CASE job = Idle
      BY <1>3, <3>1, JobFacts DEF ConvergeActive, JobCalm
    <3>2. CASE job # Idle
      BY <1>3, <3>2 DEF ConvergeActive, JobCalm, TypeOK, Job
    <3>3. QED  BY <3>1, <3>2
  <2>2. QED  BY <1>3, <2>1, TurnConverges DEF ConvergeActive, Converge
<1>4. CASE Restart
  <2>1. run' = NoRun /\ JobCalm
    BY <1>4, JobFacts DEF Restart, JobCalm
  <2>2. CASE Converge(RecoveryReason)
    BY <2>1, <2>2, TurnConverges DEF Converge
  <2>3. CASE ~Converge(RecoveryReason)
    <3>1. msgs' = msgs /\ (sess' = sess \/ sess' = SetState(sess, "stopping", "none"))
      BY <1>4, <2>3 DEF Restart
    <3>2. Keeps
      BY <3>1, KeepsFacts DEF TypeOK
    <3>3. SetState(sess, "stopping", "none").turn = sess.turn
      BY SessFacts DEF TypeOK
    <3>4. QED  BY <2>1, <3>1, <3>2, <3>3, ToldStays, TurnStays
  <2>4. QED  BY <2>2, <2>3
<1>5. CASE \/ StrayExits \/ Archive \/ StartDelivers \/ RetryFires \/ StopBegins \/ StartBegins
           \/ PromptFails \/ AppendAccepted \/ Ensure
           \/ \E m \in Msgs : DelayPasses(m) \/ SendMessage(m)
  <2>1. Keeps
    BY <1>5, StepMoves DEF OtherSteps
  <2>2. CASE StopBegins /\ run = NoRun
    <3>1. Converge("requested") /\ run' = NoRun /\ job' = job
      BY <2>2 DEF StopBegins
    <3>2. QED  BY <3>1, TurnConverges DEF Converge, JobCalm
  <2>3. CASE ~(StopBegins /\ run = NoRun)
    <3>1. sess'.turn = sess.turn
      <4>1. \/ sess' = sess \/ sess' = [sess EXCEPT !.st = "archived"]
            \/ \E st \in {"starting", "stopping"}, rs \in {"none", "requested"} :
                 sess' = SetState(sess, st, rs)
        BY <1>5, <2>3 DEF StrayExits, Archive, StartDelivers, RetryFires, StopBegins, StartBegins,
             PromptFails, AppendAccepted, Ensure, DelayPasses, SendMessage, CreateRun
      <4>2. [sess EXCEPT !.st = "archived"].turn = sess.turn
        BY DEF TypeOK, Session
      <4>3. \A st \in {"starting", "stopping"} : \A rs : SetState(sess, st, rs).turn = sess.turn
        BY SessFacts DEF TypeOK
      <4>4. QED  BY <4>1, <4>2, <4>3
    <3>2. run' # NoRun => run'.turn \in {NoTurn, sess'.turn}
      <4>1. \/ run' = run \/ CreateRun
            \/ run # NoRun /\ run' = [run EXCEPT !.asked = TRUE]
        BY <1>5, <2>3 DEF StrayExits, Archive, StartDelivers, RetryFires, StopBegins, StartBegins,
             PromptFails, AppendAccepted, Ensure, DelayPasses, SendMessage
      <4>2. CASE run' = run
        BY <3>1, <4>2 DEF TurnInv
      <4>3. CASE CreateRun
        BY <3>1, <4>3, NewRun DEF TypeOK
      <4>4. CASE run # NoRun /\ run' = [run EXCEPT !.asked = TRUE]
        <5>1. run'.turn = run.turn
          BY <4>4 DEF TypeOK, Run
        <5>2. QED  BY <3>1, <4>4, <5>1 DEF TurnInv
      <4>5. QED  BY <4>1, <4>2, <4>3, <4>4
    <3>3. JobCalm
      <4>1. CASE StrayExits \/ Archive \/ StopBegins \/ StartBegins \/ \E m \in Msgs : DelayPasses(m)
        BY <4>1 DEF StrayExits, Archive, StopBegins, StartBegins, DelayPasses, JobCalm
      <4>2. CASE StartDelivers \/ RetryFires \/ PromptFails \/ AppendAccepted
        BY <1>o, <4>2, JobFacts DEF StartDelivers, RetryFires, PromptFails, AppendAccepted,
             Done, Retry, JobCalm
      <4>3. CASE Ensure
        <5>1. job \in Job /\ job.pc = "ensure" /\ \E h : job' = [job EXCEPT !.pc = "wait", !.held = h]
          BY <4>3, JobFacts DEF Ensure, TypeOK
        <5>2. job'.pc = "wait" /\ job'.m = job.m /\ job'.turn = job.turn
          BY <5>1 DEF Job
        <5>3. QED  BY <5>1, <5>2 DEF JobCalm
      <4>4. CASE \E m \in Msgs : SendMessage(m)
        <5>1. PICK m \in Msgs : SendMessage(m)
          BY <4>4
        <5>2. job' = NewJob("converge", m, NoTurn, {}) \/ job' = Decision(sess', m)
          BY <5>1 DEF SendMessage
        <5>3. QED  BY <1>n, <5>2 DEF JobCalm
      <4>5. QED  BY <1>5, <4>1, <4>2, <4>3, <4>4
    <3>4. QED  BY <2>1, <3>1, <3>2, <3>3, ToldStays, TurnStays
  <2>4. QED  BY <2>2, <2>3
<1>6. CASE SendConverges
  <2>1. run' = NoRun /\ Converge("requested")
    BY <1>6 DEF SendConverges, OInv
  <2>2. job.m \in Msgs
    BY <1>6, JobFacts DEF SendConverges, TypeOK
  <2>3. job' = Idle \/ job' = Decision(sess', job.m)
    BY <1>6, <2>1 DEF SendConverges, Converge
  <2>4. JobCalm
    BY <2>2, <2>3, JobFacts DEF JobCalm
  <2>5. QED  BY <2>1, <2>4, TurnConverges DEF Converge
<1>7. CASE AppendInput
  <2>1. job \in Job /\ job.m \in Msgs /\ job.turn \in Msgs /\ job.pc = "input"
    BY <1>7, JobFacts DEF AppendInput, TypeOK, InputsOK
  <2>2. run' = run /\ sess' = sess
    BY <1>7 DEF AppendInput
  <2>3. CASE sess.st = "archived"
    <3>1. msgs' = msgs /\ job' = Idle
      BY <1>7, <2>3 DEF AppendInput
    <3>2. QED  BY <2>2, <3>1, JobFacts DEF ToldInv, TurnInv
  <2>4. CASE sess.st # "archived"
    <3>1. /\ msgs' = [msgs EXCEPT ![job.m] = [@ EXCEPT !.state = "new", !.turn = job.turn]]
          /\ job' = [job EXCEPT !.pc = IF job.turn = job.m THEN "open" ELSE "deliver"]
      BY <1>7, <2>4 DEF AppendInput, GoTo
    <3>2. /\ \A m \in Msgs : m # job.m => msgs'[m] = msgs[m]
          /\ msgs'[job.m].state = "new" /\ msgs'[job.m].turn = job.turn
          /\ job'.pc = IF job.turn = job.m THEN "open" ELSE "deliver"
      BY <2>1, <3>1 DEF TypeOK, Message, Job
    <3>3. \A m \in Msgs : msgs[m].state # "none" => msgs[m].turn \in Msgs
      BY DEF InputsOK
    <3>4. \A m \in Msgs : msgs[m].state # "none" => msgs'[m].state # "none"
      BY <3>2
    <3>5. msgs'[job.turn].state # "none"
      BY <2>1, <3>2, <3>4 DEF ToldInv
    <3>6. \A m \in Msgs : msgs'[m].state # "none" => msgs'[msgs'[m].turn].state # "none"
      BY <3>2, <3>3, <3>4, <3>5 DEF ToldInv
    <3>7. sess.turn \in Turns
      BY DEF TypeOK, Session
    <3>8. ToldInv'
      BY <2>2, <3>2, <3>4, <3>6, <3>7 DEF ToldInv, Turns
    <3>9. TurnInv'
      BY <2>1, <2>2, <3>2 DEF TurnInv
    <3>10. QED  BY <3>8, <3>9
  <2>5. QED  BY <2>3, <2>4
<1>8. CASE StartTurn
  <2>1. job \in Job /\ job.turn \in Msgs /\ run' = run /\ msgs' = msgs /\ job.pc = "open"
    BY <1>8, JobFacts DEF StartTurn, TypeOK, InputsOK
  <2>2. CASE sess.st = "archived"
    <3>1. sess' = sess /\ job' = Idle
      BY <1>8, <2>2 DEF StartTurn
    <3>2. QED  BY <2>1, <3>1, JobFacts DEF ToldInv, TurnInv
  <2>3. CASE sess.st # "archived"
    <3>1. sess' = OpenTurn(sess, job.turn) /\ job' = [job EXCEPT !.pc = "deliver"]
      BY <1>8, <2>3 DEF StartTurn, GoTo
    <3>2. sess'.turn = job.turn /\ job'.pc = "deliver"
      BY <2>1, <3>1, SessFacts DEF TypeOK, Job
    <3>3. msgs[job.turn].state # "none"
      BY <2>1, JobFacts DEF InputsOK, ToldInv
    <3>4. QED  BY <2>1, <3>2, <3>3 DEF ToldInv, TurnInv
  <2>4. QED  BY <2>2, <2>3
<1>9. CASE Deliver
  <2>1. job \in Job /\ job.turn \in Msgs /\ run' = run /\ job.pc = "deliver"
    BY <1>9, JobFacts DEF Deliver, TypeOK, InputsOK
  <2>2. Keeps
    BY <1>9, StepMoves DEF OtherSteps
  <2>3. CASE job' = Idle /\ sess' = sess
    BY <2>1, <2>2, <2>3, JobFacts, ToldStays, TurnStays DEF JobCalm, TurnInv
  <2>4. CASE /\ Exhausted(job.m) /\ job' = Idle
             /\ sess' = ConvergedSession("startup_error")
             /\ msgs' = ConvergedMessages("startup_error")
    BY <2>1, <2>4, JobFacts, TurnConverges DEF JobCalm, Exhausted
  <2>5. CASE /\ sess.turn \in {NoTurn, job.turn}
             /\ sess' = IF sess.turn = NoTurn THEN OpenTurn(sess, job.turn) ELSE sess
             /\ job' = [job EXCEPT !.pc = "ensure"]
    <3>1. sess'.turn = job.turn
      BY <2>5, SessFacts DEF TypeOK
    <3>2. job'.pc = "ensure" /\ job'.m = job.m /\ job'.turn = job.turn
      BY <2>1, <2>5 DEF Job
    <3>3. TurnInv'
      BY <2>1, <2>5, <3>1, <3>2 DEF TurnInv
    <3>4. msgs[job.turn].state # "none"
      BY <2>1, JobFacts DEF InputsOK, ToldInv
    <3>5. /\ \A m \in Msgs : msgs[m].state # "none" => msgs'[m].state # "none"
          /\ \A m \in Msgs : msgs'[m].state # "none" =>
               msgs[m].state # "none" /\ msgs'[m].turn = msgs[m].turn /\ msgs[m].turn \in Msgs
      BY <2>2 DEF Keeps, InputsOK
    <3>6. ToldInv'
      <4>1. \A m \in Msgs : msgs'[m].state # "none" => msgs'[msgs'[m].turn].state # "none"
        BY <3>5 DEF ToldInv
      <4>2. msgs'[job.turn].state # "none"
        BY <2>1, <3>4, <3>5
      <4>3. QED  BY <3>1, <3>2, <4>1, <4>2 DEF ToldInv
    <3>7. QED  BY <3>3, <3>6
  <2>6. QED  BY <1>9, <2>3, <2>4, <2>5 DEF Deliver, Retry, GiveUp, GoTo
<1>10. CASE Started
  <2>1. /\ job \in Job /\ job.m \in Msgs /\ sess' = sess /\ job.pc = "wait"
        /\ job.turn = msgs[job.m].turn
    BY <1>10, JobFacts DEF Started, TypeOK, InputsOK
  <2>2. Keeps
    BY <1>10, StepMoves DEF OtherSteps
  <2>3. CASE run' = run /\ (NextJob(job.rest) \/ job' = Idle)
    <3>1. JobCalm
      BY <1>o, <2>3, JobFacts DEF JobCalm
    <3>2. QED  BY <2>1, <2>2, <2>3, <3>1, ToldStays, TurnStays DEF TurnInv
  <2>4. CASE /\ Pending(job.m) /\ job' = [job EXCEPT !.pc = "prompt"]
             /\ run' = IF job.held \in {"own", "cur"} THEN [run EXCEPT !.turn = job.turn] ELSE run
    <3>1. job'.pc = "prompt" /\ job'.m = job.m /\ job'.turn = job.turn
      BY <2>1, <2>4 DEF Job
    <3>2. sess.turn = job.turn
      BY <2>1, <2>4 DEF TurnInv
    <3>3. run' # NoRun => run'.turn \in {NoTurn, sess'.turn}
      <4>1. CASE job.held \in {"own", "cur"}
        <5>1. run \in Run
          BY <2>1, <4>1, JobFacts DEF CallsOK, TypeOK
        <5>2. QED  BY <2>1, <2>4, <3>2, <4>1, <5>1 DEF Run
      <4>2. CASE job.held \notin {"own", "cur"}
        BY <2>1, <2>4, <4>2 DEF TurnInv
      <4>3. QED  BY <4>1, <4>2
    <3>4. JobCalm
      BY <2>1, <3>1 DEF JobCalm
    <3>5. QED  BY <2>1, <2>2, <3>3, <3>4, ToldStays, TurnStays
  <2>5. QED  BY <1>10, <2>3, <2>4 DEF Started, Done, GiveUp, Retry, GoTo
<1>11. QED
  BY <1>1, <1>2, <1>3, <1>4, <1>5, <1>6, <1>7, <1>8, <1>9, <1>10
     DEF Next, ProcessSteps, InputSteps, Finalizes

-----------------------------------------------------------------------------
(* A Stop holds until a user asks for work.                                *)

(* The run of a stopped Session is the one that Stop marked, and its end,  *)
(* or the recovery after a restart, settles every input, unless that end   *)
(* was decided before the Stop; the log tells the next daemon of the       *)
(* request, and that there is something to recover.                        *)
StopInv ==
  /\ run # NoRun => wanted \/ run.asked \/ outrun
  /\ \/ wanted \/ outrun
     \/ \A m \in Msgs : ~Pending(m)
     \/ run # NoRun
     \/ sess.st = "stopping" /\ sess.asked /\ job = Idle /\ resume = "none"
  /\ run # NoRun /\ run.asked =>
       /\ sess.asked
       /\ \/ sess.open \/ sess.st = "stopping"
          \/ sess.st = "running" /\ sess.turn # NoTurn /\ run.turn = NoTurn

(* Convergence on request leaves no input pending.                         *)
LEMMA RequestConverges ==
  ASSUME TypeOK, sess.st # "archived", msgs' = ConvergedMessages("requested")
  PROVE  \A m \in Msgs : msgs'[m].state \notin PendingStates
<1>1. CASE Converged
  BY <1>1 DEF ConvergedMessages, Converged, Pending
<1>2. CASE ~Converged
  <2>1. \A m \in Msgs : msgs'[m] = ConvergedMessage(m, "requested")
    BY <1>2 DEF ConvergedMessages
  <2>2. \A m \in Msgs : ConvergedMessage(m, "requested").state \notin PendingStates
    BY DEF ConvergedMessage, Pending, PendingStates, TypeOK, Message
  <2>3. QED  BY <2>1, <2>2
<1>3. QED  BY <1>1, <1>2

LEMMA StepStopInv ==
  ASSUME "overlap" \notin Calls, TypeOK, TypeOK', InputsOK, CallsOK, OInv, TurnInv,
         StopInv, Next
  PROVE  StopInv'
<1> USE DEF durable, calls, world, history
<1>1. CASE \/ Spawn \/ RecordProcess \/ HandshakeOk \/ StartFails \/ ProviderExits
           \/ ProcessEndStuck \/ StopCloses \/ InterruptBegins \/ InterruptFails
           \/ PromptOk \/ Finalizes
  <2>1. /\ run # NoRun /\ run \in Run /\ run' \in Run /\ run' # NoRun
        /\ wanted' = wanted /\ outrun' = outrun
    BY <1>1, StaysFacts, FinalizeFacts, RunFacts
       DEF Stays, Spawn, RecordProcess, HandshakeOk, StartFails,
         ProviderExits, ProcessEndStuck, StopCloses, InterruptBegins, InterruptFails, PromptOk
  <2>2. run'.asked = run.asked
    <3>1. HandshakeOk => run'.asked = run.asked
      BY <2>1 DEF HandshakeOk, Run
    <3>2. QED  BY <1>1, <3>1, PhaseFacts
  <2>3. run'.turn = run.turn
    BY <1>1, RunTurnStays
  <2>4. run.asked => \/ sess' = sess \/ sess' = [sess EXCEPT !.open = TRUE]
                     \/ sess' = SetState(sess, "stopping", "none")
    BY <1>1, FinalizeFacts DEF Spawn, RecordProcess, HandshakeOk, StartFails, ProviderExits,
         ProcessEndStuck, StopCloses, InterruptBegins, InterruptFails, PromptOk
  <2>5. run.asked => /\ sess'.asked
                     /\ \/ sess'.open \/ sess'.st = "stopping"
                        \/ sess'.st = "running" /\ sess'.turn # NoTurn /\ run'.turn = NoTurn
    <3>1. CASE sess' = sess
      BY <2>1, <2>3, <3>1 DEF StopInv
    <3>2. CASE sess' = [sess EXCEPT !.open = TRUE]
      BY <2>1, <3>2 DEF StopInv, Session, TypeOK
    <3>3. CASE sess' = SetState(sess, "stopping", "none")
      BY <2>1, <3>3, SessFacts DEF StopInv, TypeOK
    <3>4. QED  BY <2>4, <3>1, <3>2, <3>3
  <2>6. QED  BY <2>1, <2>2, <2>5 DEF StopInv
<1>2. CASE TurnDone \/ InterruptEnds
  <2>1. /\ run # NoRun /\ run \in Run /\ run' \in Run /\ run' # NoRun
        /\ wanted' = wanted /\ outrun' = outrun
        /\ run'.asked = run.asked
    BY <1>2, StaysFacts, PhaseFacts, RunFacts DEF Stays, TurnDone, InterruptEnds
  <2>2. \/ sess' = sess /\ (run' = run \/ \E t : run' = [run EXCEPT !.work = @ \ {t}])
        \/ sess' = CloseTurn(sess, run.turn) /\ run.turn # NoTurn
    BY <1>2 DEF TurnDone, InterruptEnds
  <2>3. run.asked => /\ sess'.asked
                     /\ \/ sess'.open \/ sess'.st = "stopping"
                        \/ sess'.st = "running" /\ sess'.turn # NoTurn /\ run'.turn = NoTurn
    <3>1. CASE sess' = sess /\ (run' = run \/ \E t : run' = [run EXCEPT !.work = @ \ {t}])
      <4>1. run'.turn = run.turn
        BY <2>1, <3>1 DEF Run
      <4>2. QED  BY <2>1, <3>1, <4>1 DEF StopInv
    <3>2. CASE sess' = CloseTurn(sess, run.turn) /\ run.turn # NoTurn
      BY <2>1, <3>2, SessFacts DEF StopInv, TypeOK
    <3>3. QED  BY <2>2, <3>1, <3>2
  <2>4. QED  BY <2>1, <2>3 DEF StopInv
<1>3. CASE ConvergeActive
  <2>1. /\ run # NoRun /\ run' = NoRun /\ wanted' = wanted /\ Converge(run.ending)
        /\ outrun' = (outrun \/ (run.asked /\ run.ending # "requested"))
    BY <1>3 DEF ConvergeActive, Finalizing
  <2>2. ~wanted /\ ~outrun' => \A m \in Msgs : msgs'[m].state \notin PendingStates
    <3>1. SUFFICES ASSUME ~wanted, ~outrun'
                   PROVE  \A m \in Msgs : msgs'[m].state \notin PendingStates
      OBVIOUS
    <3>2. run.asked
      BY <2>1, <3>1 DEF StopInv, TypeOK
    <3>3. run.ending = "requested"
      BY <2>1, <3>1, <3>2
    <3>4. sess.st # "archived"
      BY <2>1 DEF OInv
    <3>5. QED  BY <2>1, <3>3, <3>4, RequestConverges DEF Converge
  <2>3. QED  BY <2>1, <2>2 DEF StopInv, Pending
<1>4. CASE Restart
  <2>1. run' = NoRun /\ wanted' = wanted /\ outrun' = outrun /\ job' = Idle /\ resume' = "none"
    BY <1>4 DEF Restart
  <2>2. Keeps
    BY <1>4, StepMoves DEF OtherSteps
  <2>3. SUFFICES ASSUME ~wanted, ~outrun, \E m \in Msgs : Pending(m)
                 PROVE  \/ \A m \in Msgs : msgs'[m].state \notin PendingStates
                        \/ sess'.st = "stopping" /\ sess'.asked
    BY <2>1, <2>2 DEF StopInv, Keeps, Pending
  <2>4. /\ sess.asked /\ sess.st # "archived" /\ NeedsRecovery
    <3>1. run # NoRun => run.asked
      BY <2>3 DEF StopInv
    <3>2. sess.open \/ sess.st \in {"stopping", "running"}
      BY <2>3, <3>1 DEF StopInv
    <3>3. sess.asked /\ sess.st # "archived"
      BY <2>3, <3>1 DEF StopInv, OInv
    <3>4. QED  BY <3>2, <3>3 DEF NeedsRecovery
  <2>5. RecoveryReason = "requested"
    BY <2>4 DEF RecoveryReason
  <2>6. Converge("requested") \/ sess' = SetState(sess, "stopping", "none")
    BY <1>4, <2>4, <2>5 DEF Restart
  <2>7. QED
    BY <2>4, <2>6, RequestConverges, SessFacts DEF Converge, TypeOK
<1>5. CASE StopBegins
  <2>1. sess.st # "archived" /\ wanted' = FALSE /\ job' = job
    BY <1>5 DEF StopBegins
  <2>2. CASE run = NoRun
    <3>1. run' = NoRun /\ Converge("requested")
      BY <1>5, <2>2 DEF StopBegins
    <3>2. QED  BY <2>1, <3>1, RequestConverges DEF Converge, StopInv, Pending
  <2>3. CASE run # NoRun
    <3>1. run \in Run /\ run' = [run EXCEPT !.asked = TRUE] /\ sess' = SetState(sess, "stopping", "requested")
      BY <1>5, <2>3 DEF StopBegins, TypeOK
    <3>2. run'.asked /\ run' # NoRun
      <4>1. run' \in Run
        BY <3>1, RunEdits
      <4>2. run'.asked
        BY <3>1 DEF Run
      <4>3. QED  BY <4>1, <4>2, RunFacts
    <3>3. sess'.asked /\ sess'.st = "stopping"
      BY <3>1, SessFacts DEF TypeOK
    <3>4. QED  BY <3>2, <3>3 DEF StopInv
  <2>4. QED  BY <2>2, <2>3
<1>6. CASE StartBegins
  <2>1. CASE run = NoRun
    <3>1. CreateRun /\ wanted' = TRUE
      BY <1>6, <2>1 DEF StartBegins
    <3>2. QED  BY <3>1, NewRun DEF StopInv, TypeOK
  <2>2. CASE run # NoRun
    BY <1>6, <2>2 DEF StartBegins, StopInv
  <2>3. QED  BY <2>1, <2>2
<1>7. CASE StrayExits \/ Archive \/ StartDelivers \/ RetryFires
           \/ \E m \in Msgs : DelayPasses(m) \/ SendMessage(m)
  <2>1. Keeps
    BY <1>7, StepMoves DEF OtherSteps
  <2>2. run' = run /\ wanted' = wanted /\ outrun' = outrun
    BY <1>7 DEF StrayExits, Archive, StartDelivers, RetryFires, DelayPasses, SendMessage
  <2>3. \/ sess' = sess
        \/ run = NoRun /\ sess.st = "stopped"
    BY <1>7 DEF StrayExits, Archive, StartDelivers, RetryFires, DelayPasses, SendMessage
  <2>4. sess.st = "stopping" /\ job = Idle /\ resume = "none" => job' = Idle /\ resume' = "none"
    BY <1>7 DEF StrayExits, Archive, StartDelivers, RetryFires, DelayPasses, SendMessage,
         Refusing
  <2>5. run # NoRun =>
          (run.asked => /\ sess'.asked
                        /\ \/ sess'.open \/ sess'.st = "stopping"
                           \/ sess'.st = "running" /\ sess'.turn # NoTurn /\ run'.turn = NoTurn)
    BY <2>2, <2>3 DEF StopInv
  <2>6. ~wanted /\ ~outrun =>
          \/ \A m \in Msgs : ~Pending(m)
          \/ run # NoRun
          \/ sess'.st = "stopping" /\ sess'.asked /\ job' = Idle /\ resume' = "none"
    <3>1. CASE sess.st = "stopping" /\ sess.asked /\ job = Idle /\ resume = "none"
      <4>1. sess' = sess
        BY <2>3, <3>1
      <4>2. QED  BY <2>4, <3>1, <4>1
    <3>2. QED  BY <3>1 DEF StopInv
  <2>7. (\A m \in Msgs : ~Pending(m)) => \A m \in Msgs : msgs'[m].state \notin PendingStates
    BY <2>1 DEF Keeps
  <2>8. QED  BY <2>2, <2>5, <2>6, <2>7 DEF StopInv, Pending
<1>8. CASE SendConverges \/ PromptFails \/ AppendAccepted \/ Deliver \/ Started \/ StartTurn \/ Ensure
  <2>1. Keeps
    BY <1>8, StepMoves DEF OtherSteps
  <2>2. job \in Job /\ job # Idle /\ wanted' = wanted /\ outrun' = outrun
    BY <1>8, JobFacts DEF SendConverges, PromptFails, AppendAccepted, Deliver, Started,
         StartTurn, Ensure, TypeOK
  <2>3. (\A m \in Msgs : ~Pending(m)) => \A m \in Msgs : msgs'[m].state \notin PendingStates
    BY <2>1 DEF Keeps
  <2>4. ~wanted /\ ~outrun => (\A m \in Msgs : ~Pending(m)) \/ run # NoRun
    BY <2>2 DEF StopInv
  <2>5. CASE SendConverges
    <3>1. run = NoRun /\ run' = NoRun
      BY <2>5 DEF SendConverges, OInv
    <3>2. QED  BY <2>2, <2>3, <2>4, <3>1 DEF StopInv, Pending
  <2>6. CASE PromptFails \/ AppendAccepted
    <3>1. run' = run /\ sess' = sess
      BY <2>6 DEF PromptFails, AppendAccepted
    <3>2. QED  BY <2>2, <2>3, <2>4, <3>1 DEF StopInv, Pending
  <2>7. CASE Deliver \/ StartTurn
    <3>1. run' = run /\ job.turn # NoTurn
      BY <2>2, <2>7, JobFacts DEF Deliver, StartTurn, InputsOK
    <3>2. run # NoRun => \/ sess' = sess
                         \/ sess' = OpenTurn(sess, job.turn) /\ sess.turn = NoTurn
      BY <2>7 DEF Deliver, StartTurn, TurnInv, Exhausted
    <3>3. run # NoRun /\ run.asked => 
            /\ sess'.asked
            /\ \/ sess'.open \/ sess'.st = "stopping"
               \/ sess'.st = "running" /\ sess'.turn # NoTurn /\ run'.turn = NoTurn
      BY <3>1, <3>2, SessFacts DEF StopInv, TurnInv, TypeOK
    <3>4. QED  BY <2>2, <2>3, <2>4, <3>1, <3>3 DEF StopInv, Pending
  <2>8. CASE Started
    <3>1. sess' = sess
      BY <2>8 DEF Started
    <3>2. CASE run' = run
      BY <2>2, <2>3, <2>4, <3>1, <3>2 DEF StopInv, Pending
    <3>3. CASE run' # run
      <4>1. /\ run' = [run EXCEPT !.turn = job.turn] /\ StartOk(job.held)
            /\ job.held \in {"own", "cur"}
        BY <2>8, <3>3 DEF Started
      <4>2. run \in Run /\ run # NoRun /\ run.phase = "up"
        BY <2>2, <4>1, RunFacts DEF StartOk, CallsOK, TypeOK
      <4>3. sess.open
        BY <4>2 DEF OInv, Recorded
      <4>4. run' \in Run /\ run' # NoRun /\ run'.asked = run.asked
        <5>1. run' \in Run
          BY <2>2, <4>1, <4>2, RunEdits, JobFacts
        <5>2. run'.asked = run.asked
          BY <4>1, <4>2 DEF Run
        <5>3. QED  BY <5>1, <5>2, RunFacts
      <4>5. QED  BY <2>2, <3>1, <4>2, <4>3, <4>4 DEF StopInv
    <3>4. QED  BY <3>2, <3>3
  <2>9. CASE Ensure
    <3>1. CASE run' = run /\ sess' = sess
      BY <2>2, <2>3, <2>4, <3>1 DEF StopInv, Pending
    <3>2. CASE run = NoRun /\ Pending(job.m) /\ CreateRun
      <4>1. wanted \/ outrun
        BY <2>2, <2>4, <3>2, JobFacts
      <4>2. QED  BY <2>2, <3>2, <4>1, NewRun DEF StopInv, TypeOK
    <3>3. QED  BY <2>9, <3>1, <3>2 DEF Ensure
  <2>10. QED  BY <1>8, <2>5, <2>6, <2>7, <2>8, <2>9
<1>9. CASE AppendInput
  <2>1. run' = run /\ sess' = sess /\ job # Idle /\ outrun' = outrun
    BY <1>9, JobFacts DEF AppendInput
  <2>2. wanted' = TRUE \/ (wanted' = wanted /\ msgs' = msgs)
    BY <1>9 DEF AppendInput
  <2>3. QED  BY <2>1, <2>2 DEF StopInv, Pending
<1>10. QED
  BY <1>1, <1>2, <1>3, <1>4, <1>5, <1>6, <1>7, <1>8, <1>9
     DEF Next, ProcessSteps, InputSteps, Finalizes

LEMMA InitTurns == Init => ToldInv /\ TurnInv /\ StopInv
BY JobFacts DEF Init, ToldInv, TurnInv, StopInv, Pending, PendingStates

(* With no Start that overlaps an input, no timer, late call or restart of *)
(* the daemon brings a stopped Session back to life, if the end of its run *)
(* was not decided before the Stop and published after it; for every       *)
(* adapter.                                                                *)
THEOREM SpecStopHolds ==
  ASSUME "overlap" \notin Calls
  PROVE  Spec => []StopHolds
<1>1. TInv /\ OInv /\ [Next]_vars => OInv'
  BY NextOInv
<1>2. TInv /\ TInv' /\ OInv /\ ToldInv /\ TurnInv /\ [Next]_vars => ToldInv' /\ TurnInv'
  <2>1. ASSUME TInv, TInv', OInv, ToldInv, TurnInv, Next PROVE ToldInv' /\ TurnInv'
    BY <2>1, StepTurnInv DEF TInv
  <2>2. ASSUME ToldInv, TurnInv, UNCHANGED vars PROVE ToldInv' /\ TurnInv'
    BY <2>2 DEF vars, durable, calls, world, history, ToldInv, TurnInv, Pending
  <2>3. QED  BY <2>1, <2>2
<1>3. TInv /\ TInv' /\ OInv /\ TurnInv /\ StopInv /\ [Next]_vars => StopInv'
  <2>1. ASSUME TInv, TInv', OInv, TurnInv, StopInv, Next PROVE StopInv'
    BY <2>1, StepStopInv DEF TInv
  <2>2. ASSUME StopInv, UNCHANGED vars PROVE StopInv'
    BY <2>2 DEF vars, durable, calls, world, history, StopInv, Pending
  <2>3. QED  BY <2>1, <2>2
<1>4. StopInv => StopHolds
  BY DEF StopInv, StopHolds
<1>5. QED
  BY <1>1, <1>2, <1>3, <1>4, InitTInv, InitOInv, InitTurns, StepTInv, PTL DEF Spec

====
