-------------------------- MODULE ResourceMailbox --------------------------
(***************************************************************************)
(* One resource of `pua serve`: its durable mailbox, its current           *)
(* generation, the controller job that moves messages into the AgentHub    *)
(* Session of that generation (reconcileResourceMailboxLocked), and the    *)
(* jobs that put the Session to sleep, wake it, replace it and end its     *)
(* Turn.  All jobs of a resource run one at a time on its controller       *)
(* (enqueueResourceController), so a job is atomic between its calls to    *)
(* AgentHub; AgentHub, new messages and crashes come in between.           *)
(***************************************************************************)
EXTENDS GenerationPlanner, Naturals, FiniteSets

CONSTANTS
  Msgs,            \* messages that may be sent to the resource
  MaxFaults,       \* lost or late calls, crashes, provider exits, replacements
  MaxTurns,        \* Turns of one Session
  SendModes,       \* requested modes of the messages
  Steerable,       \* the provider accepts input into an active Turn
  CreateFaults,    \* creating a Session may fail or lose its reply
  IdleSleep,       \* the idle deadline may pass
  Replies,         \* AgentHub starts a Turn of its own for an approval reply
  MaxStartFailures \* maxTaskStateRecoveryAttempts

ASSUME MailboxAssumption ==
  /\ NoMessage \notin Msgs /\ IsFiniteSet(Msgs)
  /\ MaxFaults \in Nat /\ MaxTurns \in Nat /\ MaxStartFailures \in Nat \ {0}
  /\ SendModes \subseteq Modes
  /\ {Steerable, IdleSleep, Replies, CreateFaults} \subseteq BOOLEAN

\* Every generation after the first is the result of a fault or a replacement.
Gens == 1 .. MaxFaults + 1
Turns == {<<0, 0>>} \union (Gens \X (1 .. MaxTurns))
NoTurn == <<0, 0>>

VARIABLES
  mail,      \* the mailbox: its messages, durable
  rec,       \* the current generation record, durable, or NoRec
  lastGen,   \* the largest generation number used
  hub,       \* AgentHub: one Session per generation
  archived,  \* the resource was archived
  w,         \* the running controller job
  retireQ,   \* a retirement job of the current generation is queued (volatile)
  late,      \* Message requests PUA gave up on that AgentHub may still process
  faults

vars == <<mail, rec, lastGen, hub, archived, w, retireQ, late, faults>>

Statuses == PendingStatuses \union
  {"none", "delivered", "cancelled", "undeliverable", "delivery_unknown"}
Terminal == {"delivered", "cancelled", "undeliverable", "delivery_unknown"}
HubStates == {"none", "ready", "running", "stopping", "stopped", "archived"}
RecordStatuses == {"starting", "idle", "running", "stopping", "stopped",
                   "idle-suspended", "recovering"}
Steps == {"idle", "recover", "pass", "create", "resume", "interrupt", "deliver",
          "stop", "stopwait", "archive", "endturn"}

Message == [status: Statuses, requested: Modes, actual: Modes, frozen: BOOLEAN,
            seq: 0 .. Cardinality(Msgs), gen: {0} \union Gens, turn: Turns,
            intTurn: Turns, cut: BOOLEAN, promoted: BOOLEAN,
            fails: 0 .. MaxStartFailures]
GenRecord == [gen: Gens, bound: BOOLEAN, status: RecordStatuses,
              replacement: BOOLEAN, idleSleep: BOOLEAN, unavailable: BOOLEAN,
              receipt: Receipts, backoff: BOOLEAN]
NoRec == [gen |-> 0]
Session == [st: HubStates, last: 0 .. MaxTurns, acc: [Msgs -> 0 .. MaxTurns]]
Job == [pc: Steps, msg: Msgs \union {NoMessage}, turn: Turns]

-----------------------------------------------------------------------------
(* The mailbox and the planner's facts.                                    *)

\* mailboxPriority
Priority(m) ==
  IF m.status = "delivering" THEN 0
  ELSE IF m.status = "interrupting" THEN 1
  ELSE IF m.promoted THEN 3
  ELSE IF m.requested = "interrupt" THEN 2
  ELSE IF m.requested = "steer" THEN 4
  ELSE 5

Pendings == {m \in Msgs : mail[m].status \in PendingStatuses}

\* Mutant: the newest message of a class goes first.
PrecedesNewest(a, b) ==
  \/ Priority(mail[a]) < Priority(mail[b])
  \/ Priority(mail[a]) = Priority(mail[b]) /\ mail[a].seq > mail[b].seq

Precedes(a, b) == \/ Priority(mail[a]) < Priority(mail[b])
                  \/ Priority(mail[a]) = Priority(mail[b]) /\ mail[a].seq < mail[b].seq

\* selectPendingMailboxMessage
Head == IF Pendings = {} THEN NoMessage
        ELSE CHOOSE m \in Pendings : \A o \in Pendings \ {m} : Precedes(m, o)

HeadFacts == IF Head = NoMessage THEN NoMessage
             ELSE [status |-> mail[Head].status, requested |-> mail[Head].requested,
                   actual |-> mail[Head].actual]

\* legacyLifecycleIntent
LegacyIntent(r) == IF r.replacement THEN "replacement"
                   ELSE IF r.unavailable THEN "recovery"
                   ELSE IF r.idleSleep THEN "idle"
                   ELSE "none"

\* AdaptLegacyGenerationFacts with an observed Session.
Adapt(r, s, due, backoff) ==
  [resourceArchived |-> FALSE, bindingChanged |-> FALSE, current |-> TRUE,
   head |-> HeadFacts, intent |-> LegacyIntent(r), receipt |-> r.receipt,
   phase |-> "absent", known |-> TRUE, session |-> s.st,
   turnActive |-> s.st = "running", approval |-> FALSE, steer |-> Steerable,
   resumeUnavailable |-> r.unavailable, backoff |-> backoff, idleDue |-> due]

ActiveTurn(g) == IF hub[g].st = "running" THEN <<g, hub[g].last>> ELSE NoTurn

\* The Turn a plan is guarded by: the active one, or the one named in the head.
FactTurn(active, m) == IF active # NoTurn THEN active
                       ELSE IF m.intTurn # NoTurn THEN m.intTurn ELSE m.turn

\* LifecycleGuardMatchesFacts: an empty guard matches anything.
GuardMatches(planned, observed) == planned = NoTurn \/ planned = observed

-----------------------------------------------------------------------------
(* The record's projection of an observed Session.                         *)

SetReceipt(r, state) == [r EXCEPT !.receipt = [op |-> @.op, state |-> state]]
Confirmed(r) == IF r.receipt.op = "stop" THEN SetReceipt(r, "succeeded") ELSE r
Resuming(r) == r.receipt.op = "resume" /\ r.receipt.state # "terminal"

PuaStatus(st) == CASE st = "ready" -> "idle" [] st = "archived" -> "recovering"
                   [] OTHER -> st

\* puaStatusForAgentHubState and projectResourceIdleState
Projected(r, s) ==
  LET asleep == CASE s.st = "running" -> FALSE
                  [] s.st = "ready" -> r.idleSleep /\ ~Resuming(r)
                  [] OTHER -> r.idleSleep
      status == IF s.st = "ready" /\ asleep THEN "stopping"
                ELSE IF s.st = "stopped" /\ asleep /\ ~r.replacement
                  THEN "idle-suspended"
                ELSE PuaStatus(s.st)
  IN [r EXCEPT !.idleSleep = asleep, !.status = status]

\* applyAgentHubSessionState closes a Resume receipt before it projects.
Applied(r, s) ==
  LET live == s.st \in {"ready", "running"}
      closed == IF live /\ r.receipt.op = "resume" THEN SetReceipt(r, "succeeded") ELSE r
  IN Projected([closed EXCEPT !.backoff = @ /\ ~live], s)

\* A replacement seen at a boundary queues its retirement.
RetireAfter(r, s) == retireQ \/ (r.replacement /\ s.st \in {"ready", "stopped"})

\* resourceGenerationLifecyclePending
LifecyclePending(r) == r.status \in {"stopping", "stopped"} /\ r.replacement

\* resourceIdleSuspensionStable
Stable(r, s) == /\ r.status = "idle-suspended" /\ r.idleSleep /\ s.st = "stopped"
                /\ r.receipt = [op |-> "stop", state |-> "succeeded"]

Failing(r) == [r EXCEPT !.status = IF @ = "stopped" THEN @ ELSE "recovering"]

NewRecord(g) == [gen |-> g, bound |-> FALSE, status |-> "starting",
                 replacement |-> FALSE, idleSleep |-> FALSE, unavailable |-> FALSE,
                 receipt |-> NoReceipt, backoff |-> FALSE]

-----------------------------------------------------------------------------
(* Shorthand for the controller job.                                       *)

Current == rec # NoRec
Bound == Current /\ rec.bound
S == hub[rec.gen]
At(pc) == w.pc = pc
Rest == [pc |-> "idle", msg |-> NoMessage, turn |-> NoTurn]
On(pc, m) == [Rest EXCEPT !.pc = pc, !.msg = m]
Go(job) == w' = job
Spend == faults < MaxFaults /\ faults' = faults + 1
Put(m, v) == mail' = [mail EXCEPT ![m] = v]
Retired == rec' = NoRec /\ retireQ' = FALSE

Init ==
  /\ mail = [m \in Msgs |->
       [status |-> "none", requested |-> "enqueue", actual |-> "enqueue",
        frozen |-> FALSE, seq |-> 0, gen |-> 0, turn |-> NoTurn,
        intTurn |-> NoTurn, cut |-> FALSE, promoted |-> FALSE, fails |-> 0]]
  /\ rec = NoRec /\ lastGen = 0
  /\ hub = [g \in Gens |-> [st |-> "none", last |-> 0, acc |-> [m \in Msgs |-> 0]]]
  /\ archived = FALSE /\ w = Rest /\ retireQ = FALSE /\ late = {} /\ faults = 0

-----------------------------------------------------------------------------
(* AgentHub, as PUA uses it: what each call does to the Session.           *)

Live(g) == hub[g].st \in {"ready", "running"}

\* Message: a known id is acknowledged again, an active Turn takes only
\* steers, anything else starts a Turn (of a stopped Session, too).
CanTake(g, m, steer) ==
  /\ hub[g].st \in {"ready", "running", "stopped"}
  /\ \/ hub[g].acc[m] # 0
     \/ hub[g].st = "running" /\ steer /\ Steerable
     \/ hub[g].st # "running" /\ hub[g].last < MaxTurns

Taken(g, m) ==
  LET s == hub[g]
      turn == IF s.st = "running" THEN s.last ELSE s.last + 1
  IN IF s.acc[m] # 0 THEN s
     ELSE [st |-> "running", last |-> turn, acc |-> [s.acc EXCEPT ![m] = turn]]

HubTo(g, st) == hub' = [hub EXCEPT ![g] = [@ EXCEPT !.st = st]]

\* The Turn ends, the provider exits, a stopping provider is gone, another
\* client archives the stopped Session.
TurnEnds(g) ==
  /\ hub[g].st = "running" /\ HubTo(g, "ready")
  /\ UNCHANGED <<mail, rec, lastGen, archived, w, retireQ, late, faults>>
ProviderExit(g) ==
  /\ Live(g) /\ HubTo(g, "stopped") /\ Spend
  /\ UNCHANGED <<mail, rec, lastGen, archived, w, retireQ, late>>
HubStopped(g) ==
  /\ hub[g].st = "stopping" /\ HubTo(g, "stopped")
  /\ UNCHANGED <<mail, rec, lastGen, archived, w, retireQ, late, faults>>
ExternalArchive(g) ==
  /\ hub[g].st = "stopped" /\ HubTo(g, "archived") /\ Spend
  /\ UNCHANGED <<mail, rec, lastGen, archived, w, retireQ, late>>

\* A text reply to an approval ends the Turn and starts the next one.
ReplyTurn(g) ==
  /\ Replies /\ hub[g].st = "running" /\ hub[g].last < MaxTurns
  /\ hub' = [hub EXCEPT ![g].last = @ + 1]
  /\ UNCHANGED <<mail, rec, lastGen, archived, w, retireQ, late, faults>>

\* AgentHub processes a request whose client gave up on it.
LateArrives(q) ==
  /\ q \in late /\ late' = late \ {q}
  /\ hub' = IF CanTake(q.gen, q.msg, q.steer)
              THEN [hub EXCEPT ![q.gen] = Taken(q.gen, q.msg)] ELSE hub
  /\ UNCHANGED <<mail, rec, lastGen, archived, w, retireQ, faults>>

-----------------------------------------------------------------------------
(* Requests of users and other resources.                                  *)

\* acceptMailboxMessage
Accept(m, mode) ==
  /\ ~archived /\ mail[m].status = "none"
  /\ Put(m, [mail[m] EXCEPT !.status = "queued", !.requested = mode, !.actual = mode,
               !.seq = 1 + Cardinality({o \in Msgs : mail[o].seq # 0})])
  /\ UNCHANGED <<rec, lastGen, hub, archived, w, retireQ, late, faults>>

ArchiveResource ==
  /\ ~archived /\ archived' = TRUE
  /\ UNCHANGED <<mail, rec, lastGen, hub, w, retireQ, late, faults>>

\* promoteWaitingMessageLocked, and the mailbox pass it runs.
Promote(m) ==
  /\ At("idle") /\ ~archived /\ mail[m].status = "queued"
  /\ Bound /\ ~rec.replacement /\ S.st = "running" /\ Steerable
  /\ Put(m, [mail[m] EXCEPT !.actual = "steer", !.frozen = TRUE, !.promoted = TRUE])
  /\ Go(On("pass", NoMessage))
  /\ UNCHANGED <<rec, lastGen, hub, archived, retireQ, late, faults>>

\* Closing the Session, rotation policies and a changed binding all ask for a
\* replacement; the retirement job follows.
RequestReplacement ==
  /\ At("idle") /\ Bound /\ ~rec.replacement /\ Spend
  /\ rec' = [rec EXCEPT !.replacement = TRUE]
  /\ retireQ' = TRUE
  /\ UNCHANGED <<mail, lastGen, hub, archived, w, late>>

\* interruptGenerationLocked: the Turn is read just before it is interrupted.
EndTurn ==
  /\ At("idle") /\ Bound /\ S.st = "running" /\ Go(On("endturn", NoMessage))
  /\ UNCHANGED <<mail, rec, lastGen, hub, archived, retireQ, late, faults>>

\* Mutant: a steer that is being delivered is cancelled, too.
PendingSteersCancelled ==
  [m \in Msgs |-> IF mail[m].status \in PendingStatuses /\ mail[m].requested = "steer"
                    THEN [mail[m] EXCEPT !.status = "cancelled"] ELSE mail[m]]

\* cancelPendingSteerMessages
SteersCancelled ==
  [m \in Msgs |-> IF mail[m].status = "queued" /\ mail[m].requested = "steer"
                    THEN [mail[m] EXCEPT !.status = "cancelled"] ELSE mail[m]]

EndTurnInterrupts ==
  /\ At("endturn") /\ S.st = "running" /\ HubTo(rec.gen, "ready")
  /\ rec' = Applied(rec, [S EXCEPT !.st = "ready"])
  /\ retireQ' = RetireAfter(rec', [S EXCEPT !.st = "ready"])
  /\ mail' = SteersCancelled /\ Go(Rest)
  /\ UNCHANGED <<lastGen, archived, late, faults>>
EndTurnFails ==
  /\ At("endturn")
  /\ \/ S.st # "running" /\ UNCHANGED <<hub, faults>>
     \/ S.st = "running" /\ Spend /\ \/ HubTo(rec.gen, "ready")
                                     \/ UNCHANGED hub
  /\ rec' = Failing(rec) /\ Go(Rest)
  /\ UNCHANGED <<mail, lastGen, archived, retireQ, late>>

-----------------------------------------------------------------------------
(* Creating a generation (createResourceGeneration).                       *)

\* The bound on Gens is never reached: see there.
StartCreate(m) ==
  /\ lastGen + 1 \in Gens
  /\ lastGen' = lastGen + 1 /\ rec' = NewRecord(lastGen + 1)
  /\ retireQ' = FALSE /\ Go(On("create", m))

\* findOrCreateAgentHubSession: a Session that an earlier attempt created under
\* the generation's source is found again.
FoundOrCreated == IF S.st = "none" THEN [S EXCEPT !.st = "ready"] ELSE S

CreateOk ==
  LET r == [rec EXCEPT !.bound = TRUE]
  IN /\ At("create") /\ hub' = [hub EXCEPT ![rec.gen] = FoundOrCreated]
     /\ rec' = Applied(r, FoundOrCreated) /\ Go(On("pass", NoMessage))
     /\ UNCHANGED <<mail, lastGen, archived, retireQ, late, faults>>

\* recordTaskStartFailure: a message that never reached a generation is given
\* up after MaxStartFailures failed starts.
CountFailure(m) ==
  IF m = NoMessage \/ mail[m].gen # 0 THEN mail
  ELSE [mail EXCEPT ![m].fails = @ + 1,
          ![m].status = IF mail[m].fails + 1 = MaxStartFailures THEN "undeliverable" ELSE @]

CreateFails ==
  /\ At("create") /\ CreateFaults /\ Spend
  /\ \/ UNCHANGED hub
     \/ S.st = "none" /\ HubTo(rec.gen, "ready")
  /\ rec' = Failing(rec) /\ mail' = CountFailure(w.msg) /\ Go(Rest)
  /\ UNCHANGED <<lastGen, archived, retireQ, late>>

-----------------------------------------------------------------------------
(* reconcileResourceMailboxLocked, one iteration of its loop.              *)

StartPass ==
  /\ At("idle") /\ Pendings # {} /\ Go(On("pass", NoMessage))
  /\ UNCHANGED <<mail, rec, lastGen, hub, archived, retireQ, late, faults>>

\* markResourceMailboxArchived
PassArchived ==
  /\ At("pass") /\ archived /\ Go(Rest)
  /\ mail' = [m \in Msgs |->
       IF m \notin Pendings THEN mail[m]
       ELSE [mail[m] EXCEPT !.status = IF @ = "delivering" THEN "delivery_unknown"
                                       ELSE "undeliverable"]]
  /\ UNCHANGED <<rec, lastGen, hub, archived, retireQ, late, faults>>

PassDone ==
  /\ At("pass") /\ ~archived /\ Head = NoMessage /\ Go(Rest)
  /\ UNCHANGED <<mail, rec, lastGen, hub, archived, retireQ, late, faults>>

Working == At("pass") /\ ~archived /\ Head # NoMessage
H == mail[Head]
Flying == H.status \in {"delivering", "interrupting"}
Associated == Current /\ H.gen = rec.gen

\* Mutant: an attempt whose generation is gone is delivered once more.
PassUnknownAgain ==
  /\ Working /\ Flying /\ ~Associated
  /\ Put(Head, [H EXCEPT !.status = "queued"])
  /\ UNCHANGED <<rec, lastGen, hub, archived, w, retireQ, late, faults>>

\* The generation of the attempt is gone: its outcome can no longer be learnt.
PassUnknown ==
  /\ Working /\ Flying /\ ~Associated
  /\ Put(Head, [H EXCEPT !.status = "delivery_unknown"])
  /\ UNCHANGED <<rec, lastGen, hub, archived, w, retireQ, late, faults>>

PassCreate ==
  /\ Working /\ ~Flying /\ ~Current /\ StartCreate(Head)
  /\ UNCHANGED <<mail, hub, archived, late, faults>>

Ready == Working /\ (Flying => Associated) /\ Current

\* A generation whose creation failed has no Session id: the lookup answers
\* 404, which retires the generation as if its Resume had failed for good.
PassUnbound ==
  /\ Ready /\ ~rec.bound /\ Retired
  /\ UNCHANGED <<mail, lastGen, hub, archived, w, late, faults>>

\* Mutant: mail is held back only once the old Session stops.
HeldBackLate == FALSE

\* A replacement owns the old generation; only a fresh interrupt may still
\* reach its Turn.
HeldBack == /\ rec.replacement /\ H.status = "queued"
            /\ H.requested # "interrupt" \/ H.cut
PassHeld ==
  /\ Ready /\ rec.bound /\ (LifecyclePending(rec) \/ HeldBack) /\ Go(Rest)
  /\ IF ~LifecyclePending(rec) /\ H.requested = "steer"
       THEN Put(Head, [H EXCEPT !.actual = "enqueue", !.frozen = TRUE])
       ELSE UNCHANGED mail
  /\ UNCHANGED <<rec, lastGen, hub, archived, retireQ, late, faults>>

\* From here on the Session was read and projected onto the record.
Observed == Ready /\ rec.bound /\ ~LifecyclePending(rec) /\ ~HeldBack
Seen == Applied(rec, S)
Active == S.st = "running"
StartsTurn == /\ H.status = "queued" /\ ~Active
              /\ ~H.frozen \/ H.actual # "steer"
Plan == PlanGeneration(Adapt(Seen, S, FALSE, Seen.backoff))
Blocked == {"StopSession", "WaitForStopped", "ArchiveSession", "WaitForSession"}
Project == rec' = Seen /\ retireQ' = RetireAfter(Seen, S)

\* prepareResourceGenerationForNewTurnLocked finds the generation used up or
\* its Agent changed.
PassReplace ==
  /\ Observed /\ StartsTurn /\ ~Seen.replacement /\ Spend
  /\ rec' = [Seen EXCEPT !.replacement = TRUE] /\ retireQ' = TRUE /\ Go(Rest)
  /\ UNCHANGED <<mail, lastGen, hub, archived, late>>

PassBlocked ==
  /\ Observed /\ Plan \in Blocked /\ Project /\ Go(Rest)
  /\ UNCHANGED <<mail, lastGen, hub, archived, late, faults>>

PassRetire ==
  /\ Observed /\ Plan = "RetireGeneration" /\ Retired
  /\ UNCHANGED <<mail, lastGen, hub, archived, w, late, faults>>

PassResume ==
  /\ Observed /\ Plan = "ResumeSession"
  /\ rec' = [Seen EXCEPT !.status = "starting",
                         !.receipt = [op |-> "resume", state |-> "requested"]]
  /\ retireQ' = RetireAfter(Seen, S)
  /\ Go([On("resume", Head) EXCEPT !.turn = FactTurn(NoTurn, H)])
  /\ UNCHANGED <<mail, lastGen, hub, archived, late, faults>>

Proceeds == Observed /\ Plan \notin Blocked \union {"RetireGeneration", "ResumeSession"}
Guarded(pc) == [On(pc, Head) EXCEPT !.turn = FactTurn(ActiveTurn(rec.gen), H)]

\* Mutant: an interrupted Turn does not put its message back into the queue.
PassInterruptingStays ==
  /\ Proceeds /\ H.status = "interrupting" /\ Project /\ UNCHANGED mail
  /\ IF Active /\ H.intTurn = ActiveTurn(rec.gen) THEN Go(Guarded("interrupt"))
     ELSE Go(Rest)
  /\ UNCHANGED <<lastGen, hub, archived, late, faults>>

\* A message that is interrupting repeats the call while its Turn runs (not
\* more often than every 5 s: mailboxAttemptDue), waits for another Turn to
\* end, and queues again once nothing runs.
PassInterrupting ==
  /\ Proceeds /\ H.status = "interrupting" /\ Project
  /\ \/ /\ Active /\ H.intTurn = ActiveTurn(rec.gen)
        /\ Go(Guarded("interrupt")) /\ UNCHANGED mail
     \/ Active /\ Go(Rest) /\ UNCHANGED mail
     \/ /\ ~Active /\ Put(Head, [H EXCEPT !.status = "queued", !.cut = TRUE])
        /\ IF Seen.replacement THEN Go(Rest) ELSE UNCHANGED w
  /\ UNCHANGED <<lastGen, hub, archived, late, faults>>

\* The requested mode is resolved once, against what the Session does now.
FreshInterrupt == H.status = "queued" /\ ~H.frozen /\ H.requested = "interrupt" /\ ~H.cut
Resolved ==
  IF H.status # "queued" \/ H.frozen THEN H
  ELSE [H EXCEPT !.frozen = TRUE,
          !.actual = IF H.requested = "steer" /\ Active /\ Steerable
                       THEN "steer" ELSE "enqueue"]

PassInterrupt ==
  /\ Proceeds /\ FreshInterrupt /\ Active /\ Project
  /\ Put(Head, [H EXCEPT !.actual = "interrupt", !.frozen = TRUE,
                  !.status = "interrupting", !.gen = rec.gen,
                  !.intTurn = ActiveTurn(rec.gen)])
  /\ Go(Guarded("interrupt"))
  /\ UNCHANGED <<lastGen, hub, archived, late, faults>>

Delivers == H.status = "delivering" \/ Resolved.actual = "steer" \/ S.st = "ready"
Ordinary == /\ Proceeds /\ H.status # "interrupting" /\ ~(FreshInterrupt /\ Active)
            /\ Project
PassWait ==
  /\ Ordinary /\ (~Delivers \/ (FreshInterrupt /\ Seen.replacement))
  /\ Put(Head, Resolved) /\ Go(Rest)
  /\ UNCHANGED <<lastGen, hub, archived, late, faults>>
PassDeliver ==
  /\ Ordinary /\ Delivers /\ ~(FreshInterrupt /\ Seen.replacement)
  /\ Put(Head, [Resolved EXCEPT !.status = "delivering", !.gen = rec.gen,
                                !.turn = ActiveTurn(rec.gen)])
  /\ Go(Guarded("deliver"))
  /\ UNCHANGED <<lastGen, hub, archived, late, faults>>

-----------------------------------------------------------------------------
(* The call to AgentHub, and what is done with its answer.                 *)

M == mail[w.msg]
Steers == M.actual = "steer"

\* findCanonicalAgentHubMessage: the Turn of the message's canonical input, if
\* that input lies behind the cursor read before the delivery.
Canonical(before, after) ==
  IF before.acc[w.msg] = 0 THEN <<rec.gen, after.acc[w.msg]>> ELSE NoTurn

\* deliveredMailboxTurnID: the canonical input found after the pre-delivery
\* cursor, else the Turn of the response, else the Turn a steer went into.
DeliveredTurn(before, after) ==
  LET turn(s) == IF s.st = "running" THEN <<rec.gen, s.last>> ELSE NoTurn
  IN IF Canonical(before, after) # NoTurn THEN Canonical(before, after)
     ELSE IF turn(after) # NoTurn THEN turn(after)
     ELSE IF Steers THEN M.turn ELSE NoTurn

DeliverOk ==
  LET after == Taken(rec.gen, w.msg)
      turn == IF after.st = "running" THEN <<rec.gen, after.last>> ELSE NoTurn
  IN /\ At("deliver") /\ CanTake(rec.gen, w.msg, Steers)
     /\ hub' = [hub EXCEPT ![rec.gen] = after]
     /\ IF GuardMatches(w.turn, FactTurn(turn, M))
          THEN /\ Put(w.msg, [M EXCEPT !.status = "delivered",
                                !.turn = DeliveredTurn(S, after)])
               /\ rec' = Applied(rec, after) /\ retireQ' = RetireAfter(rec', after)
               /\ Go(On("pass", NoMessage))
          ELSE UNCHANGED <<mail, rec, retireQ>> /\ Go(Rest)
     /\ UNCHANGED <<lastGen, archived, late, faults>>

\* AgentHub refuses the message; it stays delivering and is tried again.
DeliverRefused ==
  /\ At("deliver") /\ ~CanTake(rec.gen, w.msg, Steers) /\ Go(Rest)
  /\ UNCHANGED <<mail, rec, lastGen, hub, archived, retireQ, late, faults>>

\* The reply is lost, or the request arrives after PUA gave up on it.
DeliverLost ==
  /\ At("deliver") /\ Spend /\ Go(Rest)
  /\ \/ /\ CanTake(rec.gen, w.msg, Steers)
        /\ hub' = [hub EXCEPT ![rec.gen] = Taken(rec.gen, w.msg)] /\ UNCHANGED late
     \/ /\ late' = late \union {[gen |-> rec.gen, msg |-> w.msg, steer |-> Steers]}
        /\ UNCHANGED hub
  /\ UNCHANGED <<mail, rec, lastGen, archived, retireQ>>

\* Interrupt names no Turn: it ends the one that is active when it arrives.
\* The next iteration finds the message interrupting and nothing active.
InterruptOk ==
  /\ At("interrupt") /\ S.st = "running" /\ HubTo(rec.gen, "ready")
  /\ rec' = Applied(rec, [S EXCEPT !.st = "ready"])
  /\ retireQ' = RetireAfter(rec', [S EXCEPT !.st = "ready"])
  /\ Go(On("pass", NoMessage))
  /\ UNCHANGED <<mail, lastGen, archived, late, faults>>
InterruptFails ==
  /\ At("interrupt") /\ Go(Rest)
  /\ \/ S.st # "running" /\ UNCHANGED <<hub, faults>>
     \/ S.st = "running" /\ Spend /\ HubTo(rec.gen, "ready")
  /\ UNCHANGED <<mail, rec, lastGen, archived, retireQ, late>>

\* resumeStoppedGenerationLocked
ResumeOk ==
  LET s == IF S.st = "stopped" THEN [S EXCEPT !.st = "ready"] ELSE S
      turn == IF s.st = "running" THEN <<rec.gen, s.last>> ELSE NoTurn
  IN /\ At("resume") /\ S.st # "archived"
     /\ hub' = [hub EXCEPT ![rec.gen] = s]
     /\ IF GuardMatches(w.turn, FactTurn(turn, M))
          THEN /\ rec' = [Applied(rec, s) EXCEPT
                            !.receipt = [op |-> "resume", state |-> "succeeded"],
                            !.unavailable = FALSE, !.backoff = FALSE]
               /\ Go(On("pass", NoMessage))
          ELSE UNCHANGED rec /\ Go(Rest)
     /\ UNCHANGED <<mail, lastGen, archived, retireQ, late, faults>>

Asleep(r) == IF r.idleSleep /\ ~r.replacement THEN "idle-suspended" ELSE "stopped"

\* A transient failure is retried after a backoff.
ResumeFails ==
  /\ At("resume") /\ Spend /\ Go(Rest)
  /\ \/ UNCHANGED hub
     \/ S.st = "stopped" /\ HubTo(rec.gen, "ready")
  /\ rec' = [SetReceipt(rec, "unknown") EXCEPT !.status = Asleep(rec), !.backoff = TRUE]
  /\ UNCHANGED <<mail, lastGen, archived, retireQ, late>>

\* The provider can never resume this Session: the generation is replaced
\* (retireUnresumableGenerationLocked).
ResumeImpossible ==
  /\ At("resume")
  /\ \/ S.st = "archived" /\ UNCHANGED faults /\ rec' = NoRec /\ Go(On("pass", NoMessage))
     \/ /\ S.st = "stopped" /\ Spend /\ Go(On("archive", NoMessage))
        /\ rec' = [SetReceipt(rec, "terminal") EXCEPT !.status = Asleep(rec),
                     !.unavailable = TRUE, !.replacement = TRUE, !.backoff = FALSE]
  /\ mail' = CountFailure(w.msg) /\ retireQ' = FALSE
  /\ UNCHANGED <<lastGen, hub, archived, late>>

RetryDue ==
  /\ Current /\ rec.backoff /\ At("idle") /\ rec' = [rec EXCEPT !.backoff = FALSE]
  /\ UNCHANGED <<mail, lastGen, hub, archived, w, retireQ, late, faults>>

-----------------------------------------------------------------------------
(* retireResourceGenerationLocked: Stop, wait for stopped, Archive, retire. *)

Automatic == rec.idleSleep /\ ~rec.replacement
\* Mutant: an attempt of unknown outcome does not keep the Session up.
SparedKnown == {"DeliverMessage", "InterruptTurn", "FinalizeArchivedMailbox"}

Spared == {"DeliverMessage", "InterruptTurn", "WaitForMessageReceipt",
           "FinalizeArchivedMailbox"}
RetirePlan == PlanGeneration(Adapt(rec, S, FALSE, FALSE))
Retiring == At("idle") /\ retireQ /\ Bound
Slept == Automatic /\ S.st = "stopped"
Undisturbed == Retiring /\ ~Slept /\ RetirePlan \notin Spared

RetireNothing ==
  /\ Retiring /\ ~Slept /\ retireQ' = FALSE
  /\ \/ RetirePlan \in Spared
     \/ S.st = "ready" /\ ~rec.idleSleep /\ ~rec.replacement /\ Pendings # {}
  /\ UNCHANGED <<mail, rec, lastGen, hub, archived, w, late, faults>>

\* Idle sleep ends here: the stopped Session stays current.
RetireAsleep ==
  /\ Retiring /\ Slept /\ rec' = Confirmed(Applied(rec, S)) /\ retireQ' = FALSE
  /\ UNCHANGED <<mail, lastGen, hub, archived, w, late, faults>>

RetireActive ==
  /\ Undisturbed /\ S.st = "running" /\ retireQ' = FALSE
  /\ rec' = [rec EXCEPT !.status = "running", !.idleSleep = FALSE]
  /\ UNCHANGED <<mail, lastGen, hub, archived, w, late, faults>>

RetireArchived ==
  /\ Undisturbed /\ S.st = "archived" /\ Retired
  /\ UNCHANGED <<mail, lastGen, hub, archived, w, late, faults>>

RetireStop ==
  /\ Undisturbed /\ S.st = "ready"
  /\ rec.idleSleep \/ rec.replacement \/ Pendings = {}
  /\ rec' = [rec EXCEPT !.status = "stopping",
               !.receipt = IF Automatic THEN [op |-> "stop", state |-> "requested"] ELSE @]
  /\ retireQ' = FALSE /\ Go(On("stop", NoMessage))
  /\ UNCHANGED <<mail, lastGen, hub, archived, late, faults>>

RetireContinue ==
  /\ Undisturbed /\ S.st \in {"stopping", "stopped"} /\ retireQ' = FALSE
  /\ Go(On(IF S.st = "stopping" THEN "stopwait" ELSE "archive", NoMessage))
  /\ UNCHANGED <<mail, rec, lastGen, hub, archived, late, faults>>

\* Stop ends whatever the Session does; the provider may take a while.
StopOk ==
  /\ At("stop") /\ S.st # "archived" /\ Go(On("stopwait", NoMessage))
  /\ HubTo(rec.gen, "stopped") \/ (faults < MaxFaults /\ HubTo(rec.gen, "stopping"))
  /\ UNCHANGED <<mail, rec, lastGen, archived, retireQ, late, faults>>
StopFails ==
  /\ At("stop") /\ Spend /\ Go(Rest)
  /\ \/ UNCHANGED hub
     \/ S.st # "archived" /\ HubTo(rec.gen, "stopped")
  /\ rec' = Failing(IF rec.receipt.op = "stop" THEN SetReceipt(rec, "unknown") ELSE rec)
  /\ UNCHANGED <<mail, lastGen, archived, retireQ, late>>

\* Mutant: a confirmed idle Stop falls through to Archive.
StopConfirmedArchives ==
  /\ At("stopwait") /\ S.st = "stopped" /\ Go(On("archive", NoMessage))
  /\ UNCHANGED <<mail, rec, lastGen, hub, archived, retireQ, late, faults>>

\* The confirmation poll sees stopped, or archived, or gives up.
StopConfirmed ==
  /\ At("stopwait") /\ S.st = "stopped"
  /\ IF Automatic THEN rec' = Confirmed(Applied(rec, S)) /\ Go(Rest)
                  ELSE UNCHANGED rec /\ Go(On("archive", NoMessage))
  /\ UNCHANGED <<mail, lastGen, hub, archived, retireQ, late, faults>>
StopArchived ==
  /\ At("stopwait") /\ S.st = "archived" /\ Retired /\ Go(Rest)
  /\ UNCHANGED <<mail, lastGen, hub, archived, late, faults>>
StopUnconfirmed ==
  /\ At("stopwait") /\ S.st \notin {"stopped", "archived"} /\ Spend /\ Go(Rest)
  /\ rec' = IF Automatic THEN rec ELSE Failing(rec)
  /\ UNCHANGED <<mail, lastGen, hub, archived, retireQ, late>>

\* Archive, retire the record, and start the next generation if mail waits.
ArchiveOk ==
  /\ At("archive") /\ S.st \in {"stopped", "archived"} /\ HubTo(rec.gen, "archived")
  /\ IF Pendings # {} THEN StartCreate(NoMessage)
     ELSE Retired /\ Go(Rest) /\ UNCHANGED lastGen
  /\ UNCHANGED <<mail, archived, late, faults>>
ArchiveFails ==
  /\ At("archive") /\ Go(Rest)
  /\ \/ S.st \notin {"stopped", "archived"} /\ UNCHANGED <<hub, faults>>
     \/ S.st = "stopped" /\ Spend /\ \/ HubTo(rec.gen, "archived")
                                     \/ UNCHANGED hub
  /\ rec' = Failing(rec)
  /\ UNCHANGED <<mail, lastGen, archived, retireQ, late>>

-----------------------------------------------------------------------------
(* The poller and recovery after a restart.                                *)

NoIdleStart == {"None", "WaitForSession", "WaitForMessageReceipt",
                "WaitForTurnTerminal", "DeliverMessage", "InterruptTurn",
                "ResumeSession"}

\* reconcileIdleGenerationLocked and startIdleRetirementLocked, on the record
\* r that was just projected.
GoesToSleep(r, due) ==
  /\ ~Stable(r, S) /\ ~retireQ
  /\ \/ r.idleSleep /\ S.st \in {"ready", "stopping", "stopped"}
     \/ due /\ r.status = "idle" /\ ~r.replacement /\ S.st = "ready"
  /\ PlanGeneration(Adapt(r, S, due, r.backoff)) \notin NoIdleStart

\* ApplyLegacyLifecyclePlan, of the one plan it is called with: StopSession.
StopPlanned(r, intent) ==
  [r EXCEPT !.replacement = @ \/ intent = "replacement",
            !.idleSleep = @ \/ intent = "idle", !.status = "stopping",
            !.receipt = [op |-> "stop", state |-> "requested"]]

SleepRequested(r, due) ==
  LET facts == Adapt(r, S, due, r.backoff)
      planned == IF PlanGeneration(facts) = "StopSession"
                   THEN StopPlanned(r, Intent(facts)) ELSE r
  IN [planned EXCEPT !.status = "stopping", !.idleSleep = @ \/ Intent(facts) = "idle"]

Watch(r, due) ==
  /\ due => IdleSleep
  /\ rec' = IF GoesToSleep(r, due) THEN SleepRequested(r, due) ELSE r
  /\ retireQ' = (RetireAfter(r, S) \/ GoesToSleep(r, due))

\* reconcileAgentHubGenerationLocked: look at the Session, project it (r), then
\* replace or put to sleep what is due; find a Session that was never bound.
Reconciled(r) ==
  \/ Bound /\ S.st # "archived" /\ \E due \in BOOLEAN : Watch(r, due)
  \/ Bound /\ S.st = "archived" /\ Retired
  \/ /\ Current /\ ~rec.bound /\ S.st # "none" /\ UNCHANGED retireQ
     /\ rec' = [r EXCEPT !.bound = TRUE]

Poll ==
  /\ At("idle") /\ ~archived /\ Reconciled(Projected(rec, S))
  /\ UNCHANGED <<mail, lastGen, hub, archived, w, late, faults>>
PollCreates ==
  /\ At("idle") /\ ~archived /\ Current /\ ~rec.bound /\ S.st = "none"
  /\ Go(On("create", NoMessage))
  /\ UNCHANGED <<mail, rec, lastGen, hub, archived, retireQ, late, faults>>

\* The process dies; recoverAgentHubGenerations runs first when it is back.
Crash ==
  /\ Spend /\ Go(On("recover", NoMessage)) /\ retireQ' = FALSE
  /\ UNCHANGED <<mail, rec, lastGen, hub, archived, late>>
Recover ==
  /\ At("recover")
  /\ \/ Reconciled(Applied(rec, S)) /\ Go(Rest)
     \/ ~Current /\ Go(Rest) /\ UNCHANGED <<rec, retireQ>>
     \/ /\ Current /\ ~rec.bound /\ S.st = "none" /\ Go(On("create", NoMessage))
        /\ UNCHANGED <<rec, retireQ>>
  /\ UNCHANGED <<mail, lastGen, hub, archived, late, faults>>

-----------------------------------------------------------------------------
\* handleResourceMessages accepts the message and queues a mailbox pass, which
\* StartPass stands for; promoteWaitingMessage runs its pass at once.
Sends == \E m \in Msgs, mode \in SendModes : Accept(m, mode)
Promotions == \E m \in Msgs : Promote(m)
Users == \/ Sends \/ Promotions \/ ArchiveResource \/ RequestReplacement \/ EndTurn
Pass == \/ PassArchived \/ PassDone \/ PassUnknown \/ PassCreate \/ PassUnbound
        \/ PassHeld \/ PassReplace \/ PassBlocked \/ PassRetire \/ PassResume
        \/ PassInterrupting \/ PassInterrupt \/ PassWait \/ PassDeliver
Effects == \/ EndTurnInterrupts \/ EndTurnFails \/ CreateOk \/ CreateFails
           \/ DeliverOk \/ DeliverRefused \/ DeliverLost
           \/ InterruptOk \/ InterruptFails
           \/ ResumeOk \/ ResumeFails \/ ResumeImpossible
           \/ StopOk \/ StopFails \/ StopConfirmed \/ StopArchived \/ StopUnconfirmed
           \/ ArchiveOk \/ ArchiveFails \/ Recover
Retirement == \/ RetireNothing \/ RetireAsleep \/ RetireActive \/ RetireArchived
              \/ RetireStop \/ RetireContinue
AgentHub == \/ \E g \in Gens : \/ TurnEnds(g) \/ ProviderExit(g) \/ HubStopped(g)
                               \/ ExternalArchive(g) \/ ReplyTurn(g)
            \/ \E q \in late : LateArrives(q)
Next == \/ Users \/ StartPass \/ Pass \/ Effects \/ Retirement
        \/ Poll \/ PollCreates \/ RetryDue \/ Crash \/ AgentHub

Spec == Init /\ [][Next]_vars

\* A job that started goes on; the controller serves its queue in order and
\* the poller is periodic, so each kind of job gets its turn again and again
\* even though other jobs disable it meanwhile; Turns and Stops end.
Fairness == /\ WF_vars(Pass \/ Effects)
            /\ SF_vars(StartPass) /\ SF_vars(Retirement) /\ SF_vars(Poll \/ PollCreates)
            /\ SF_vars(RetryDue)
            /\ \A g \in Gens : WF_vars(TurnEnds(g)) /\ WF_vars(HubStopped(g))
FairSpec == Spec /\ Fairness

-----------------------------------------------------------------------------
(* Properties.                                                             *)

Taker(m) == {g \in Gens : hub[g].acc[m] # 0}

TypeOK ==
  /\ mail \in [Msgs -> Message] /\ rec \in GenRecord \union {NoRec}
  /\ lastGen \in 0 .. MaxFaults + 1 /\ hub \in [Gens -> Session]
  /\ archived \in BOOLEAN /\ w \in Job /\ retireQ \in BOOLEAN
  /\ late \subseteq [gen : Gens, msg : Msgs, steer : BOOLEAN]
  /\ faults \in 0 .. MaxFaults

\* A final status tells the sender the truth: delivered only if AgentHub took
\* the message, cancelled and undeliverable only if it did not and never will.
HonestStatus ==
  \A m \in Msgs :
    /\ mail[m].status = "delivered" => Taker(m) # {}
    /\ mail[m].status \in {"cancelled", "undeliverable"} =>
         Taker(m) = {} /\ \A q \in late : q.msg # m

\* Two enqueued messages nobody promoted reach AgentHub in the order they were
\* accepted, whatever was lost, retried or replaced on the way.
InOrder ==
  \A a, b \in Msgs :
    /\ mail[a].requested = "enqueue" /\ mail[b].requested = "enqueue"
    /\ ~mail[a].promoted /\ ~mail[b].promoted
    /\ 0 < mail[a].seq /\ mail[a].seq < mail[b].seq /\ Taker(b) # {}
    => mail[a].status \in Terminal

\* No AgentHub Session outlives its generation: every Session but the current
\* one is archived.
NoOrphanSession ==
  \A g \in Gens : hub[g].st \notin {"none", "archived"} =>
    Current /\ (rec.gen = g)

\* PUA only archives a Session whose replacement was asked for: idle sleep,
\* with all its retries, never retires a generation.
SleepIsReversible == At("archive") => rec.replacement

\* While a replacement is pending no waiting message is handed to the old
\* generation (except an interrupt its user promoted: see the README).
ReplacementHoldsMail ==
  [][\A m \in Msgs :
       /\ mail[m].status = "queued" /\ mail'[m].status = "delivering"
       /\ ~(mail[m].promoted /\ mail[m].requested = "interrupt")
       => ~rec'.replacement]_vars

\* Stop never lands on a Turn, unless the resource itself was archived.
StopSparesTurn ==
  [][At("stop") /\ ~At("stop")' /\ ~archived => S.st # "running"]_vars

\* The mailbox keeps its promise to the sender, across lost and late calls,
\* replaced generations and restarts: at most one input, true final verdicts.
Fate == [m \in Msgs |->
  CASE mail[m].status = "none" -> "unsent"
    [] mail[m].status \in PendingStatuses -> "open"
    [] mail[m].status = "delivered" -> "delivered"
    [] mail[m].status = "delivery_unknown" -> "unknown"
    [] OTHER -> "dropped"]
Promise == INSTANCE MailboxPromise WITH
  fate <- Fate, inputs <- [m \in Msgs |-> Cardinality(Taker(m))]
PromiseKept == Promise!Spec

\* Every accepted message is eventually settled.
Settles ==
  \A m \in Msgs : mail[m].status = "queued" ~> mail[m].status \in Terminal
=============================================================================
