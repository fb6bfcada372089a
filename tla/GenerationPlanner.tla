------------------------- MODULE GenerationPlanner -------------------------
(***************************************************************************)
(* PlanGeneration (internal/serve/generation_lifecycle.go): the pure       *)
(* function from the facts about one generation of a resource (its durable *)
(* record, its AgentHub Session, the head of its mailbox) to the one       *)
(* operation that may run next.  Identities are left out: the callers that *)
(* compare them do so in their own module.                                 *)
(***************************************************************************)

CONSTANT NoMessage   \* no pending mailbox message

SessionStates == {"starting", "ready", "running", "waiting_approval",
                  "stopping", "stopped", "archived"}
Phases == {"absent", "creating", "ready", "active", "stopping", "stopped",
           "archived", "recovering"}
Intents == {"none", "idle", "recovery", "replacement", "archive"}
Modes == {"enqueue", "steer", "interrupt"}
PendingStatuses == {"queued", "delivering", "interrupting"}
Receipts == [op: {"none", "stop", "resume", "archive", "deliver", "interrupt"},
             state: {"none", "requested", "unknown", "retryable", "succeeded",
                     "terminal"}]
NoReceipt == [op |-> "none", state |-> "none"]
Operations ==
  {"None", "CreateGeneration", "ObserveSession", "DeliverMessage",
   "InterruptTurn", "StopSession", "WaitForStopped", "ResumeSession",
   "ArchiveSession", "RetireGeneration", "WaitForSession",
   "WaitForTurnTerminal", "WaitForMessageReceipt", "FinalizeArchivedMailbox"}

\* GenerationMessageFacts of the first pending message.
Heads == [status: PendingStatuses, requested: Modes, actual: Modes]

\* GenerationLifecycleFacts; head = NoMessage means MailboxPending is false,
\* and session is only meaningful when known.
Facts == [resourceArchived: BOOLEAN, bindingChanged: BOOLEAN,
          current: BOOLEAN, head: Heads \union {NoMessage},
          intent: Intents, receipt: Receipts, phase: Phases,
          known: BOOLEAN, session: SessionStates, turnActive: BOOLEAN,
          approval: BOOLEAN, steer: BOOLEAN, resumeUnavailable: BOOLEAN,
          backoff: BOOLEAN, idleDue: BOOLEAN]

ASSUME NoMessageAssumption == NoMessage \notin Heads

Pending(f) == f.head # NoMessage

\* What the adapter guarantees: an active Turn is a fact about the Session.
Consistent(f) ==
  f.turnActive => f.known /\ f.session \in {"running", "waiting_approval"}

-----------------------------------------------------------------------------
(* observedGenerationPhase: the Session outranks the record's projection.  *)

PhaseOf == [s \in SessionStates |->
  CASE s = "starting" -> "creating"
    [] s \in {"running", "waiting_approval"} -> "active"
    [] OTHER -> s]

Phase(f) == IF f.known THEN PhaseOf[f.session] ELSE f.phase

\* normalizeGenerationFacts: a known stopped Session is resumable until a
\* terminal Resume failure was recorded.
Resumable(f) == f.known /\ f.session = "stopped" /\ ~f.resumeUnavailable

Busy(f) == f.turnActive \/ f.approval

InFlight(f) == Pending(f) /\ f.head.status \in {"delivering", "interrupting"}

\* generationLifecycleIntent: which lifecycle goal is in force.
Intent(f) ==
  IF f.resourceArchived THEN "archive"
  ELSE IF f.bindingChanged /\ f.intent # "archive" THEN "replacement"
  ELSE IF f.resumeUnavailable /\ f.intent \notin {"archive", "replacement"}
    THEN "recovery"
  ELSE IF f.intent = "idle" /\ (Pending(f) \/ Busy(f)) THEN "none"
  ELSE IF f.intent = "none" /\ f.idleDue /\ ~Pending(f) /\ ~Busy(f) THEN "idle"
  ELSE f.intent

ResumeOrWait(f) == IF f.backoff THEN "WaitForSession" ELSE "ResumeSession"

\* planMessage: what may be done for the first pending message.
PlanMessage(f) ==
  LET active == Busy(f) \/ Phase(f) = "active"
  IN IF ~Pending(f) THEN "ObserveSession"
     ELSE IF InFlight(f) THEN "WaitForMessageReceipt"
     ELSE IF Phase(f) \in {"stopping", "archived"} THEN "WaitForStopped"
     ELSE IF Phase(f) = "stopped"
       THEN IF Resumable(f) THEN ResumeOrWait(f) ELSE "WaitForStopped"
     ELSE IF active /\ f.head.requested = "interrupt" THEN "InterruptTurn"
     ELSE IF active /\ f.head.actual = "steer" /\ f.steer THEN "DeliverMessage"
     ELSE IF active THEN "WaitForTurnTerminal"
     ELSE IF Phase(f) # "ready" THEN "WaitForSession"
     ELSE "DeliverMessage"

\* A generation being replaced still lets a queued interrupt end its Turn.
InterruptsReplaced(f, intent) ==
  /\ intent = "replacement" /\ f.turnActive /\ Pending(f)
  /\ f.head.requested = "interrupt" /\ f.head.status = "queued"

\* planLifecycleIntent: Stop, then Archive, then Retire, one boundary at a
\* time; idle sleep ends at the stopped boundary.
PlanIntent(f, intent) ==
  IF intent = "idle" /\ Phase(f) = "stopped" /\ ~f.resumeUnavailable THEN "None"
  ELSE IF InterruptsReplaced(f, intent) THEN PlanMessage(f)
  ELSE IF Busy(f) \/ Phase(f) = "active" THEN "WaitForTurnTerminal"
  ELSE IF ~f.known \/ Phase(f) \in {"creating", "recovering"} THEN "WaitForSession"
  ELSE CASE Phase(f) = "ready" -> "StopSession"
         [] Phase(f) = "stopping" -> "WaitForStopped"
         [] Phase(f) = "stopped" -> "ArchiveSession"
         [] Phase(f) = "archived" -> "RetireGeneration"
         [] OTHER -> "ObserveSession"

\* planReceiptRecovery: an effect whose outcome was never confirmed is
\* continued before anything new; "skip" when no receipt is open.
PlanReceipt(f) ==
  LET rc == f.receipt
      goal == IF f.intent = "none" THEN "recovery" ELSE f.intent
  IN IF rc.op = "none" \/ rc.state \in {"none", "succeeded", "terminal"}
       THEN "skip"
     ELSE IF rc.op \in {"deliver", "interrupt"}
       THEN IF Pending(f) THEN "WaitForMessageReceipt" ELSE "skip"
     ELSE IF rc.op \in {"stop", "archive"}
       THEN IF rc.op = "stop" /\ rc.state = "retryable" /\ Phase(f) = "ready"
              THEN "StopSession"
            ELSE IF rc.op = "archive" /\ Phase(f) = "stopped"
              THEN "ArchiveSession"
            ELSE PlanIntent(f, goal)
     ELSE IF f.resumeUnavailable THEN PlanIntent(f, "recovery")
     ELSE IF Pending(f) /\ Phase(f) = "stopped" /\ Resumable(f)
       THEN ResumeOrWait(f)
     ELSE "skip"

\* The part of PlanGeneration that runs when no intent and no receipt is open.
PlanQuiet(f) ==
  IF Phase(f) = "archived" THEN "RetireGeneration"
  ELSE IF Phase(f) = "stopped" /\ Pending(f) /\ Resumable(f) THEN ResumeOrWait(f)
  ELSE IF Phase(f) = "stopped" /\ f.resumeUnavailable THEN "ArchiveSession"
  ELSE IF Phase(f) = "stopped" THEN "None"
  ELSE IF Phase(f) \in {"creating", "recovering"} \/ ~f.known THEN "WaitForSession"
  ELSE IF Pending(f) THEN PlanMessage(f)
  ELSE IF f.idleDue /\ Phase(f) = "ready" /\ ~Busy(f) THEN "StopSession"
  ELSE "None"

PlanGeneration(f) ==
  IF f.resourceArchived /\ Pending(f) THEN "FinalizeArchivedMailbox"
  ELSE IF ~f.current
    THEN IF ~f.resourceArchived /\ Pending(f) THEN "CreateGeneration" ELSE "None"
  ELSE IF InFlight(f) THEN "WaitForMessageReceipt"
  ELSE IF Intent(f) # "none" THEN PlanIntent(f, Intent(f))
  ELSE IF PlanReceipt(f) # "skip" THEN PlanReceipt(f)
  ELSE PlanQuiet(f)

=============================================================================
