---------------------- MODULE GenerationPlannerProofs ----------------------
(***************************************************************************)
(* What PlanGeneration promises for every possible set of facts.           *)
(***************************************************************************)
EXTENDS GenerationPlanner, TLAPS

Deliveries == {"DeliverMessage", "InterruptTurn"}
Teardowns == {"StopSession", "ArchiveSession", "RetireGeneration"}

LEMMA PhaseType ==
  ASSUME NEW f \in Facts
  PROVE  Phase(f) \in Phases /\ (f.turnActive \in BOOLEAN)
<1>1. f.session \in SessionStates /\ f.phase \in Phases /\ f.turnActive \in BOOLEAN
  BY DEF Facts
<1> QED
  BY <1>1 DEF Phase, PhaseOf, SessionStates, Phases

\* An active Turn puts the observed Session in the active phase.
LEMMA ActiveTurn ==
  ASSUME NEW f \in Facts, Consistent(f), f.turnActive
  PROVE  Phase(f) = "active"
BY DEF Facts, Consistent, Phase, PhaseOf, SessionStates

\* planMessage refuses the terminal phases before it plans an effect.
LEMMA MessagePhase ==
  ASSUME NEW f \in Facts, PlanMessage(f) \in Deliveries
  PROVE  Phase(f) \notin {"stopping", "stopped", "archived"}
BY DEF PlanMessage, ResumeOrWait, Deliveries

\* planMessage never stops, archives or retires anything, and resumes only a
\* Session that was not found unresumable.
LEMMA MessageKeeps ==
  ASSUME NEW f \in Facts
  PROVE  /\ PlanMessage(f) \notin Teardowns
         /\ PlanMessage(f) = "ResumeSession" => ~f.resumeUnavailable
                                               /\ Phase(f) = "stopped"
BY DEF PlanMessage, ResumeOrWait, Teardowns, Resumable

\* A lifecycle intent plans an effect on the message only to interrupt the
\* Turn of a generation that is being replaced.
LEMMA IntentEffect ==
  ASSUME NEW f \in Facts, Consistent(f), NEW i \in Intents,
         PlanIntent(f, i) \in Deliveries
  PROVE  /\ PlanIntent(f, i) = "InterruptTurn"
         /\ i = "replacement" /\ Phase(f) = "active"
<1>1. InterruptsReplaced(f, i) /\ PlanIntent(f, i) = PlanMessage(f)
  <2>1. "None" \notin Deliveries /\ "WaitForTurnTerminal" \notin Deliveries
        /\ "WaitForSession" \notin Deliveries /\ "StopSession" \notin Deliveries
        /\ "WaitForStopped" \notin Deliveries /\ "ArchiveSession" \notin Deliveries
        /\ "RetireGeneration" \notin Deliveries /\ "ObserveSession" \notin Deliveries
    BY DEF Deliveries
  <2> QED
    BY <2>1, PhaseType DEF PlanIntent, Phases
<1>2. Phase(f) = "active" /\ Busy(f)
  BY <1>1, ActiveTurn DEF InterruptsReplaced, Busy
<1>3. PlanMessage(f) # "DeliverMessage"
  BY <1>1, <1>2 DEF PlanMessage, InterruptsReplaced, ResumeOrWait, InFlight
<1> QED
  BY <1>1, <1>2, <1>3 DEF InterruptsReplaced, Deliveries

\* The teardown follows the Session: stop what is ready, archive what is
\* stopped, retire what is archived.
LEMMA IntentTeardown ==
  ASSUME NEW f \in Facts, NEW i \in Intents
  PROVE  /\ PlanIntent(f, i) = "StopSession" => Phase(f) = "ready" /\ ~Busy(f)
         /\ PlanIntent(f, i) = "ArchiveSession" => Phase(f) = "stopped"
         /\ PlanIntent(f, i) = "RetireGeneration" => Phase(f) = "archived"
         /\ PlanIntent(f, i) = "ResumeSession" => ~f.resumeUnavailable
<1>1. CASE InterruptsReplaced(f, i)
  BY <1>1, MessageKeeps DEF PlanIntent, Teardowns
<1>2. CASE ~InterruptsReplaced(f, i)
  BY <1>2, PhaseType DEF PlanIntent, Phases
<1> QED
  BY <1>1, <1>2

LEMMA IntentType ==
  ASSUME NEW f \in Facts
  PROVE  Intent(f) \in Intents /\ f.intent \in Intents
BY DEF Facts, Intent, Intents

LEMMA ReceiptTeardown ==
  ASSUME NEW f \in Facts
  PROVE  /\ PlanReceipt(f) = "StopSession" => Phase(f) = "ready"
         /\ PlanReceipt(f) = "ArchiveSession" => Phase(f) = "stopped"
         /\ PlanReceipt(f) = "RetireGeneration" => Phase(f) = "archived"
         /\ PlanReceipt(f) = "ResumeSession" => ~f.resumeUnavailable
<1> DEFINE goal == IF f.intent = "none" THEN "recovery" ELSE f.intent
<1>1. goal \in Intents /\ "recovery" \in Intents
  BY IntentType DEF Intents
<1> HIDE DEF goal
<1>2. \/ PlanReceipt(f) = PlanIntent(f, goal)
      \/ PlanReceipt(f) = PlanIntent(f, "recovery")
      \/ PlanReceipt(f) \in {"skip", "WaitForMessageReceipt", "WaitForSession"}
      \/ PlanReceipt(f) = "StopSession" /\ Phase(f) = "ready"
      \/ PlanReceipt(f) = "ArchiveSession" /\ Phase(f) = "stopped"
      \/ PlanReceipt(f) = "ResumeSession" /\ ~f.resumeUnavailable
  BY DEF PlanReceipt, ResumeOrWait, goal
<1> QED
  BY <1>1, <1>2, IntentTeardown

-----------------------------------------------------------------------------

\* "No plan sends a message to a stopping or archived Session" (the comment
\* of PlanGeneration): a delivery or an interrupt is planned only while the
\* Session is ready or in a Turn, and a delivery only when no lifecycle
\* intent is in force and no earlier delivery is open.
THEOREM DeliversOnlyAtLiveSession ==
  ASSUME NEW f \in Facts, Consistent(f), PlanGeneration(f) \in Deliveries
  PROVE  /\ Phase(f) \notin {"stopping", "stopped", "archived"}
         /\ ~InFlight(f)
         /\ PlanGeneration(f) = "DeliverMessage" => Intent(f) = "none"
<1>1. f.current /\ ~InFlight(f)
  BY DEF PlanGeneration, Deliveries
<1>2. CASE Intent(f) # "none"
  <2>1. PlanGeneration(f) = PlanIntent(f, Intent(f))
    BY <1>1, <1>2 DEF PlanGeneration, Deliveries
  <2> QED
    BY <1>1, <2>1, IntentEffect, IntentType
<1>3. CASE Intent(f) = "none" /\ PlanReceipt(f) # "skip"
  <2>1. PlanGeneration(f) = PlanReceipt(f)
    BY <1>1, <1>3 DEF PlanGeneration, Deliveries
  <2>2. f.intent # "replacement"
    BY <1>3 DEF Intent
  <2> DEFINE goal == IF f.intent = "none" THEN "recovery" ELSE f.intent
  <2>3. goal \in Intents /\ goal # "replacement" /\ "recovery" \in Intents
    BY <2>2, IntentType DEF Intents
  <2> HIDE DEF goal
  <2>4. \/ PlanReceipt(f) = PlanIntent(f, goal)
        \/ PlanReceipt(f) = PlanIntent(f, "recovery")
    BY <1>3, <2>1 DEF PlanReceipt, ResumeOrWait, goal, Deliveries
  <2> QED
    BY <2>1, <2>3, <2>4, IntentEffect
<1>4. CASE Intent(f) = "none" /\ PlanReceipt(f) = "skip"
  <2>1. PlanGeneration(f) = PlanQuiet(f)
    BY <1>1, <1>4 DEF PlanGeneration, Deliveries
  <2>2. PlanQuiet(f) = PlanMessage(f)
    BY <2>1 DEF PlanQuiet, ResumeOrWait, Deliveries
  <2> QED
    BY <1>1, <1>4, <2>1, <2>2, MessagePhase
<1> QED
  BY <1>2, <1>3, <1>4

\* Retirement crosses one boundary at a time: Stop is planned only for a
\* ready Session, Archive only after it stopped, Retire only after it was
\* archived, so no plan skips a boundary of the teardown.
THEOREM TeardownInOrder ==
  ASSUME NEW f \in Facts
  PROVE  /\ PlanGeneration(f) = "StopSession" => Phase(f) = "ready"
         /\ PlanGeneration(f) = "ArchiveSession" => Phase(f) = "stopped"
         /\ PlanGeneration(f) = "RetireGeneration" => Phase(f) = "archived"
<1>1. CASE PlanGeneration(f) = PlanIntent(f, Intent(f))
  BY <1>1, IntentTeardown, IntentType
<1>2. CASE PlanGeneration(f) = PlanReceipt(f)
  BY <1>2, ReceiptTeardown
<1>3. CASE PlanGeneration(f) = PlanQuiet(f)
  BY <1>3, MessageKeeps DEF PlanQuiet, ResumeOrWait, Teardowns
<1>4. CASE PlanGeneration(f) \in {"FinalizeArchivedMailbox",
            "CreateGeneration", "None", "WaitForMessageReceipt"}
  BY <1>4
<1> QED
  BY <1>1, <1>2, <1>3, <1>4 DEF PlanGeneration

\* No plan stops a Session that runs a Turn or waits for an approval, whatever
\* intent or receipt is recorded; a retryable Stop is the one exception the
\* receipt allows, and a consistent observation rules it out for a Turn.
THEOREM NeverStopsTurn ==
  ASSUME NEW f \in Facts, Consistent(f), PlanGeneration(f) = "StopSession"
  PROVE  ~f.turnActive
<1>1. Phase(f) = "ready"
  BY TeardownInOrder
<1> QED
  BY <1>1, ActiveTurn

\* A generation that is being replaced, recovered or archived is never
\* resumed: Resume would start work in a generation that is going away.
THEOREM NeverResumesDoomed ==
  ASSUME NEW f \in Facts, Consistent(f),
         Intent(f) \in {"replacement", "recovery", "archive"}
  PROVE  PlanGeneration(f) # "ResumeSession"
<1>1. SUFFICES ASSUME PlanGeneration(f) = "ResumeSession" PROVE FALSE
  OBVIOUS
<1>2. PlanGeneration(f) = PlanIntent(f, Intent(f))
  BY <1>1 DEF PlanGeneration
<1>3. InterruptsReplaced(f, Intent(f)) /\ PlanMessage(f) = "ResumeSession"
  BY <1>1, <1>2, PhaseType DEF PlanIntent, Phases
<1>4. Phase(f) = "active"
  BY <1>3, ActiveTurn DEF InterruptsReplaced
<1> QED
  BY <1>3, <1>4, MessageKeeps

\* A message waiting at a stopped, resumable Session is answered by a Resume
\* (or its backoff), but only when no Stop or Archive receipt is open: an open
\* one takes precedence, which is why a Stop whose outcome is never recorded
\* keeps the Session asleep (see the README, divergences).
THEOREM DemandWakes ==
  ASSUME NEW f \in Facts, f.current, Pending(f), ~InFlight(f),
         Intent(f) = "none", Phase(f) = "stopped", Resumable(f),
         f.receipt.op \in {"stop", "archive"} =>
            f.receipt.state \in {"none", "succeeded", "terminal"}
  PROVE  PlanGeneration(f) \in {"ResumeSession", "WaitForSession",
                                "WaitForMessageReceipt"}
<1>1. ~f.resourceArchived /\ ~f.resumeUnavailable
  BY DEF Intent, Resumable
<1>2. f.receipt.op \in {"none", "stop", "resume", "archive", "deliver", "interrupt"}
  BY DEF Facts, Receipts
<1>3. PlanReceipt(f) \in {"skip", "ResumeSession", "WaitForSession",
                          "WaitForMessageReceipt"}
  BY <1>1, <1>2 DEF PlanReceipt, ResumeOrWait
<1> QED
  BY <1>1, <1>3 DEF PlanGeneration, PlanQuiet, ResumeOrWait

\* The other half: with a Stop of an idle generation still unconfirmed, no
\* operation is planned for the waiting message at all.
THEOREM OpenStopSleeps ==
  ASSUME NEW f \in Facts, f.current, ~f.resourceArchived, ~InFlight(f),
         f.intent = "idle", Intent(f) = "none", Phase(f) = "stopped",
         ~f.resumeUnavailable, f.receipt.op = "stop",
         f.receipt.state \in {"requested", "unknown"}
  PROVE  PlanGeneration(f) = "None"
<1>1. PlanReceipt(f) = PlanIntent(f, "idle")
  BY DEF PlanReceipt
<1>2. PlanIntent(f, "idle") = "None"
  BY DEF PlanIntent
<1> QED
  BY <1>1, <1>2 DEF PlanGeneration
=============================================================================
