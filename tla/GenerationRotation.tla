--------------------------- MODULE GenerationRotation ---------------------------
(***************************************************************************)
(* Why the generation of a resource is replaced: its budget of Turns, its  *)
(* inactivity, the agent that the settings now name, or the user's wish    *)
(* (serve/generation_policy.go, resource_runtime.go, resource_live.go).    *)
(*                                                                         *)
(* The controller of the resource runs one job at a time.  The settings    *)
(* are files that requests change while a job runs, and the Session is     *)
(* AgentHub's, which other clients use too.  How a generation is stopped   *)
(* and archived is ResourceMailbox; here it is one step.  The budget of    *)
(* minutes is read, kept and compared with the budget of Turns and is left *)
(* out; messages are queued ones, which start a Turn each.                 *)
(***************************************************************************)
EXTENDS Naturals, FiniteSets

CONSTANTS
    Agents,        \* agent names
    Profiles,      \* profile names
    Systems,       \* the profiles of every installation, "default" is one
    Limits,        \* budgets of Turns; 0 when there is none
    FirstRoutes,   \* the agent of each profile at the start
    MaxGens,       \* bound on the generations
    MaxMail,       \* bound on the messages
    MaxEdits,      \* bound on the changes of settings
    MaxOwnTurns,   \* bound on the Turns of other clients of AgentHub
    MaxRotFaults   \* bound on the failing calls and the restarts

ASSUME RotationAssumption ==
    /\ "default" \in Systems /\ Systems \subseteq Profiles /\ Limits \subseteq Nat
    /\ FirstRoutes \in [Profiles -> SUBSET Agents]
    /\ {MaxGens, MaxMail, MaxEdits, MaxOwnTurns, MaxRotFaults} \subseteq Nat

VARIABLES
    settings,   \* policy, binding of the resource, default of its kind, routes of the profiles
    generation,        \* the current generation record
    hub,        \* its Session in AgentHub
    queued,       \* queued messages
    work,       \* the job of the controller
    rebinds,    \* binding requests that wait for the controller
    spent       \* messages, edits, foreign Turns and faults so far (bounds)

rotationVars == <<settings, generation, hub, queued, work, rebinds, spent>>

Bindings == [kind : {"agent"}, name : Agents] \cup [kind : {"profile"}, name : Profiles]
Default == [kind |-> "profile", name |-> "default"]

NoUsage == [turns |-> 0, event |-> 0, ready |-> FALSE]
NoGen == [no |-> 0, live |-> FALSE, agent |-> {}, pending |-> FALSE, usage |-> NoUsage, edited |-> FALSE]
FreshSession == [state |-> "ready", done |-> 0, event |-> 0, quiet |-> FALSE]
NoWork == [pc |-> "free", seen |-> FreshSession, usage |-> NoUsage, limit |-> 0, idle |-> FALSE, again |-> FALSE,
           routes |-> [p \in Profiles |-> {}], limits |-> {}, named |-> {}]

RotationInit ==
    /\ \E limit \in Limits, idle \in BOOLEAN :
          settings = [limit |-> limit, idle |-> idle, binding |-> Default, fallback |-> Default, routes |-> FirstRoutes]
    /\ generation = NoGen /\ hub = FreshSession
    /\ queued = 0 /\ work = NoWork /\ rebinds = 0
    /\ spent = [mail |-> 0, edits |-> 0, own |-> 0, faults |-> 0]

RotFault == spent.faults < MaxRotFaults /\ spent' = [spent EXCEPT !.faults = @ + 1]
At(pc) == work.pc = pc
WorkGoesOn(pc) == work' = [work EXCEPT !.pc = pc]
WorkEnds == work' = NoWork

-----------------------------------------------------------------------------
(* resolveResourceAgent: the profile of the binding, the default of its kind *)
(* of resource, the default profile; the set is empty when none is routed.   *)
Resolved(binding, fallback, routes) ==
    IF binding.kind = "agent" THEN {binding.name}
    ELSE IF routes[binding.name] # {} THEN routes[binding.name]
    ELSE IF fallback.kind = "agent" THEN {fallback.name}
    ELSE IF routes[fallback.name] # {} THEN routes[fallback.name]
    ELSE routes["default"]

Named == Resolved(settings.binding, settings.fallback, settings.routes)

(* generationBudgetReached, generationInactivityReached. *)
BudgetReached(limit, usage) == limit > 0 /\ usage.turns >= limit
Inactive(idle, session) == idle /\ session.quiet

-----------------------------------------------------------------------------
(* Requests.                                                                 *)

Posts ==
    /\ spent.mail < MaxMail
    /\ queued' = queued + 1
    /\ spent' = [spent EXCEPT !.mail = @ + 1]
    /\ UNCHANGED <<settings, generation, hub, work, rebinds>>

(* What the job in progress may be based on (history). *)
Read(new) == {new.routes, settings.routes} \cup (IF At("agent") THEN {work.routes} ELSE {})

Saw(new) ==
    IF At("free") THEN work
    ELSE [work EXCEPT !.limits = @ \cup {new.limit},
                      !.named = @ \cup UNION {Resolved(new.binding, new.fallback, r) : r \in Read(new)}
                                  \cup Resolved(settings.binding, settings.fallback, new.routes)]

Edit(new) ==
    /\ spent.edits < MaxEdits /\ new # settings
    /\ spent' = [spent EXCEPT !.edits = @ + 1]
    /\ settings' = new
    /\ generation' = [generation EXCEPT !.edited = TRUE]
    /\ work' = Saw(new)
    /\ UNCHANGED <<hub, queued>>

EditPolicy == \E limit \in Limits, idle \in BOOLEAN :
                  Edit([settings EXCEPT !.limit = limit, !.idle = idle]) /\ UNCHANGED rebinds

(* A system profile without an agent gets the first that is available; other *)
(* profiles come and go.                                                     *)
Routings == {{}} \cup {{a} : a \in Agents}
Normalized(routes, first) == [p \in Profiles |-> IF p \in Systems /\ routes[p] = {} THEN first ELSE routes[p]]

EditRoutes ==
    \E p \in Profiles, routing \in Routings, first \in Routings :
        Edit([settings EXCEPT !.routes = Normalized([@ EXCEPT ![p] = routing], first)]) /\ UNCHANGED rebinds

Routed(binding) == binding.kind = "profile" => settings.routes[binding.name] # {}

EditDefaults == \E b \in Bindings : Routed(b) /\ Edit([settings EXCEPT !.fallback = b]) /\ UNCHANGED rebinds

(* The request waits for the controller, or is given up before.              *)
EditBinding == \E b \in Bindings :
                  Routed(b) /\ Edit([settings EXCEPT !.binding = b]) /\ rebinds' \in {rebinds, rebinds + 1}

-----------------------------------------------------------------------------
(* AgentHub.                                                                 *)

HubMoves(state) == hub' = [hub EXCEPT !.state = state, !.event = @ + 1, !.quiet = FALSE]

OwnTurn ==
    /\ generation.live /\ hub.state = "ready" /\ spent.own < MaxOwnTurns
    /\ spent' = [spent EXCEPT !.own = @ + 1]
    /\ HubMoves("running")
    /\ UNCHANGED <<settings, generation, queued, work, rebinds>>

TurnFinishes ==
    /\ hub.state = "running"
    /\ hub' = [hub EXCEPT !.state = "ready", !.event = @ + 1, !.done = @ + 1]
    /\ UNCHANGED <<settings, generation, queued, work, rebinds, spent>>

Quiets ==
    /\ generation.live /\ hub.state # "running" /\ ~hub.quiet
    /\ hub' = [hub EXCEPT !.quiet = TRUE]
    /\ UNCHANGED <<settings, generation, queued, work, rebinds, spent>>

(* The idle sleep of the controller. *)
SessionSleeps ==
    /\ At("free") /\ generation.live /\ hub.state = "ready" /\ ~generation.pending
    /\ hub' = [hub EXCEPT !.state = "stopped"]
    /\ UNCHANGED <<settings, generation, queued, work, rebinds, spent>>

-----------------------------------------------------------------------------
(* A pass of the mailbox: one queued message.                                *)

(* Without a generation it creates one, for the agent named now. *)
PassCreates ==
    /\ At("free") /\ queued > 0 /\ ~generation.live /\ generation.no < MaxGens /\ Named # {}
    /\ work' = [NoWork EXCEPT !.pc = "creates", !.routes = settings.routes]
    /\ UNCHANGED <<settings, generation, hub, queued, rebinds, spent>>

(* The routes were read first, then the binding. *)
Created ==
    LET agent == Resolved(settings.binding, settings.fallback, work.routes) IN
    /\ At("creates")
    /\ generation' = IF agent = {} THEN generation
              ELSE [NoGen EXCEPT !.no = generation.no + 1, !.live = TRUE, !.agent = agent, !.edited = work.routes # settings.routes]
    /\ hub' = IF agent = {} THEN hub ELSE FreshSession
    /\ WorkEnds
    /\ UNCHANGED <<settings, queued, rebinds, spent>>

(* GetSession. A pending replacement keeps the message, an active Turn too.  *)
Observes ==
    /\ \/ At("free") /\ queued > 0 /\ generation.live /\ ~generation.pending
       \/ At("resumed")
    /\ work' = IF hub.state = "running" THEN NoWork
               ELSE [NoWork EXCEPT !.pc = "policy", !.seen = hub, !.usage = generation.usage, !.limits = {settings.limit}, !.named = Named]
    /\ UNCHANGED <<settings, generation, hub, queued, rebinds, spent>>

(* The usage kept in the record stands for the Session as it was observed.   *)
Cached(seen) == generation.usage.ready /\ generation.usage.event >= seen.event

NeedsUsage(limit) == limit > 0 /\ ~Cached(work.seen)

ReadsPolicy ==
    /\ At("policy")
    /\ WorkGoesOn(CASE settings.limit = 0 /\ ~settings.idle -> "routes"
                  [] NeedsUsage(settings.limit) -> "usage"
                  [] OTHER -> "policy again")
    /\ UNCHANGED <<settings, generation, hub, queued, rebinds, spent>>

(* fetchGenerationUsage, and the limits a decision may be based on from now. *)
FetchesUsage ==
    /\ At("usage")
    /\ work' = [work EXCEPT !.pc = "keep", !.usage = [turns |-> hub.done, event |-> hub.event, ready |-> TRUE],
                            !.limits = IF work.again THEN @ ELSE {settings.limit}]
    /\ UNCHANGED <<settings, generation, hub, queued, rebinds, spent>>

KeepsUsage ==
    /\ At("keep")
    /\ generation' = [generation EXCEPT !.usage = work.usage]
    /\ WorkGoesOn(IF work.again THEN "decide" ELSE "policy again")
    /\ UNCHANGED <<settings, hub, queued, rebinds, spent>>

ReadsPolicyAgain ==
    /\ At("policy again")
    /\ work' = [work EXCEPT !.pc = IF NeedsUsage(settings.limit) THEN "usage" ELSE "decide",
                            !.again = TRUE, !.limit = settings.limit, !.idle = settings.idle]
    /\ UNCHANGED <<settings, generation, hub, queued, rebinds, spent>>

Decides ==
    LET over == BudgetReached(work.limit, work.usage) \/ Inactive(work.idle, work.seen) IN
    /\ At("decide")
    /\ generation' = [generation EXCEPT !.pending = over]
    /\ IF over THEN WorkEnds ELSE WorkGoesOn("routes")
    /\ UNCHANGED <<settings, hub, queued, rebinds, spent>>

(* The end of prepareResourceGenerationForNewTurnLocked: the routes, then    *)
(* the binding, against the agent of the record.                             *)
ReadsRoutes ==
    /\ At("routes")
    /\ work' = [work EXCEPT !.pc = "agent", !.routes = settings.routes]
    /\ UNCHANGED <<settings, generation, hub, queued, rebinds, spent>>

(* Mutant of RightAgent: the binding requests are trusted to mark it. *)
SameAgentAlways(agent) == agent # {}
SameAgent(agent) == agent = generation.agent

ComparesAgent ==
    LET agent == Resolved(settings.binding, settings.fallback, work.routes) IN
    /\ At("agent")
    /\ \/ agent = {} /\ WorkEnds /\ UNCHANGED generation
       \/ agent # {} /\ SameAgent(agent) /\ WorkGoesOn("delivers") /\ UNCHANGED generation
       \/ agent # {} /\ ~SameAgent(agent) /\ WorkEnds /\ generation' = [generation EXCEPT !.pending = TRUE]
    /\ UNCHANGED <<settings, hub, queued, rebinds, spent>>

(* A stopped Session is resumed and looked at again.                         *)
Resumes ==
    /\ At("delivers") /\ hub.state = "stopped"
    /\ hub' = [hub EXCEPT !.state = "ready", !.event = @ + 1]
    /\ WorkGoesOn("resumed")
    /\ UNCHANGED <<settings, generation, queued, rebinds, spent>>

(* AgentHub refuses the message when another client's Turn is there.         *)
StartsTurn ==
    /\ At("delivers") /\ hub.state # "stopped"
    /\ IF hub.state = "ready" THEN HubMoves("running") /\ queued' = queued - 1 ELSE UNCHANGED <<hub, queued>>
    /\ WorkEnds
    /\ UNCHANGED <<settings, generation, rebinds, spent>>

-----------------------------------------------------------------------------
(* The other jobs.                                                           *)

(* resourceBindingChangedLocked. *)
Rebinds ==
    /\ At("free") /\ rebinds > 0
    /\ rebinds' = rebinds - 1
    /\ generation' = [generation EXCEPT !.pending = @ \/ (generation.live /\ Named # {} /\ Named # generation.agent)]
    /\ UNCHANGED <<settings, hub, queued, work, spent>>

(* requestEndResourceGenerationLocked: of the generation the user has seen,  *)
(* and not during its Turn; an edit for the history, since it was asked for. *)
EndsGeneration ==
    /\ At("free") /\ generation.live /\ hub.state # "running" /\ spent.edits < MaxEdits
    /\ generation' = [generation EXCEPT !.pending = TRUE, !.edited = TRUE]
    /\ spent' = [spent EXCEPT !.edits = @ + 1]
    /\ UNCHANGED <<settings, hub, queued, work, rebinds>>

(* retireResourceGenerationLocked, when its Turn has ended.                  *)
RetiresGeneration ==
    /\ At("free") /\ generation.live /\ generation.pending /\ hub.state # "running"
    /\ generation' = [generation EXCEPT !.live = FALSE]
    /\ UNCHANGED <<settings, hub, queued, work, rebinds, spent>>

(* A call that fails ends the job; a restart loses the waiting requests too. *)
CallBreaks ==
    /\ work.pc \in {"creates", "usage", "keep", "delivers"} /\ RotFault
    /\ WorkEnds
    /\ UNCHANGED <<settings, generation, hub, queued, rebinds>>

Restarts ==
    /\ RotFault
    /\ WorkEnds /\ rebinds' = 0
    /\ UNCHANGED <<settings, generation, hub, queued>>

RotationNext ==
    \/ Posts \/ EditPolicy \/ EditRoutes \/ EditDefaults \/ EditBinding
    \/ OwnTurn \/ TurnFinishes \/ Quiets \/ SessionSleeps
    \/ PassCreates \/ Created \/ Observes \/ ReadsPolicy \/ FetchesUsage \/ KeepsUsage \/ ReadsPolicyAgain \/ Decides
    \/ ReadsRoutes \/ ComparesAgent \/ Resumes \/ StartsTurn
    \/ Rebinds \/ EndsGeneration \/ RetiresGeneration \/ CallBreaks \/ Restarts

-----------------------------------------------------------------------------
(* A message starts a Turn only in a generation with budget left: the Turns  *)
(* the Session had when it was observed are below a limit that was in force  *)
(* since AgentHub was asked for the usage (generation_policy.go:185, "a      *)
(* concurrent settings update takes effect at this same Turn boundary"),     *)
(* over cached usage, foreign Turns, edits, failing calls and restarts.      *)
BudgetKept == [][queued' < queued => \E l \in work.limits : l = 0 \/ work.seen.done < l]_rotationVars

(* A message starts a Turn only with the agent that the settings named at    *)
(* some time of this very delivery (resource_runtime.go:435).                *)
RightAgent == [][queued' < queued => generation.agent \subseteq work.named]_rotationVars

(* resource_runtime.go:436: changes at the same time "produce one successor, *)
(* whose creation resolves the latest Profile": no generation is replaced    *)
(* before it did anything, unless the settings changed after its creation.   *)
NoIdleRotation ==
    [][generation.live /\ ~generation.pending /\ generation'.pending =>
           hub.event > 0 \/ work.seen.quiet \/ generation'.edited]_rotationVars

(* Turns are started within the budget and by the agent that the settings    *)
(* name, and a generation is replaced for a reason.                          *)
TurnsFollowSettings == BudgetKept /\ RightAgent /\ NoIdleRotation
=============================================================================
