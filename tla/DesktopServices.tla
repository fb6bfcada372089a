--------------------------- MODULE DesktopServices ---------------------------
(***************************************************************************)
(* The two services the macOS application manages (internal/desktop): it   *)
(* finds, starts, stops and updates PUA and AgentHub as processes that     *)
(* outlive it.  A process is known by its pid in the lock file it writes   *)
(* and in the state file the application writes behind a start.  The       *)
(* manager serialises its operations, so there is one program counter;     *)
(* between any two of its steps processes start, answer, fall silent and   *)
(* die, others start a service of their own, Turns begin and end, and the  *)
(* application may be killed.                                              *)
(*                                                                         *)
(* A digest is the version of a binary.  The one address of a service and  *)
(* the path of its lock are fixed.  A pid that no file and no step refers  *)
(* to is given out again; one that is referred to is not.                  *)
(***************************************************************************)
EXTENDS Naturals, FiniteSets, TLC

CONSTANTS
    Pids,        \* processes that can be told apart
    Latest,      \* the newest version of either component; the oldest is 1
    Floor,       \* MinAgentHubVersion of each version of PUA
    MaxDeskFaults,   \* deaths, silences, failed steps and kills of the application
    MaxUpdates,  \* calls of InstallUpdates
    MaxForeign   \* services others start

ASSUME DesktopAssumption == /\ Pids \subseteq Nat \ {0}
                            /\ Latest \in Nat \ {0}
                            /\ Floor \in [1..Latest -> 1..Latest]
                            /\ Floor[1] = 1

Kinds == {"pua", "agenthub"}
Versions == 1..Latest
None == 0
Dead == [kind |-> "none", version |-> None, ours |-> FALSE, up |-> "dead"]
NoResult == [pid |-> None, version |-> None, managed |-> FALSE]

VARIABLES
    procs,     \* the processes of the machine
    lock,      \* serve.json.lock and AgentHub's server.lock and server.json: the last holder
    state,     \* backend-state.json and agenthub-state.json: what the application started
    manifest,  \* backend/current.json and agenthub/current.json
    cli,       \* the version of ~/.pua/bin/pua
    feed,      \* the releases the signed manifest of the channel offers
    turn,      \* AgentHub has an active Turn
    app,       \* the running operation of the manager
    used,      \* faults, updates and foreign services so far (bounds)
    history    \* what the properties ask about: rolled back, a Turn cut by an update, killed

desktopVars == <<procs, lock, state, manifest, cli, feed, turn, app, used, history>>

NoTurns == [op |-> "none", pc |-> "idle", plan |-> {}, seen |-> [k \in Kinds |-> NoResult],
         old |-> [k \in Kinds |-> None], child |-> None]

Alive(p) == p # None /\ procs[p].up \in {"starting", "serving", "silent", "stopping"}

(* The endpoint of a service answers: the process that holds the lock serves. *)
Healthy(k) == lock[k] # None /\ procs[lock[k]].up = "serving"

Holds(k) == lock[k] # None /\ procs[lock[k]].up \in {"serving", "silent", "stopping"}

(* The pid is in the state file of the application, in the lock, and lives. *)
Owned(k) == state[k].pid # None /\ state[k].pid = lock[k] /\ Alive(lock[k])

(* What a look at a service may report: nothing, the service of the            *)
(* application, or one of others. A first probe of PUA that times out leaves   *)
(* a result without the version.                                               *)
Discovered(k) ==
    IF ~Healthy(k) THEN {NoResult}
    ELSE IF ~Owned(k) THEN {[pid |-> lock[k], version |-> None, managed |-> FALSE]}
    ELSE {[pid |-> lock[k], version |-> v, managed |-> TRUE] :
              v \in {state[k].version} \cup (IF k = "pua" THEN {None} ELSE {})}

(* Which version the binary of a component reports: that of the process the    *)
(* application started, or that of its current manifest.                       *)
InstalledVersion(k, r) == IF r.version # None THEN r.version ELSE manifest[k]

Referenced == {lock[k] : k \in Kinds} \cup {state[k].pid : k \in Kinds}
              \cup {app.seen[k].pid : k \in Kinds} \cup {app.child}

(* The next process gets the least pid nothing refers to. *)
Spawnable == {p \in Pids : /\ ~Alive(p) /\ p \notin Referenced
                           /\ \A q \in Pids : q < p => Alive(q) \/ q \in Referenced}

Spawn(p, k, v, ours) ==
    procs' = [procs EXCEPT ![p] = [kind |-> k, version |-> v, ours |-> ours, up |-> "starting"]]

(* A signal asks for a graceful end. *)
Signalled(p) == IF Alive(p) THEN [procs EXCEPT ![p].up = "stopping"] ELSE procs

DesktopFault == /\ used.faults < MaxDeskFaults
         /\ used' = [used EXCEPT !.faults = @ + 1]

DesktopInit ==
    /\ procs = [p \in Pids |-> Dead]
    /\ lock = [k \in Kinds |-> None]
    /\ state = [k \in Kinds |-> [pid |-> None, version |-> None]]
    /\ manifest = [k \in Kinds |-> 1]
    /\ cli = 1
    /\ feed = [k \in Kinds |-> 1]
    /\ turn = FALSE
    /\ app = NoTurns
    /\ used = [faults |-> 0, updates |-> 0, foreign |-> 0]
    /\ history = [rolledBack |-> FALSE, cutTurn |-> FALSE, killed |-> FALSE]

--------------------------------------------------------------------------------
(* Processes.                                                                  *)

(* A process that starts takes the lock of its service, or ends when another   *)
(* holds it.                                                                   *)
Starts(p) ==
    /\ procs[p].up = "starting"
    /\ IF Holds(procs[p].kind)
       THEN /\ procs' = [procs EXCEPT ![p] = Dead]
            /\ UNCHANGED lock
       ELSE /\ procs' = [procs EXCEPT ![p].up = "serving"]
            /\ lock' = [lock EXCEPT ![procs[p].kind] = p]
    /\ UNCHANGED <<state, manifest, cli, feed, turn, app, used, history>>

(* A process that was signalled ends; the Turns of AgentHub end with it. *)
Ends(p) ==
    /\ procs[p].up = "stopping"
    /\ procs' = [procs EXCEPT ![p] = Dead]
    /\ turn' = (turn /\ lock["agenthub"] # p)
    /\ UNCHANGED <<lock, state, manifest, cli, feed, app, used, history>>

Breaks(p) ==
    /\ DesktopFault
    /\ \/ procs[p].up \in {"starting", "serving", "silent"} /\ procs' = [procs EXCEPT ![p] = Dead]
                                                            /\ turn' = (turn /\ lock["agenthub"] # p)
       \/ procs[p].up = "serving" /\ procs' = [procs EXCEPT ![p].up = "silent"] /\ UNCHANGED turn
    /\ UNCHANGED <<lock, state, manifest, cli, feed, app, history>>

Answers(p) ==
    /\ procs[p].up = "silent"
    /\ procs' = [procs EXCEPT ![p].up = "serving"]
    /\ UNCHANGED <<lock, state, manifest, cli, feed, turn, app, used, history>>

ForeignStarts ==
    /\ used.foreign < MaxForeign
    /\ used' = [used EXCEPT !.foreign = @ + 1]
    /\ \E p \in Spawnable, k \in Kinds, v \in Versions : Spawn(p, k, v, FALSE)
    /\ UNCHANGED <<lock, state, manifest, cli, feed, turn, app, history>>

TurnChanges ==
    /\ Healthy("agenthub")
    /\ turn' = ~turn
    /\ UNCHANGED <<procs, lock, state, manifest, cli, feed, app, used, history>>

(* A release of PUA is published with or behind the AgentHub it requires. *)
Publishes ==
    /\ \E k \in Kinds :
          /\ feed[k] < Latest
          /\ feed' = [feed EXCEPT ![k] = @ + 1]
          /\ Floor[feed'["pua"]] <= feed'["agenthub"]
    /\ UNCHANGED <<procs, lock, state, manifest, cli, turn, app, used, history>>

--------------------------------------------------------------------------------
(* Ensure: Manager.Ensure, the start of an update and the end of a rollback.   *)

Returns == app' = NoTurns

(* What follows a failure of Ensure: an update rolls back, anything else ends. *)
Fails == IF app.op = "update" THEN app' = [app EXCEPT !.pc = "rollback", !.child = None] ELSE Returns

Launch ==
    /\ app.pc = "idle"
    /\ app' = [NoTurns EXCEPT !.op = "ensure", !.pc = "look"]
    /\ UNCHANGED <<procs, lock, state, manifest, cli, feed, turn, used, history>>

(* A PUA of others is used as it is; only the command line tool is installed. *)
Looks ==
    /\ app.pc = "look"
    /\ \E r \in Discovered("pua") :
          IF r.pid # None /\ ~r.managed
          THEN cli' = manifest["pua"] /\ Returns
          ELSE app' = [app EXCEPT !.pc = "agenthub", !.seen["pua"] = r] /\ UNCHANGED cli
    /\ UNCHANGED <<procs, lock, state, manifest, feed, turn, used, history>>

(* An AgentHub that answers is taken whatever its version; otherwise the one   *)
(* of the manifest is started.                                                 *)
EnsuresAgentHub ==
    /\ app.pc = "agenthub"
    /\ IF Healthy("agenthub")
       THEN app' = [app EXCEPT !.pc = "select"] /\ UNCHANGED procs
       ELSE \E p \in Spawnable :
               /\ Spawn(p, "agenthub", manifest["agenthub"], TRUE)
               /\ app' = [app EXCEPT !.pc = "awaitAgenthub", !.child = p]
    /\ UNCHANGED <<lock, state, manifest, cli, feed, turn, used, history>>

(* The command line tool follows the manifest. The PUA found is kept when its  *)
(* version and its AgentHub are the right ones, and replaced otherwise.        *)
Selects ==
    /\ app.pc = "select"
    /\ cli' = manifest["pua"]
    /\ LET found == app.seen["pua"]
       IN IF found.pid # None /\ found.version = manifest["pua"] THEN Returns
          ELSE app' = [app EXCEPT !.pc = IF found.pid # None THEN "replace" ELSE "start"]
    /\ UNCHANGED <<procs, lock, state, manifest, feed, turn, used, history>>

StartsPua ==
    /\ app.pc = "start"
    /\ \E p \in Spawnable :
          /\ Spawn(p, "pua", manifest["pua"], TRUE)
          /\ app' = [app EXCEPT !.pc = "awaitPua", !.child = p]
    /\ UNCHANGED <<lock, state, manifest, cli, feed, turn, used, history>>

Awaited == IF app.pc = "awaitPua" THEN "pua" ELSE "agenthub"
Awaiting == app.pc \in {"awaitPua", "awaitAgenthub"}
Proceeds == IF app.pc = "awaitPua" THEN Returns ELSE app' = [app EXCEPT !.pc = "select", !.child = None]

(* The child serves and holds the lock: it is recorded. *)
Records ==
    /\ Awaiting /\ Healthy(Awaited) /\ lock[Awaited] = app.child
    /\ state' = [state EXCEPT ![Awaited] = [pid |-> app.child, version |-> procs[app.child].version]]
    /\ Proceeds
    /\ UNCHANGED <<procs, lock, manifest, cli, feed, turn, used, history>>

(* Another process was faster: the child is interrupted and the other one used. *)
Yields ==
    /\ Awaiting /\ Healthy(Awaited) /\ lock[Awaited] # app.child
    /\ procs' = Signalled(app.child)
    /\ Proceeds
    /\ UNCHANGED <<lock, state, manifest, cli, feed, turn, used, history>>

(* Mutant of GivesUp: the child is left to itself. *)
GivesUpQuietly ==
    /\ Awaiting
    /\ \/ procs[app.child].up = "dead" /\ UNCHANGED used
       \/ procs[app.child].up # "dead" /\ DesktopFault
    /\ Fails
    /\ UNCHANGED <<procs, lock, state, manifest, cli, feed, turn, history>>

(* The start is given up: the child ended, it took too long, or the state file *)
(* could not be written.                                                       *)
GivesUp ==
    /\ Awaiting
    /\ \/ procs[app.child].up = "dead" /\ UNCHANGED used
       \/ procs[app.child].up # "dead" /\ DesktopFault
    /\ procs' = Signalled(app.child)
    /\ Fails
    /\ UNCHANGED <<lock, state, manifest, cli, feed, turn, history>>

--------------------------------------------------------------------------------
(* Stop and the stops of an update.                                            *)

(* Which service the step stops. *)
Stopping == CASE app.pc \in {"replace", "stopPua"} -> "pua"
              [] app.pc = "stopAgenthub" -> "agenthub"
              [] OTHER -> "none"

(* What follows a stop: the start of the replacement, the other service, the   *)
(* installation.                                                               *)
AfterStop ==
    CASE app.pc \in {"replace", "waitReplace"} -> "start"
      [] app.pc \in {"stopPua", "waitPua"} /\ app.op = "stop" /\ app.seen["agenthub"].managed -> "stopAgenthub"
      [] app.pc \in {"stopPua", "waitPua"} /\ app.op = "update" ->
             IF "agenthub" \in app.plan THEN "stopAgenthub" ELSE "installPua"
      [] app.pc \in {"stopAgenthub", "waitAgenthub"} /\ app.op = "update" -> "installAgenthub"
      [] OTHER -> "idle"

(* What follows a stop that failed: an update that has already stopped PUA     *)
(* rolls back; an update that could not stop PUA returns as it is.             *)
StopFails == IF app.op = "update" /\ app.pc \in {"stopAgenthub", "waitAgenthub", "replace", "waitReplace"}
             THEN app' = [app EXCEPT !.pc = "rollback"]
             ELSE Returns

StopsServices ==
    /\ app.pc = "idle"
    /\ \E r \in [Kinds -> UNION {Discovered(k) : k \in Kinds}] :
          /\ \A k \in Kinds : r[k] \in Discovered(k)
          /\ \E k \in Kinds : r[k].managed
          /\ app' = [NoTurns EXCEPT !.op = "stop", !.seen = r,
                                 !.pc = IF r["pua"].managed THEN "stopPua" ELSE "stopAgenthub"]
    /\ UNCHANGED <<procs, lock, state, manifest, cli, feed, turn, used, history>>

(* Ownership is confirmed once more before the signal. *)
MayStop(k) == state[k].pid # None /\ state[k].pid = app.seen[k].pid /\ state[k].pid = lock[k]

Signals ==
    /\ Stopping # "none"
    /\ IF MayStop(Stopping)
       THEN /\ procs' = Signalled(lock[Stopping])
            /\ app' = [app EXCEPT !.pc = CASE @ = "replace" -> "waitReplace" [] @ = "stopPua" -> "waitPua"
                                           [] OTHER -> "waitAgenthub"]
            /\ history' = [history EXCEPT !.cutTurn = @ \/ (Stopping = "agenthub" /\ app.op = "update" /\ turn)]
       ELSE StopFails /\ UNCHANGED <<procs, history>>
    /\ UNCHANGED <<lock, state, manifest, cli, feed, turn, used>>

Waits ==
    /\ app.pc \in {"waitReplace", "waitPua", "waitAgenthub"}
    /\ LET k == IF app.pc = "waitAgenthub" THEN "agenthub" ELSE "pua"
       IN \/ /\ ~Alive(state[k].pid)
             /\ IF AfterStop = "idle" THEN Returns ELSE app' = [app EXCEPT !.pc = AfterStop]
             /\ UNCHANGED used
          \/ /\ Alive(state[k].pid)
             /\ DesktopFault
             /\ StopFails
    /\ UNCHANGED <<procs, lock, state, manifest, cli, feed, turn, history>>

--------------------------------------------------------------------------------
(* InstallUpdates.                                                             *)

(* Newer releases among those wanted. *)
Plan(wanted, installed) == {k \in wanted : feed[k] > installed[k]}

InstalledVersions(r) == [k \in Kinds |-> InstalledVersion(k, r[k])]

(* What a look at the feed offers, whatever is wanted of it. *)
Offered(r) == Plan(Kinds, InstalledVersions(r))

HubIdle == ~turn

(* The AgentHub beside the new PUA is new enough for it. *)
Compatible(plan, installed) ==
    "pua" \in plan =>
        Floor[feed["pua"]] <= (IF "agenthub" \in plan THEN feed["agenthub"] ELSE installed["agenthub"])

ChecksUpdates(wanted) ==
    /\ app.pc = "idle" /\ used.updates < MaxUpdates
    /\ used' = [used EXCEPT !.updates = @ + 1]
    /\ \E p \in Discovered("pua"), h \in Discovered("agenthub") :
          LET r == ("pua" :> p) @@ ("agenthub" :> h)
              plan == wanted \cap Offered(r)
          IN /\ plan # {} /\ Compatible(plan, InstalledVersions(r))
             /\ r["pua"].managed
             /\ "agenthub" \in plan => r["agenthub"].managed /\ HubIdle
             /\ app' = [NoTurns EXCEPT !.op = "update", !.pc = "download", !.plan = plan, !.seen = r]
    /\ UNCHANGED <<procs, lock, state, manifest, cli, feed, turn, history>>

(* The binaries are downloaded and verified; the manifests are remembered. *)
Downloads ==
    /\ app.pc = "download"
    /\ \/ app' = [app EXCEPT !.pc = "stopPua", !.old = manifest] /\ UNCHANGED used
       \/ DesktopFault /\ Returns
    /\ UNCHANGED <<procs, lock, state, manifest, cli, feed, turn, history>>

(* What the step installs and what comes next: AgentHub goes before the PUA    *)
(* that may need it.                                                           *)
Order == [installAgenthub |-> [kind |-> "agenthub", next |-> "installPua"],
          installPua |-> [kind |-> "pua", next |-> "look"]]

Installs ==
    /\ app.pc \in {"installAgenthub", "installPua"}
    /\ \/ /\ IF Order[app.pc].kind \in app.plan
             THEN manifest' = [manifest EXCEPT ![Order[app.pc].kind] = feed[Order[app.pc].kind]]
             ELSE UNCHANGED manifest
          /\ app' = [app EXCEPT !.pc = Order[app.pc].next, !.seen = [k \in Kinds |-> NoResult]]
          /\ UNCHANGED used
       \/ DesktopFault /\ app' = [app EXCEPT !.pc = "rollback"] /\ UNCHANGED manifest
    /\ UNCHANGED <<procs, lock, state, cli, feed, turn, history>>

(* PUA goes back first, then AgentHub, then both are ensured without a look at *)
(* the outcome.                                                                *)
RollsBack ==
    /\ app.pc = "rollback"
    /\ IF manifest["pua"] # app.old["pua"]
       THEN /\ manifest' = [manifest EXCEPT !["pua"] = app.old["pua"]]
            /\ UNCHANGED app
       ELSE /\ manifest' = app.old
            /\ app' = [NoTurns EXCEPT !.op = "ensure", !.pc = "look"]
    /\ history' = [history EXCEPT !.rolledBack = TRUE]
    /\ UNCHANGED <<procs, lock, state, cli, feed, turn, used>>

(* The application is killed: the processes and the files stay. *)
AppKilled ==
    /\ app.pc # "idle"
    /\ DesktopFault
    /\ app' = NoTurns
    /\ history' = [history EXCEPT !.killed = TRUE]
    /\ UNCHANGED <<procs, lock, state, manifest, cli, feed, turn>>

Processes == \/ \E p \in Pids : Starts(p) \/ Ends(p) \/ Breaks(p) \/ Answers(p)
             \/ ForeignStarts \/ TurnChanges \/ Publishes

Manager == \/ Launch \/ Looks \/ EnsuresAgentHub \/ Selects \/ StartsPua \/ Records \/ Yields \/ GivesUp
           \/ StopsServices \/ Signals \/ Waits
           \/ \E wanted \in SUBSET Kinds \ {{}} : ChecksUpdates(wanted)
           \/ Downloads \/ Installs \/ RollsBack \/ AppKilled

DesktopNext == Processes \/ Manager

--------------------------------------------------------------------------------
(* Properties                                                                  *)

(* The installed PUA finds an AgentHub it can work with when both are started  *)
(* from their manifests, also when an update ends between its two components   *)
(* (README of desktop; InstallUpdates, manager.go:320).  False: see the next.  *)
CompatibleInstalled == Floor[manifest["pua"]] <= manifest["agenthub"]

(* The same as long as no update was rolled back: a rollback leaves the newer  *)
(* AgentHub running, and the next update of PUA measures itself against that.  *)
CompatibleUnlessRolledBack == ~history.rolledBack => CompatibleInstalled

(* When the manager is idle and was never killed, every process it started is  *)
(* in its state file or on its way out: none is left that the application      *)
(* takes for a service of others (startBackend, startAgentHub).                *)
NothingForgotten ==
    app.pc = "idle" /\ ~history.killed =>
        \A p \in Pids : procs[p].ours /\ procs[p].up \in {"starting", "serving", "silent"}
                            => p \in {state[k].pid : k \in Kinds}

(* The application never signals a process of others (StopManaged,             *)
(* supervisor.go:720).                                                         *)
ForeignIsLeftAlone == \A p \in Pids : procs[p].up = "stopping" => procs[p].ours

(* The two programs fit, what the application started it knows, and what it    *)
(* did not start it leaves alone, over updates, rollbacks, failures and kills. *)
ServicesKept == CompatibleUnlessRolledBack /\ NothingForgotten /\ ForeignIsLeftAlone

(* An update never ends a Turn of AgentHub (README of desktop: it waits until  *)
(* no Turn is active).  False: the count is taken before the download.         *)
UpdateSparesTurns == ~history.cutTurn
================================================================================
