----------------------------- MODULE WorkspaceSet -----------------------------
(***************************************************************************)
(* Which Workspaces a pua serve process has: the list in its configuration *)
(* file, the lock of every one of them, and their initialization           *)
(* (serve/serve.go, workspace_lock.go, config_lock.go, agenthub_settings.go *)
(* and app/api.go).                                                        *)
(*                                                                         *)
(* The locks are flocks: the system releases them when a process ends.     *)
(* Nothing guards the configuration file inside a process: each request    *)
(* reads it, works, perhaps over the network, and writes all of it back.   *)
(* pua init initializes a Workspace without the lock of a server.          *)
(***************************************************************************)
EXTENDS Naturals, FiniteSets, FiniteSetsExt

CONSTANTS
    Servers,       \* pua serve processes
    Configs,       \* configuration files
    NumSpaces,     \* Workspace directories, in the order of their paths
    Callers,       \* requests in progress at one time, in servers and on the command line
    MaxCalls,      \* bound on the requests
    MaxStops,      \* bound on the ends of servers
    MaxSetFaults   \* bound on the failing steps

ASSUME SetAssumption == {NumSpaces, MaxCalls, MaxStops, MaxSetFaults} \subseteq Nat

Spaces == 1..NumSpaces

VARIABLES
    file,     \* the configuration file of each server
    disk,     \* the files of each Workspace
    mutating, \* who holds the application lock of each Workspace
    conf,     \* the Workspaces in each configuration file
    server,   \* how far each server is, and its serve locks
    call,     \* the requests
    overlap,  \* history: servers in which two requests had the configuration at once
    count     \* requests, ends, faults and instance ids so far (bounds)

setVars == <<file, disk, mutating, conf, server, call, overlap, count>>

Nothing == [marker |-> FALSE, dirs |-> FALSE, id |-> 0, rest |-> FALSE]
NoCall == [pc |-> "none", op |-> "none", by |-> {}, space |-> 0, create |-> FALSE, locked |-> FALSE, seen |-> {}]
Down == [at |-> "down", locks |-> {}]

SetInit ==
    /\ file \in [Servers -> Configs]
    /\ disk = [w \in Spaces |-> Nothing]
    /\ mutating = [w \in Spaces |-> {}]
    /\ conf = [f \in Configs |-> {}]
    /\ server = [s \in Servers |-> Down]
    /\ call = [c \in Callers |-> NoCall]
    /\ overlap = {}
    /\ count = [calls |-> 0, stops |-> 0, faults |-> 0, ids |-> 0]

Faults == count.faults < MaxSetFaults /\ count' = [count EXCEPT !.faults = @ + 1]
Goes(c, pc) == call' = [call EXCEPT ![c].pc = pc]

(* The server of a request; the command line has none. *)
Home(c) == CHOOSE s \in Servers : call[c].by = {s}
Serving(s) == {c \in Callers : call[c].by = {s}}
Owns(s, w) == w \in server[s].locks
Taken(w) == \E s \in Servers : Owns(s, w)

(* OpenWorkspace. *)
Present(w) == disk[w].id # 0 \/ disk[w].dirs
IsWorkspace(w) == Present(w) /\ ~disk[w].marker

-----------------------------------------------------------------------------
(* Main.                                                                     *)

(* One process per configuration file. *)
ServeStarts(s) ==
    /\ server[s].at = "down"
    /\ \A t \in Servers : file[t] = file[s] => server[t].at = "down"
    /\ server' = [server EXCEPT ![s].at = "initial"]
    /\ UNCHANGED <<file, disk, mutating, conf, call, overlap, count>>

(* The Workspace of the -workspace flag, without which the start fails, or   *)
(* the current directory when the list is empty, or none.                    *)
StartAdds(s) ==
    /\ server[s].at = "initial"
    /\ \/ /\ count.calls < MaxCalls
          /\ \E at \in {"flag"} \cup (IF conf[file[s]] = {} THEN {"directory"} ELSE {}) :
                server' = [server EXCEPT ![s].at = at]
          /\ count' = [count EXCEPT !.calls = @ + 1]
          /\ \E c \in Callers, w \in Spaces :
                /\ call[c] = NoCall
                /\ call' = [call EXCEPT ![c] = [NoCall EXCEPT !.pc = "looks", !.op = "add", !.by = {s}, !.space = w]]
       \/ server' = [server EXCEPT ![s].at = "locking"] /\ UNCHANGED <<call, count>>
    /\ UNCHANGED <<file, disk, mutating, conf, overlap>>

StartAdded(s) ==
    /\ server[s].at \in {"flag", "directory"} /\ Serving(s) = {}
    /\ server' = [server EXCEPT ![s].at = "locking"]
    /\ UNCHANGED <<file, disk, mutating, conf, call, overlap, count>>

(* Every Workspace of the list is locked, in order, or none is. *)
StartLocks(s) ==
    LET wanted == conf[file[s]] \ server[s].locks IN
    /\ server[s].at = "locking"
    /\ server' = [server EXCEPT ![s] =
          IF wanted = {} THEN [@ EXCEPT !.at = "ensuring"]
          ELSE IF Taken(Min(wanted)) THEN Down
          ELSE [@ EXCEPT !.locks = @ \cup {Min(wanted)}]]
    /\ UNCHANGED <<file, disk, mutating, conf, call, overlap, count>>

(* EnsureResourceRuntime gives an instance id to a Workspace that has none. *)
Fresh == count.ids + 1
WithId(w) == [disk EXCEPT ![w].id = IF @ = 0 THEN Fresh ELSE @]

StartEnsures(s) ==
    /\ server[s].at = "ensuring"
    /\ \A w \in conf[file[s]] : mutating[w] = {}
    /\ server' = [server EXCEPT ![s] = IF \A w \in conf[file[s]] : IsWorkspace(w) THEN [@ EXCEPT !.at = "up"] ELSE Down]
    /\ UNCHANGED <<file, disk, mutating, conf, call, overlap, count>>

(* The end of a process, in order or not: its requests end where they are. *)
Stops(s) ==
    /\ server[s].at # "down" /\ count.stops < MaxStops
    /\ count' = [count EXCEPT !.stops = @ + 1]
    /\ server' = [server EXCEPT ![s] = Down]
    /\ call' = [c \in Callers |-> IF c \in Serving(s) THEN NoCall ELSE call[c]]
    /\ mutating' = [w \in Spaces |-> mutating[w] \ Serving(s)]
    /\ overlap' = overlap \ {s}
    /\ UNCHANGED <<file, disk, conf>>

-----------------------------------------------------------------------------
(* Requests.                                                                 *)

Asked(c, s, op, pc) == [NoCall EXCEPT !.pc = pc, !.op = op, !.by = {s}]

AsksAdd(c, s) ==
    \E w \in Spaces, create \in BOOLEAN :
        call' = [call EXCEPT ![c] = [Asked(c, s, "add", "looks") EXCEPT !.space = w, !.create = create]]

AsksRemove(c, s) == \E w \in Spaces : call' = [call EXCEPT ![c] = [Asked(c, s, "remove", "loads") EXCEPT !.space = w]]

(* An icon or a name: the other entries of the list are written back.        *)
AsksEdit(c, s) == \E w \in Spaces : call' = [call EXCEPT ![c] = [Asked(c, s, "edit", "loads") EXCEPT !.space = w]]

(* The settings, read or saved: AgentHub is asked between the two accesses   *)
(* to the file, and reading them saves what was normalized.                  *)
AsksSettings(c, s) == call' = [call EXCEPT ![c] = Asked(c, s, "settings", "loads")]

Requests(c, s) ==
    /\ call[c] = NoCall /\ server[s].at = "up" /\ count.calls < MaxCalls
    /\ count' = [count EXCEPT !.calls = @ + 1]
    /\ overlap' = IF Serving(s) # {} THEN overlap \cup {s} ELSE overlap
    /\ AsksAdd(c, s) \/ AsksRemove(c, s) \/ AsksEdit(c, s) \/ AsksSettings(c, s)
    /\ UNCHANGED <<file, disk, mutating, conf, server>>

(* pua init. *)
CommandLine(c) ==
    /\ call[c] = NoCall /\ count.calls < MaxCalls
    /\ count' = [count EXCEPT !.calls = @ + 1]
    /\ \E w \in Spaces : call' = [call EXCEPT ![c] = [NoCall EXCEPT !.pc = "init", !.op = "init", !.space = w, !.create = TRUE]]
    /\ UNCHANGED <<file, disk, mutating, conf, server, overlap>>

(* A request that fails: an add gives back the lock it took, and ends the    *)
(* start it is part of.                                                      *)
Released(c) ==
    [server EXCEPT ![Home(c)] = IF @.at = "flag" THEN Down
                                ELSE IF call[c].locked THEN [@ EXCEPT !.locks = @ \ {call[c].space}] ELSE @]

(* Mutant of LocksMatch: it keeps the lock. *)
FailsLocked(c) == call' = [call EXCEPT ![c] = NoCall] /\ UNCHANGED server

CallFails(c) ==
    /\ call' = [call EXCEPT ![c] = NoCall]
    /\ server' = IF call[c].by = {} THEN server ELSE Released(c)

(* addWorkspaceWithOptions: is it owned, and if not, locked in a step of its *)
(* own; a second add of the same server may have been faster.                *)
AddLooks(c) ==
    /\ call[c].pc = "looks"
    /\ Goes(c, IF Owns(Home(c), call[c].space) THEN "tree" ELSE "locks")
    /\ UNCHANGED <<file, disk, mutating, conf, server, overlap, count>>

AddLocks(c) ==
    LET s == Home(c) w == call[c].space IN
    /\ call[c].pc = "locks"
    /\ IF Taken(w) /\ ~Owns(s, w) THEN CallFails(c)
       ELSE /\ server' = [server EXCEPT ![s].locks = @ \cup {w}]
            /\ call' = [call EXCEPT ![c].pc = "tree", ![c].locked = TRUE]
    /\ UNCHANGED <<file, disk, mutating, conf, overlap, count>>

(* treeAt: of an owned Workspace only; what cannot be read may be created. *)
AddReads(c) ==
    LET w == call[c].space IN
    /\ call[c].pc \in {"tree", "tree again"}
    /\ CASE Owns(Home(c), w) /\ IsWorkspace(w) -> Goes(c, "loads") /\ UNCHANGED server
         [] ~(Owns(Home(c), w) /\ IsWorkspace(w)) /\ call[c].create /\ call[c].pc = "tree" -> Goes(c, "init") /\ UNCHANGED server
         [] OTHER -> CallFails(c)
    /\ UNCHANGED <<file, disk, mutating, conf, overlap, count>>

(* loadConfig. *)
Loads(c) ==
    LET list == conf[file[Home(c)]] IN
    /\ call[c].pc = "loads"
    /\ IF call[c].op \in {"remove", "edit"} /\ call[c].space \notin list
       THEN CallFails(c)
       ELSE /\ call' = [call EXCEPT ![c].pc = IF call[c].op = "add" THEN "ensures" ELSE "saves", ![c].seen = list]
            /\ UNCHANGED server
    /\ UNCHANGED <<file, disk, mutating, conf, overlap, count>>

(* Users, their read state and the resource runtime of the Workspace. *)
AddEnsures(c) ==
    LET w == call[c].space IN
    /\ call[c].pc = "ensures" /\ mutating[w] = {}
    /\ \/ /\ IsWorkspace(w)
          /\ disk' = WithId(w)
          /\ count' = IF disk[w].id = 0 THEN [count EXCEPT !.ids = Fresh] ELSE count
          /\ Goes(c, "saves") /\ UNCHANGED server
       \/ (Faults \/ (~IsWorkspace(w) /\ UNCHANGED count)) /\ CallFails(c) /\ UNCHANGED disk
    /\ UNCHANGED <<file, mutating, conf, overlap>>

(* saveConfig: what was read, with the change. *)
Changed(c) ==
    CASE call[c].op = "add" -> call[c].seen \cup {call[c].space}
      [] call[c].op = "remove" -> call[c].seen \ {call[c].space}
      [] OTHER -> call[c].seen

Saves(c) ==
    /\ call[c].pc = "saves"
    /\ \/ /\ conf' = [conf EXCEPT ![file[Home(c)]] = Changed(c)]
          /\ call' = [call EXCEPT ![c] = IF call[c].op = "remove" THEN [@ EXCEPT !.pc = "releases"] ELSE NoCall]
          /\ UNCHANGED <<server, count>>
       \/ Faults /\ CallFails(c) /\ UNCHANGED conf
    /\ UNCHANGED <<file, disk, mutating, overlap>>

SettingsSame(c) ==
    /\ call[c].pc = "saves" /\ call[c].op = "settings"
    /\ call' = [call EXCEPT ![c] = NoCall]
    /\ UNCHANGED <<file, disk, mutating, conf, server, overlap, count>>

RemoveReleases(c) ==
    /\ call[c].pc = "releases"
    /\ server' = [server EXCEPT ![Home(c)].locks = @ \ {call[c].space}]
    /\ call' = [call EXCEPT ![c] = NoCall]
    /\ UNCHANGED <<file, disk, mutating, conf, overlap, count>>

-----------------------------------------------------------------------------
(* Initialize.  A Workspace that is there is refused, unless its marker says *)
(* that it is not whole; that is looked at before the lock is there.         *)

InitLooks(c) ==
    LET w == call[c].space IN
    /\ call[c].pc = "init"
    /\ IF Present(w) /\ ~disk[w].marker THEN CallFails(c) ELSE Goes(c, "marks") /\ UNCHANGED server
    /\ UNCHANGED <<file, disk, mutating, conf, overlap, count>>

Inside(c) == mutating[call[c].space] = {c}

InitMarks(c) ==
    /\ call[c].pc = "marks" /\ mutating[call[c].space] = {}
    /\ mutating' = [mutating EXCEPT ![call[c].space] = {c}]
    /\ disk' = [disk EXCEPT ![call[c].space].marker = TRUE]
    /\ Goes(c, "dirs")
    /\ UNCHANGED <<file, conf, server, overlap, count>>

InitDirs(c) ==
    /\ call[c].pc = "dirs"
    /\ disk' = [disk EXCEPT ![call[c].space].dirs = TRUE]
    /\ Goes(c, "config")
    /\ UNCHANGED <<file, mutating, conf, server, overlap, count>>

InitConfig(c) ==
    /\ call[c].pc = "config"
    /\ disk' = [disk EXCEPT ![call[c].space].id = IF @ = 0 THEN Fresh ELSE @]
    /\ count' = [count EXCEPT !.ids = Fresh]
    /\ Goes(c, "rest")
    /\ UNCHANGED <<file, mutating, conf, server, overlap>>

(* Wiki, AGENTS.md, Scheduler. *)
InitRest(c) ==
    /\ call[c].pc = "rest"
    /\ disk' = [disk EXCEPT ![call[c].space].rest = TRUE]
    /\ Goes(c, "unmarks")
    /\ UNCHANGED <<file, mutating, conf, server, overlap, count>>

InitUnmarks(c) ==
    /\ call[c].pc = "unmarks"
    /\ disk' = [disk EXCEPT ![call[c].space].marker = FALSE]
    /\ mutating' = [mutating EXCEPT ![call[c].space] = {}]
    /\ call' = [call EXCEPT ![c] = IF call[c].by # {} THEN [@ EXCEPT !.pc = "tree again"] ELSE NoCall]
    /\ UNCHANGED <<file, conf, server, overlap, count>>

(* A step fails, or the command is killed: the marker stays. *)
InitBreaks(c) ==
    /\ call[c].pc \in {"dirs", "config", "rest", "unmarks"} /\ Inside(c)
    /\ Faults
    /\ mutating' = [mutating EXCEPT ![call[c].space] = {}]
    /\ CallFails(c)
    /\ UNCHANGED <<file, disk, conf, overlap>>

SetNext ==
    \/ \E s \in Servers : ServeStarts(s) \/ StartAdds(s) \/ StartAdded(s) \/ StartLocks(s) \/ StartEnsures(s) \/ Stops(s)
    \/ \E c \in Callers :
          \/ \E s \in Servers : Requests(c, s)
          \/ CommandLine(c)
          \/ AddLooks(c) \/ AddLocks(c) \/ AddReads(c) \/ Loads(c) \/ AddEnsures(c) \/ Saves(c) \/ SettingsSame(c) \/ RemoveReleases(c)
          \/ InitLooks(c) \/ InitMarks(c) \/ InitDirs(c) \/ InitConfig(c) \/ InitRest(c) \/ InitUnmarks(c) \/ InitBreaks(c)

-----------------------------------------------------------------------------
(* What OpenWorkspace takes for a Workspace has all its parts, over crashes  *)
(* and failing steps, and with two initializations at the same time          *)
(* (InitializeWithOptions: the marker makes an interrupted one recognizable).*)
WholeOrMarked == \A w \in Spaces : IsWorkspace(w) => disk[w].id # 0 /\ disk[w].dirs /\ disk[w].rest

(* The instance id of a Workspace is stable: runtime data, read state and    *)
(* generations are keyed by it, and no retry of an initialization changes it.*)
InstanceKept == [][\A w \in Spaces : disk[w].id # 0 => disk'[w].id = disk[w].id]_setVars

(* serve.go:1697: a server that is up, and where no two requests worked with *)
(* the configuration at once, has the locks of its Workspaces and no other:  *)
(* a failed add leaves no lock, a removed Workspace is free for others.      *)
LocksMatch ==
    \A s \in Servers : server[s].at = "up" /\ Serving(s) = {} /\ s \notin overlap => server[s].locks = conf[file[s]]

(* All three, over crashes, failing steps, and servers and commands that     *)
(* work on the same Workspace and the same configuration.                    *)
WorkspacesKept == [](WholeOrMarked /\ LocksMatch) /\ InstanceKept

(* workspace_lock.go:249: "a serve instance never manages only part of its   *)
(* configured workspaces".  False: with two requests at once the list is     *)
(* written back as it was.                                                   *)
ConfiguredIsOwned == \A s \in Servers : server[s].at = "up" /\ Serving(s) = {} => conf[file[s]] \subseteq server[s].locks
=============================================================================
