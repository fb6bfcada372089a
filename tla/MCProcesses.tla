---------------------------- MODULE MCProcesses -----------------------------
(* The processes of one machine and what passes between them: the desktop    *)
(* application and the two programs it starts, AgentHub and its Session      *)
(* files and clients, AgentHub and a provider, serve and its Workspaces,     *)
(* serve and the usage it asks of AgentHub.  The parts share no state: a     *)
(* behaviour is about one of them, the others stay in one initial state.     *)
EXTENDS DesktopServices, SessionLog, ProviderTransport, WorkspaceSet, GenerationRotation

(* The goroutines that append to the log are alike. *)
MCSymmetry == Permutations(Writers)

(* PUA n needs AgentHub n. *)
MCFloor == [v \in 1..2 |-> v]
MCRoutes == [p \in Profiles |-> IF p = "default" THEN {"a"} ELSE {"b"}]

CONSTANT Scope     \* the parts a run is about
VARIABLE focus

Elsewhere(part, one) == focus # part => one

MCInit ==
    /\ focus \in Scope
    /\ DesktopInit /\ LogInit /\ WireInit /\ SetInit /\ RotationInit
    /\ Elsewhere("wire", proto = "codex")
    /\ Elsewhere("set", \A s \in Servers : file[s] = CHOOSE f \in Configs : TRUE)
    /\ Elsewhere("rotation", settings.limit = 0 /\ ~settings.idle)

MCNext ==
    /\ \/ focus = "desktop" /\ DesktopNext /\ UNCHANGED <<logVars, wireVars, setVars, rotationVars>>
       \/ focus = "log" /\ LogNext /\ UNCHANGED <<desktopVars, wireVars, setVars, rotationVars>>
       \/ focus = "wire" /\ WireNext /\ UNCHANGED <<desktopVars, logVars, setVars, rotationVars>>
       \/ focus = "set" /\ SetNext /\ UNCHANGED <<desktopVars, logVars, wireVars, rotationVars>>
       \/ focus = "rotation" /\ RotationNext /\ UNCHANGED <<desktopVars, logVars, wireVars, setVars>>
    /\ UNCHANGED focus

MCSpec == MCInit /\ [][MCNext]_<<desktopVars, logVars, wireVars, setVars, rotationVars, focus>>
=============================================================================
