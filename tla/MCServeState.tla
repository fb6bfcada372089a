---------------------------- MODULE MCServeState ----------------------------
(* What a pua serve process keeps in files beside its mailboxes: the         *)
(* generations of a resource, the work of a Task, the notices of failed      *)
(* messages, what users have read, and the directories of Projects and       *)
(* Tasks.  The parts share no state: a behaviour is about one of them, the   *)
(* others stay as they were in one initial state.                            *)
EXTENDS TLC, GenerationStore, TaskWork, TerminalNotices, ReadState, WorkspaceTree

CONSTANT Scope     \* the parts a run is about
VARIABLE focus

MCInit ==
    /\ focus \in Scope
    /\ Init /\ TaskInit /\ NoticesInit /\ ReadInit /\ TreeInit
    /\ focus # "read" => profiles = {} /\ legacy = {} /\ \A r \in Resources : ended[r] = 0

(* One user is busy: it alone saves views and is deleted; the others read  *)
(* and register.                                                           *)
Busy == \A q \in requests' : q.op \in {"save", "delete"} => q.user = LegacyUser

MCNext ==
    /\ \/ focus = "generations" /\ Next /\ UNCHANGED <<taskVars, noticeVars, readVars, treeVars>>
       \/ focus = "work" /\ TaskNext /\ UNCHANGED <<vars, noticeVars, readVars, treeVars>>
       \/ focus = "notices" /\ NoticesNext /\ UNCHANGED <<vars, taskVars, readVars, treeVars>>
       \/ focus = "read" /\ ReadNext /\ Busy /\ UNCHANGED <<vars, taskVars, noticeVars, treeVars>>
       \/ focus = "tree" /\ TreeNext /\ UNCHANGED <<vars, taskVars, noticeVars, readVars>>
    /\ UNCHANGED focus

MCSpec == MCInit /\ [][MCNext]_<<vars, taskVars, noticeVars, readVars, treeVars, focus>>

Symmetric == Permutations(Inputs)
=============================================================================
