----------------------------- MODULE ArchivedWork -----------------------------
(***************************************************************************)
(* What becomes of the messages and the Session of a resource that is        *)
(* archived (serve.go archiveResource, archive_runtime.go, the cold audit of *)
(* agenthub_poller.go and the mailbox passes).  The rename of WorkspaceTree  *)
(* is the commit.  The server then marks the mailboxes of the resource and,  *)
(* for a Project, of its Tasks; the CLI renames and does nothing else.  The  *)
(* audit makes good for what either left undone.                             *)
(*                                                                           *)
(* A pass, a send and the audit of one resource exclude one another by the   *)
(* resource's controller.  The archive request holds the controller of the   *)
(* resource it names: that of a Project, not those of the Project's Tasks.   *)
(* One message and one Session stand for those of a resource.                *)
(***************************************************************************)
EXTENDS WorkspaceTree

CONSTANTS
    MaxMessages, \* messages accepted (bound)
    MaxWorkFaults \* restarts of the server and failed calls (bound)

ASSUME WorkAssumption == MaxMessages \in Nat /\ MaxWorkFaults \in Nat

VARIABLES
    mail,     \* the message of a resource
    hub,      \* its AgentHub Session
    control,  \* who has its controller, and how far
    handler,  \* the archive request in progress
    audit,    \* the cold audit: the Sessions it listed, the resources left
    accepted, \* messages so far
    workFaults,
    sent, refused, cut \* history: reached AgentHub, marked undeliverable, Turn stopped

mailVars == <<mail, sent, refused, accepted>>
workVars == <<mail, hub, control, handler, audit, accepted, workFaults, sent, refused, cut>>

Pending == {"queued", "delivering"}
Fails == /\ workFaults < MaxWorkFaults
         /\ workFaults' = workFaults + 1

(* acceptResourceMessageDurable looks at the directory, then writes. *)
Accepts(id) ==
    /\ control[id] = "free" /\ OpenDir(id) # {}
    /\ mail[id] = "none" /\ accepted < MaxMessages
    /\ control' = [control EXCEPT ![id] = "accept"]
    /\ accepted' = accepted + 1
    /\ UNCHANGED <<treeVars, mail, hub, handler, audit, workFaults, sent, refused, cut>>

AcceptCommits(id) ==
    /\ control[id] = "accept"
    /\ mail' = [mail EXCEPT ![id] = "queued"]
    /\ control' = [control EXCEPT ![id] = "free"]
    /\ UNCHANGED <<treeVars, hub, handler, audit, accepted, workFaults, sent, refused, cut>>

(* markResourceMailboxArchived *)
Marked(status) ==
    CASE status = "queued" -> "undeliverable"
      [] status = "delivering" -> "unknown"
      [] OTHER -> status

Marks(id) ==
    /\ mail' = [mail EXCEPT ![id] = Marked(@)]
    /\ refused' = IF mail[id] = "queued" THEN refused \cup {id} ELSE refused
    /\ UNCHANGED <<sent, accepted>>

(* reconcileResourceMailboxLocked.  An archived resource only has its       *)
(* mailbox closed; a resource that is not found is left alone.  A resource  *)
(* without a Session gets one before anything is sent.                      *)
PassCloses(id) ==
    /\ control[id] = "free" /\ mail[id] \in Pending /\ Archived(id)
    /\ Marks(id)
    /\ UNCHANGED <<treeVars, hub, control, handler, audit, workFaults, cut>>

PassReads(id) ==
    /\ control[id] = "free" /\ mail[id] \in Pending /\ OpenDir(id) # {}
    /\ control' = [control EXCEPT ![id] = "read"]
    /\ hub' = [hub EXCEPT ![id] = IF @ = "running" THEN @ ELSE "ready"]
    /\ UNCHANGED <<treeVars, mailVars, handler, audit, workFaults, cut>>

(* The status is set whatever it is by now. *)
PassMarks(id) ==
    /\ control[id] = "read"
    /\ mail' = [mail EXCEPT ![id] = "delivering"]
    /\ control' = [control EXCEPT ![id] = "marked"]
    /\ UNCHANGED <<treeVars, hub, handler, audit, accepted, workFaults, sent, refused, cut>>

(* The input opens a Turn or enters the one there is; AgentHub takes it     *)
(* once.  The answer may be lost with or without it.                        *)
Taken(id) == /\ hub' = IF id \in sent THEN hub ELSE [hub EXCEPT ![id] = "running"]
             /\ sent' = sent \cup {id}

PassSends(id) ==
    /\ control[id] = "marked"
    /\ \/ /\ control' = [control EXCEPT ![id] = "sent"]
          /\ Taken(id)
          /\ UNCHANGED workFaults
       \/ /\ Fails
          /\ control' = [control EXCEPT ![id] = "free"]
          /\ Taken(id) \/ UNCHANGED <<hub, sent>>
    /\ UNCHANGED <<treeVars, mail, handler, audit, accepted, refused, cut>>

(* The result counts only while the message is still the next one. *)
PassConfirms(id) ==
    /\ control[id] = "sent"
    /\ mail' = IF mail[id] \in Pending THEN [mail EXCEPT ![id] = "delivered"] ELSE mail
    /\ control' = [control EXCEPT ![id] = "free"]
    /\ UNCHANGED <<treeVars, hub, handler, audit, accepted, workFaults, sent, refused, cut>>

TurnEnds(id) ==
    /\ hub[id] = "running"
    /\ hub' = [hub EXCEPT ![id] = "ready"]
    /\ UNCHANGED <<treeVars, mailVars, control, handler, audit, workFaults, cut>>

-----------------------------------------------------------------------------
(* archiveResource of the server: who is affected is listed before the lock *)
(* is taken, and only what can be read.                                     *)
Listed(id) ==
    {id} \cup {Id(d) : d \in {x \in Dirs : id[2] = 0 /\ tree[x].home \in Find(id) /\ tree[x].good}}

(* Mutant of OwnArchiveIsClean: no controller is taken. *)
ArchiveBeginsAnyway(id) ==
    /\ handler = {} /\ Find(id) # {}
    /\ handler' = {[id |-> id, ids |-> Listed(id), moved |-> FALSE]}
    /\ UNCHANGED <<treeVars, mailVars, hub, control, audit, workFaults, cut>>

ArchiveBegins(id) ==
    /\ handler = {} /\ control[id] = "free" /\ Find(id) # {}
    /\ control' = [control EXCEPT ![id] = "archive"]
    /\ handler' = {[id |-> id, ids |-> Listed(id), moved |-> FALSE]}
    /\ UNCHANGED <<treeVars, mailVars, hub, audit, workFaults, cut>>

Released(h) == [control EXCEPT ![h.id] = IF @ = "archive" THEN "free" ELSE @]

ArchiveMoves ==
    /\ Free
    /\ \E h \in handler :
          /\ ~h.moved
          /\ \/ /\ Moves(h.id)
                /\ handler' = {[h EXCEPT !.moved = TRUE]}
                /\ UNCHANGED control
             \/ /\ MayMove(h.id) = {}
                /\ handler' = {} /\ control' = Released(h)
                /\ UNCHANGED tree
    /\ UNCHANGED <<creating, treeFaults, mailVars, hub, audit, workFaults, cut>>

(* Each mailbox is marked in turn; a failure is a warning. *)
ArchiveMarks ==
    /\ \E h \in handler :
          /\ h.moved
          /\ \E id \in h.ids :
                /\ \/ Marks(id) /\ UNCHANGED workFaults
                   \/ Fails /\ UNCHANGED mailVars
                /\ handler' = {[h EXCEPT !.ids = @ \ {id}]}
    /\ UNCHANGED <<treeVars, hub, control, audit, cut>>

ArchiveEnds ==
    /\ \E h \in handler :
          /\ h.ids = {}
          /\ control' = Released(h)
    /\ handler' = {}
    /\ UNCHANGED <<treeVars, mailVars, hub, audit, workFaults, cut>>

-----------------------------------------------------------------------------
(* The cold audit lists the Sessions once, then reads where the resources   *)
(* lie, then takes one resource after the other.                            *)
AuditLists ==
    /\ audit.at = "idle"
    /\ \E id \in Ids : hub[id] \in {"ready", "running"}
    /\ audit' = [at |-> "listed", seen |-> hub, todo |-> {}]
    /\ UNCHANGED <<treeVars, mailVars, hub, control, handler, workFaults, cut>>

AuditInspects ==
    /\ audit.at = "listed"
    /\ audit' = [audit EXCEPT !.at = "reclaiming",
                              !.todo = {id \in Ids : audit.seen[id] \in {"ready", "running"} /\ Archived(id)}]
    /\ UNCHANGED <<treeVars, mailVars, hub, control, handler, workFaults, cut>>

(* stopAgentHubSessionForArchivedResource: the mailbox is closed first; a   *)
(* Session listed as running keeps its Turn; one listed as ready is stopped *)
(* and archived.                                                            *)
AuditReclaims(id) ==
    /\ audit.at = "reclaiming" /\ id \in audit.todo /\ control[id] = "free"
    /\ audit' = [audit EXCEPT !.todo = @ \ {id}]
    /\ CASE mail[id] \in Pending -> Marks(id) /\ UNCHANGED <<hub, workFaults, cut>>
         [] mail[id] \notin Pending /\ audit.seen[id] = "running" -> UNCHANGED <<mailVars, hub, workFaults, cut>>
         [] OTHER -> /\ \/ /\ hub' = [hub EXCEPT ![id] = "gone"]
                           /\ cut' = IF hub[id] = "running" THEN cut \cup {id} ELSE cut
                           /\ UNCHANGED workFaults
                        \/ Fails /\ UNCHANGED <<hub, cut>>
                     /\ UNCHANGED mailVars
    /\ UNCHANGED <<treeVars, control, handler>>

AuditEnds ==
    /\ audit.at = "reclaiming" /\ audit.todo = {}
    /\ audit' = [at |-> "idle", seen |-> [id \in Ids |-> "none"], todo |-> {}]
    /\ UNCHANGED <<treeVars, mailVars, hub, control, handler, workFaults, cut>>

(* The server restarts: its lock, controllers and requests are gone. *)
ServerRestarts ==
    /\ Fails
    /\ creating' = {c \in creating : c.by # "server"}
    /\ control' = [id \in Ids |-> "free"]
    /\ handler' = {}
    /\ audit' = [at |-> "idle", seen |-> [id \in Ids |-> "none"], todo |-> {}]
    /\ UNCHANGED <<tree, treeFaults, mailVars, hub, cut>>

WorkInit ==
    /\ TreeInit
    /\ mail = [id \in Ids |-> "none"] /\ hub = [id \in Ids |-> "none"]
    /\ control = [id \in Ids |-> "free"]
    /\ handler = {} /\ accepted = 0 /\ workFaults = 0
    /\ audit = [at |-> "idle", seen |-> [id \in Ids |-> "none"], todo |-> {}]
    /\ sent = {} /\ refused = {} /\ cut = {}

Pass(id) == PassCloses(id) \/ PassReads(id)
Job(id) == AcceptCommits(id) \/ PassMarks(id) \/ PassSends(id) \/ PassConfirms(id)
Auditing == AuditLists \/ AuditInspects \/ AuditEnds

WorkNext ==
    \/ TreeNext /\ UNCHANGED workVars
    \/ \E id \in Ids : \/ Accepts(id) \/ Pass(id) \/ Job(id) \/ TurnEnds(id)
                       \/ ArchiveBegins(id) \/ AuditReclaims(id)
    \/ ArchiveMoves \/ ArchiveMarks \/ ArchiveEnds
    \/ Auditing
    \/ ServerRestarts

(* The audit runs every thirty seconds and a pass for every hot mailbox;     *)
(* controllers serve their queue in order, so whoever waits is served.       *)
WorkFairness ==
    /\ WF_<<treeVars, workVars>>(CreateCommits /\ UNCHANGED workVars)
    /\ WF_<<treeVars, workVars>>(ArchiveMoves \/ ArchiveMarks \/ ArchiveEnds)
    /\ WF_<<treeVars, workVars>>(Auditing)
    /\ \A id \in Ids : /\ WF_<<treeVars, workVars>>(Job(id))
                       /\ WF_<<treeVars, workVars>>(TurnEnds(id))
                       /\ SF_<<treeVars, workVars>>(Pass(id))
                       /\ SF_<<treeVars, workVars>>(AuditReclaims(id))

WorkSpec == WorkInit /\ [][WorkNext]_<<treeVars, workVars>> /\ WorkFairness

-----------------------------------------------------------------------------
(* Whoever archived a resource, and whatever failed on the way: its message *)
(* ends and its Session is reclaimed, as long as the resource is found.     *)
Settled(id) == mail[id] \notin Pending /\ hub[id] \notin {"ready", "running"}

InArchive(id) ==
    \E d \in Find(id) : "archive" \in {tree[x].place : x \in {d, tree[d].home} \cap Dirs}

ArchivedSettles == \A id \in Ids : InArchive(id) ~> (Settled(id) \/ ~InArchive(id))

(* A message is marked undeliverable and sent all the same only where the   *)
(* mark came with the archive of its Project: the controller of a resource  *)
(* keeps its own archive, its passes and the audit apart.                   *)
OwnArchiveIsClean ==
    \A id \in refused \cap sent :
       id[2] # 0 /\ \E d \in Dirs : Id(d) = ProjectOf(id) /\ IsArchived(d)

(* README.md:201: "items not yet sent become `undeliverable`". *)
UndeliverableNotSent == refused \cap sent = {}

(* agenthub_poller.go:264: "Do not silently interrupt it: the reconciler    *)
(* waits for the natural Turn boundary".                                    *)
ArchiveSparesTurns == cut = {}
=============================================================================
