---------------------------- MODULE MailboxStore ----------------------------
(***************************************************************************)
(* The mailbox bundle of one PUA resource on disk                          *)
(* (internal/serve/resource_mailbox_store.go): four documents replaced     *)
(* together through commit.json, and the hot index the poller reads        *)
(* instead of every bundle.  ResourceMailbox takes a mutation of the       *)
(* mailbox as one step; this module is why it may.                         *)
(*                                                                         *)
(* A step is one directory operation (a rename, a removal) or one fsync of *)
(* a directory.  File contents are fsynced before their rename.  A crash   *)
(* keeps the operations up to some moment not before the last fsync, so    *)
(* `crashable' holds every directory the next process may find; killing    *)
(* the process only keeps the live one.                                    *)
(***************************************************************************)
EXTENDS Naturals, FiniteSets, Sequences

CONSTANTS Msgs, NoTick,
          MaxSequence,     \* bound on the accepted messages
          ReceiptLimit,    \* resourceMailboxReceiptRetentionCount
          ExpiredLimit,    \* resourceMailboxExpiredRetentionCount
          RenameErrors     \* may an operation after commit.json's rename fail?

ASSUME LimitsAssumption ==
  MaxSequence \in Nat /\ ReceiptLimit \in Nat /\ ExpiredLimit \in Nat
ASSUME MsgsAssumption == IsFiniteSet(Msgs)
ASSUME RenameErrorsAssumption == RenameErrors \in BOOLEAN

\* The order in which the documents are renamed.
Files == <<"hot", "receipts", "outbox", "scheduler">>
FileNames == {"hot", "receipts", "outbox", "scheduler"}

Procs == {"mutate", "rebuild"}

VARIABLES
  live,            \* the bundle's directory: documents, temporaries, commit.json
  crashable,       \* the directories a crash may leave
  index,           \* the hot index: this resource's marker, ready.json
  indexCrashable,  \* the indexes a crash may leave
  pc, at,          \* the mutation under the resource lock, and the rebuild
  own,             \* do the temporaries named by the read commit.json exist?
  goal,            \* what the mutation wants the documents to be
  active,          \* does the bundle the rebuild loaded need hot work?
  mu,              \* resourceMailboxHotIndexMu
  torn,            \* history: a rebuild stopped after it removed markers
  disturbed,       \* history: a transaction lost its temporaries, or a rebuild
                   \* was recovering while it ran
  promised         \* history: what the next load may return

disk == <<live, crashable>>
marks == <<index, indexCrashable>>
history == <<torn, disturbed>>
vars == <<disk, marks, pc, at, own, goal, active, mu, history, promised>>

Bundle ==
  [hot: [next: 0..MaxSequence, msgs: SUBSET Msgs],
   receipts: [kept: SUBSET Msgs, expired: SUBSET Msgs],
   outbox: SUBSET Msgs,
   scheduler: Msgs \union {NoTick}]

EmptyBundle ==
  [hot |-> [next |-> 0, msgs |-> {}],
   receipts |-> [kept |-> {}, expired |-> {}],
   outbox |-> {},
   scheduler |-> NoTick]

Directory ==
  [docs: Bundle, temps: Bundle, left: SUBSET FileNames, commit: BOOLEAN]

TypeOK ==
  /\ live \in Directory
  /\ crashable \subseteq Directory
  /\ index \in [marker: BOOLEAN, ready: BOOLEAN]
  /\ indexCrashable \subseteq [marker: BOOLEAN, ready: BOOLEAN]
  /\ pc \in [mutate: {"idle", "recover", "recovered", "loaded", "mark",
                      "publish", "commit", "rename", "settle", "unmark",
                      "undo"},
             rebuild: {"idle", "recover", "recovered", "loaded", "unready",
                       "write", "ready"}]
  /\ at \in [Procs -> 1..Len(Files) + 1]
  /\ own \in [Procs -> BOOLEAN]
  /\ goal \in Bundle
  /\ Cardinality(goal.receipts.kept) <= ReceiptLimit
  /\ Cardinality(goal.receipts.expired) <= ExpiredLimit
  /\ mu \in {"free", "mutate", "rebuild"}
  /\ active \in BOOLEAN /\ torn \in BOOLEAN /\ disturbed \in BOOLEAN
  /\ promised \subseteq Bundle

-----------------------------------------------------------------------------
(* Contents: what a mutation may do to the documents.                      *)

\* resourceMailboxStoreNeedsHotWork
NeedsHotWork(b) == b.hot.msgs # {} \/ b.outbox # {}

\* What loadResourceMailboxStoreInternal knows by id, the hot message first.
Known(b) == b.hot.msgs \union b.receipts.kept

\* prepareResourceMailboxDocuments: receipts go by age and number.
KeepsWithin(kept) == Cardinality(kept) <= ReceiptLimit

\* Which receipts go is any choice within the limits; what leaves them is
\* expired until its own limit, and what is known is not expired.
Retained(b) ==
  {[b EXCEPT !.receipts = [kept |-> k, expired |-> e]] :
     k \in {k \in SUBSET b.receipts.kept : KeepsWithin(k)},
     e \in {e \in SUBSET (b.receipts.expired \union b.receipts.kept) :
              Cardinality(e) <= ExpiredLimit}}

\* acceptMailboxMessage and acceptGeneratedMailboxMessage
Accepts(b) ==
  IF b.hot.next = MaxSequence THEN {}
  ELSE {[b EXCEPT !.hot = [next |-> @.next + 1, msgs |-> @.msgs \union {m}]] :
          m \in Msgs \ Known(b)}

\* updateMailboxMessage with a status that needs no hot work.
Settles(b) ==
  {[b EXCEPT !.hot.msgs = @ \ {m}, !.receipts.kept = @ \union {m}] :
     m \in b.hot.msgs}

\* upsertMailboxNotificationOperation and removeMailboxNotificationOperation
Notices(b) ==
  {[b EXCEPT !.outbox = @ \union {m}] : m \in Known(b)}
    \union {[b EXCEPT !.outbox = @ \ {m}] : m \in b.outbox}

\* checkpointSchedulerTickMessage
Checkpoints(b) == {[b EXCEPT !.scheduler = m] : m \in Known(b)}

\* mutateResourceMailboxStoreForResource: the documents a mutation of b may
\* commit; b itself is the compaction of loadAllHotResourceMailboxes.
Mutations(b) ==
  UNION {{[r EXCEPT !.receipts.expired = @ \ Known(r)] : r \in Retained(c)} :
           c \in Accepts(b) \union Settles(b) \union Notices(b)
                   \union Checkpoints(b) \union {b}}

-----------------------------------------------------------------------------
(* Directories.                                                            *)

\* What the documents are once recoverResourceMailboxTransaction has run.
Effective(d) ==
  [f \in FileNames |->
     IF d.commit /\ f \in d.left THEN d.temps[f] ELSE d.docs[f]]

Renamed(d, f) ==
  [d EXCEPT !.docs[f] = d.temps[f], !.left = @ \ {f}]

\* Mutant: the documents are replaced without commit.json.
PublishedUnmarked(d, b) == [d EXCEPT !.temps = b, !.left = FileNames]

\* writeResourceMailboxStoreDocuments: the temporaries are complete before
\* commit.json names them.
Published(d, b) ==
  [d EXCEPT !.temps = b, !.left = FileNames, !.commit = TRUE]

Unlinked(d) == [d EXCEPT !.commit = FALSE]

Discarded(d, f) == [d EXCEPT !.temps[f] = d.docs[f], !.left = @ \ {f}]

\* A directory operation, and an fsync of the directory.
Does(d) == live' = d /\ crashable' = crashable \union {d}
Syncs == live' = live /\ crashable' = {live}

\* The same of the index directory.
Marks(x) == index' = x /\ indexCrashable' = indexCrashable \union {x}
MarksDurably(x) == index' = x /\ indexCrashable' = {x}

Init ==
  /\ live = [docs |-> EmptyBundle, temps |-> EmptyBundle, left |-> {},
             commit |-> FALSE]
  /\ crashable = {live}
  /\ index = [marker |-> FALSE, ready |-> FALSE]
  /\ indexCrashable = {index}
  /\ pc = [p \in Procs |-> "idle"]
  /\ at = [p \in Procs |-> 1]
  /\ own = [p \in Procs |-> FALSE]
  /\ goal = EmptyBundle
  /\ mu = "free" /\ active = FALSE /\ torn = FALSE /\ disturbed = FALSE
  /\ promised = {EmptyBundle}

Goes(p, stage) == pc' = [pc EXCEPT ![p] = stage]
Moves(p, stage) ==
  pc' = [pc EXCEPT ![p] = stage] /\ at' = [at EXCEPT ![p] = @ + 1]

\* The call returns; its variables and its mutex are gone.
Leaves(p) ==
  /\ pc' = [pc EXCEPT ![p] = "idle"]
  /\ at' = [at EXCEPT ![p] = 1]
  /\ own' = [own EXCEPT ![p] = FALSE]
  /\ goal' = IF p = "mutate" THEN EmptyBundle ELSE goal
  /\ active' = (active /\ p # "rebuild")
  /\ mu' = IF mu = p THEN "free" ELSE mu

-----------------------------------------------------------------------------
(* loadResourceMailboxStoreInternal, under the resource lock in a mutation *)
(* or a read and without it in a rebuild.                                  *)

\* A load without a transaction to recover returns the documents.
Loads(p) ==
  /\ Goes(p, "loaded")
  /\ IF p = "mutate" THEN promised' = {live.docs} /\ UNCHANGED active
     ELSE active' = NeedsHotWork(live.docs) /\ UNCHANGED promised

StartLoad(p) ==
  /\ own' = [own EXCEPT ![p] = live.commit]
  /\ at' = [at EXCEPT ![p] = 1]
  /\ IF live.commit THEN Goes(p, "recover") /\ UNCHANGED <<active, promised>>
     ELSE Loads(p)

\* Bound: what becomes of a disturbed bundle is not followed further.
Followed == ~disturbed

BeginMutation ==
  /\ pc.mutate = "idle" /\ Followed
  /\ StartLoad("mutate")
  /\ UNCHANGED <<disk, marks, goal, mu, history>>

\* A temporary that is gone was renamed before the crash, or by another.
RecoverFile(p) ==
  /\ pc[p] = "recover" /\ at[p] <= Len(Files)
  /\ LET f == Files[at[p]]
     IN IF own[p] /\ f \in live.left THEN Does(Renamed(live, f))
        ELSE UNCHANGED disk
  /\ Moves(p, "recover")
  /\ UNCHANGED <<marks, own, goal, active, mu, history, promised>>

RecoverUnlink(p) ==
  /\ pc[p] = "recover" /\ at[p] > Len(Files)
  /\ Does(Unlinked(live))
  /\ Goes(p, "recovered")
  /\ at' = [at EXCEPT ![p] = 1] /\ own' = [own EXCEPT ![p] = FALSE]
  /\ UNCHANGED <<marks, goal, active, mu, history, promised>>

RecoverSync(p) ==
  /\ pc[p] = "recovered"
  /\ Syncs
  /\ Loads(p)
  /\ UNCHANGED <<marks, at, own, goal, mu, history>>

\* An operation of the load fails, or the mutation itself does.
LoadFails(p) ==
  /\ pc[p] \in {"recover", "recovered", "loaded"}
  /\ Leaves(p)
  /\ UNCHANGED <<disk, marks, history, promised>>

-----------------------------------------------------------------------------
(* persistResourceMailboxStore, of a mutation                              *)

Mutate ==
  /\ pc.mutate = "loaded"
  /\ \E b \in Mutations(live.docs) :
       /\ goal' = b
       /\ Goes("mutate", IF NeedsHotWork(b) THEN "mark" ELSE "publish")
  /\ UNCHANGED <<disk, marks, at, own, active, mu, history, promised>>

\* The marker of an active bundle is durable before its documents change.
MarkHot ==
  /\ pc.mutate = "mark" /\ mu = "free"
  /\ mu' = "mutate"
  /\ MarksDurably([index EXCEPT !.marker = TRUE])
  /\ Goes("mutate", "publish")
  /\ UNCHANGED <<disk, at, own, goal, active, history, promised>>

\* The marker may be there all the same.
MarkFails ==
  /\ pc.mutate = "mark" /\ mu = "free"
  /\ Marks([index EXCEPT !.marker = TRUE]) \/ UNCHANGED marks
  /\ Leaves("mutate")
  /\ UNCHANGED <<disk, history, promised>>

\* commit.json is renamed into place.
Publish ==
  /\ pc.mutate = "publish"
  /\ Does(Published(live, goal))
  /\ own' = [own EXCEPT !.rebuild = FALSE]
  /\ promised' = promised \union {goal}
  /\ disturbed' = (disturbed \/ pc.rebuild = "recover")
  /\ Goes("mutate", "commit")
  /\ UNCHANGED <<marks, at, goal, active, mu, torn>>

StageFails ==
  /\ pc.mutate = "publish"
  /\ Leaves("mutate")
  /\ UNCHANGED <<disk, marks, history, promised>>

CommitSync ==
  /\ pc.mutate = "commit"
  /\ Syncs
  /\ pc' = [pc EXCEPT !.mutate = "rename"] /\ at' = [at EXCEPT !.mutate = 1]
  /\ UNCHANGED <<marks, own, goal, active, mu, history, promised>>

Rename ==
  /\ pc.mutate = "rename" /\ at.mutate <= Len(Files)
  /\ Files[at.mutate] \in live.left
  /\ Does(Renamed(live, Files[at.mutate]))
  /\ Moves("mutate", "rename")
  /\ UNCHANGED <<marks, own, goal, active, mu, history, promised>>

\* A temporary is gone, or the operation fails: the deferred function of
\* writeResourceMailboxStoreDocuments removes the temporaries one by one.
RenameFails ==
  /\ \/ RenameErrors /\ pc.mutate \in {"commit", "rename"}
     \/ /\ pc.mutate = "rename" /\ at.mutate <= Len(Files)
        /\ Files[at.mutate] \notin live.left
  /\ pc' = [pc EXCEPT !.mutate = "undo"] /\ at' = [at EXCEPT !.mutate = 1]
  /\ UNCHANGED <<disk, marks, own, goal, active, mu, history, promised>>

Undo ==
  /\ pc.mutate = "undo"
  /\ IF at.mutate <= Len(Files)
     THEN /\ LET f == Files[at.mutate]
             IN IF f \in live.left
                THEN Does(Discarded(live, f)) /\ disturbed' = TRUE
                ELSE UNCHANGED <<disk, disturbed>>
          /\ Moves("mutate", "undo")
          /\ UNCHANGED <<own, goal, active, mu>>
     ELSE Leaves("mutate") /\ UNCHANGED <<disk, disturbed>>
  /\ UNCHANGED <<marks, torn, promised>>

Unlink ==
  /\ pc.mutate = "rename" /\ at.mutate > Len(Files)
  /\ Does(Unlinked(live))
  /\ Goes("mutate", "settle")
  /\ UNCHANGED <<marks, at, own, goal, active, mu, history, promised>>

\* The last fsync; only now may the caller hear that the mutation is done.
Settle ==
  /\ pc.mutate = "settle"
  /\ Syncs
  /\ IF NeedsHotWork(goal)
     THEN Leaves("mutate") /\ promised' = {goal}
     ELSE Goes("mutate", "unmark") /\ UNCHANGED <<at, own, goal, active, mu, promised>>
  /\ UNCHANGED <<marks, history>>

\* Removing commit.json or the last fsync fails: the caller hears of an
\* error although the mutation happened.
SettleFails ==
  /\ pc.mutate = "settle" \/ (pc.mutate = "rename" /\ at.mutate > Len(Files))
  /\ Leaves("mutate")
  /\ UNCHANGED <<disk, marks, history, promised>>

\* The marker of a cold bundle is removed after its documents changed, best
\* effort and without an fsync.
Unmark ==
  /\ pc.mutate = "unmark" /\ mu = "free"
  /\ Marks([index EXCEPT !.marker = FALSE]) \/ UNCHANGED marks
  /\ Leaves("mutate")
  /\ promised' = {goal}
  /\ UNCHANGED <<disk, history>>

-----------------------------------------------------------------------------
(* rebuildResourceMailboxHotIndex, by the startup recovery, which runs in  *)
(* the background and gets here at any time, and by the poller when        *)
(* ready.json is missing.  It takes the index mutex and no resource lock.  *)

Committing == pc.mutate \in {"commit", "rename", "undo"}

BeginRebuild ==
  /\ pc.rebuild = "idle" /\ mu = "free" /\ Followed
  /\ mu' = "rebuild"
  /\ StartLoad("rebuild")
  /\ disturbed' = (disturbed \/ (live.commit /\ Committing))
  /\ UNCHANGED <<disk, marks, goal, torn>>

\* Markers go first: their names are hexadecimal and ReadDir sorts.
RemoveMarker ==
  /\ pc.rebuild = "loaded"
  /\ Marks([index EXCEPT !.marker = FALSE])
  /\ Goes("rebuild", "unready")
  /\ UNCHANGED <<disk, at, own, goal, active, mu, history, promised>>

RemoveReady ==
  /\ pc.rebuild = "unready"
  /\ Marks([index EXCEPT !.ready = FALSE])
  /\ Goes("rebuild", "write")
  /\ UNCHANGED <<disk, at, own, goal, active, mu, history, promised>>

WriteMarker ==
  /\ pc.rebuild = "write"
  /\ IF active THEN MarksDurably([index EXCEPT !.marker = TRUE])
     ELSE UNCHANGED marks
  /\ Goes("rebuild", "ready")
  /\ UNCHANGED <<disk, at, own, goal, active, mu, history, promised>>

WriteReady ==
  /\ pc.rebuild = "ready"
  /\ MarksDurably([index EXCEPT !.ready = TRUE])
  /\ Leaves("rebuild")
  /\ torn' = FALSE
  /\ UNCHANGED <<disk, disturbed, promised>>

RebuildFails ==
  /\ pc.rebuild \in {"unready", "write", "ready"}
  /\ Leaves("rebuild")
  /\ torn' = TRUE
  /\ UNCHANGED <<disk, marks, disturbed, promised>>

Rebuilding == pc.rebuild \in {"unready", "write", "ready"}

\* Temporaries no commit.json names are never looked at again.
Crash ==
  /\ \E d \in crashable, x \in indexCrashable :
       /\ live' = IF d.commit THEN d
                  ELSE [d EXCEPT !.temps = d.docs, !.left = {}]
       /\ crashable' = {live'}
       /\ index' = x /\ indexCrashable' = {x}
  /\ pc' = [p \in Procs |-> "idle"] /\ at' = [p \in Procs |-> 1]
  /\ own' = [p \in Procs |-> FALSE]
  /\ goal' = EmptyBundle /\ active' = FALSE
  /\ mu' = "free"
  /\ torn' = (torn \/ Rebuilding)
  /\ UNCHANGED <<disturbed, promised>>

Next ==
  \/ BeginMutation \/ Mutate \/ MarkHot \/ MarkFails
  \/ Publish \/ StageFails \/ CommitSync \/ Rename \/ RenameFails \/ Undo
  \/ Unlink \/ Settle \/ SettleFails \/ Unmark
  \/ BeginRebuild \/ RemoveMarker \/ RemoveReady
  \/ WriteMarker \/ WriteReady \/ RebuildFails \/ Crash
  \/ \E p \in Procs :
       RecoverFile(p) \/ RecoverUnlink(p) \/ RecoverSync(p) \/ LoadFails(p)

Spec == Init /\ [][Next]_vars

-----------------------------------------------------------------------------
(* Whatever moment the process or the machine dies at, the next load finds *)
(* the documents of exactly one version: the last acknowledged one, or,    *)
(* while a mutation runs or after it reported an error, possibly its       *)
(* result.  An acknowledged mutation is never undone and none is applied   *)
(* to some of the documents only.                                          *)
Atomic == \A d \in crashable : Effective(d) \in promised

(* Atomic holds as long as no rebuild of the index recovers the bundle     *)
(* while a mutation commits it, and no operation behind commit.json's      *)
(* rename fails.                                                           *)
Durable == ~disturbed => Atomic

(* Whatever moment the process or the machine dies at, a bundle with work  *)
(* for the poller has its marker, or the index says that it must be        *)
(* rebuilt; but for an index that a rebuild is rewriting or left behind,   *)
(* and for the bundles Durable excepts.                                    *)
MarkerCovers ==
  ~Rebuilding /\ ~torn /\ ~disturbed =>
    \A d \in crashable, x \in indexCrashable :
      NeedsHotWork(Effective(d)) => x.marker \/ ~x.ready

=============================================================================
