# A TLA+ verification of PUA

PUA is a filesystem-first workspace manager for people and AI agents, written in Go. `pua serve`
keeps one durable mailbox and one *generation* (an agent Session with the policy it was made under)
per resource, and drives Sessions in a second daemon, AgentHub, over HTTP. AgentHub keeps an event
log per Session and owns the provider process (the coding agent) behind it. A desktop application may
start, stop and update both. Each of them, the machine, the provider and the network between them may
stop at any time; what the system promises it must therefore have on disk before it acts.

These modules model that. TLC checks them on small instances; TLAPS proves some of it for every
instance. Section 1 is the inventory of the system, 2 the plan and what it has left, 3 the modules and
how they correspond to the code, 4 the runs, 5 fairness, 6 the proofs, 7 where the code and its
documents disagree, 8 what is not modelled.

To repeat a check: `tlc -config ServeState.cfg MCServeState` (the pairs are the `runs` of
`PROJECT.json`), `tlapm GenerationStoreProofs.tla`.

## 1. Inventory

### How the parts interact

```
 browser / CLI / Scheduler / Chat / Telegram
        | accept a message (HTTP 202 once it is on disk)
        v
 mailbox store --- hot index ---> reconcile loop, poller
        |                               | jobs, one at a time per resource
        v                               v
 resource mailbox pass  <-------  resource controller
        |  plan (pure)  |  effects over HTTP
        v               v
 generation store    AgentHub Session manager --- pipes ---> provider process
 current.json        event log, snapshot, projection, stream
 manifests           retry timer, Stop, Interrupt, restart

 desktop application ---> starts, stops, updates pua serve and AgentHub
```

A message is written to the mailbox of its resource. A job of that resource's controller reads the
mailbox, the generation record and the AgentHub Session, asks a pure planner what to do, performs one
effect over HTTP and writes down what came of it. Callbacks of AgentHub's event stream and a poller
start further jobs. Other writers of messages are the Scheduler, the continuation of Tasks, the
watchdog, notices of messages that failed, the Chat and, through the Chat, Telegram. Two daemons share
no memory: either may be restarted alone, and a reply may be lost although the request was served.

### Components

| Component | State it keeps | Operations | What is hard | What makes it correct |
|---|---|---|---|---|
| Generation store (`internal/generation/store.go`, `internal/serve/generation_store.go`) | `current.json`, immutable manifests, a lock per resource, the runtime's copy in memory | NextGeneration, SaveCurrent, SaveRetired, RetireCurrent, List | a crash or an fsync error between two files; runtimes that outlive their generation; readers without a lock | nothing saved is lost, history is immutable and fresh, numbers grow, List misses nothing |
| Generation planner (`generation_lifecycle.go`) | none: facts to intent | PlanGeneration, receipt recovery, guards | hundreds of combinations of phase, receipt, replacement, demand | delivers only to a live Session, tears down in order, never stops a Turn, wakes on demand |
| Resource mailbox (`resource_mailbox.go`, `resource_runtime.go`, `resource_idle.go`, `agenthub_poller.go`, `agenthub_runtime.go`) | message states, the generation record with its receipts, queued jobs | accept, promote, cancel, the reconcile pass, retirement, idle sleep, Resume, recovery | lost and late replies, Sessions that move between two calls, generations replaced under a message, restarts | at most one input per message, true final verdicts, order, no orphaned Session, every message settled |
| Mailbox store (`resource_mailbox_store.go`) | four documents and `commit.json` per resource, the hot index | load (with recovery), mutate, retention, index rebuild | a crash between renames, index against documents, the rebuild against mutations | one whole version is loaded; a bundle with work is never hidden |
| AgentHub Session manager (`agenthub/internal/runtime/manager.go`, parts of `session/` and `provider/`) | durable event log, process record, in-memory runs, input lock, retry timers | SendMessage, Start, Stop, Interrupt, Archive, provider callbacks, recover | calls that overlap, a process that cannot be killed, a restart between any two appends | stopped means dead, one provider, Stop holds, a start budget, inputs settled, no Turn reopened |
| Resource controller (`resource_controller.go`) | a FIFO of jobs per resource | enqueue, do, run | a caller that leaves while its job runs | one job at a time, in order |
| Reconcile loop (`reconcile_loop.go`) | requests, timers, deadlines | requestReconcile, the passes | a request that arrives during the pass it asks for, a full channel | no request is lost |
| Terminal notices (`resource_notifications.go`) | outbox operations and receipts of the source, a message of the target | routeNotification | four writes on two resources, each may fail; target archived, gone or expired | one notice per message; a receipt never claims more than the target's mailbox says, and does not take it back |
| Scheduler (`serve/scheduler.go`, `app/scheduler.go`) | schedules, last tick checkpoint | reconcileScheduler, tick terminal | a tick forgotten by retention, a restart, edits during a pass | at most one pending tick; every change of the list reaches the Scheduler |
| Task state (`task_state_runtime.go`) | completion markers, continuation count | handleTaskTurnCompletionLocked | repetition after a crash, newer work | a budget of continuations per chain, no Task left in progress with nothing to drive it |
| Stall watchdog (`resource_stall_watchdog.go`) | watchdog state in the record | start, advance | a Stop that is never repeated | one Stop per Turn, behind its recovery message |
| Archive (`archive_runtime.go`, `app/archive.go`) | the directory of the resource | ArchiveResource, prune, cold audit | mail and Sessions of a resource that is gone, archives by the CLI | mail is settled, the Session archived |
| Chat (`chat*.go`) | the shared record, older records per user, deliveries | handleChat, reconcileWorkspaceChats | delivery by id over two stores, merge of what earlier versions left half done | each user input is executed at most once; the history grows only |
| Telegram (`telegram_*.go`) | offset, inbox, routes with cursor and pending part | run, process, flush | an outcome unknown after a crash, settings changed under the worker | no update lost, no reply skipped, no part sent twice |
| Attention, users (`resource_attention.go`, `users.go`) | Turn numbers, read cursors, profiles | mark read, prune, register, migrate | three files under two locks | unread counts right, cursors survive |
| Locks (`workspace_lock.go`, `config_lock.go`, `app/workspace_lock.go`) | OS advisory locks, the list of Workspaces | acquire, release, add, remove | two servers, requests that rewrite one file | one owner; locks and list agree |
| Application layer (`internal/app`) | files of the Workspace | create, archive, initialise, templates, repositories | staging and rename, ids without an index | a crash leaves a whole resource or none; ids are unique |
| Generation policy (`generation_policy.go`, `resource_agent.go`) | settings, bindings, the usage in the record | policy and binding changes, replacement | settings read twice in one job, Turns of other clients | the budget holds; a Turn runs under the agent the settings named |
| AgentHub Session files (`session/store.go`, `session/turns.go`) | `events.jsonl`, `session.json`, `turns.jsonl`, subscribers | append, merge, snapshot, Subscribe, Open | torn writes, a snapshot behind its log, events published out of order | the log is what is told; a client misses nothing |
| Provider protocols (`provider/*.go`) | waiting calls, approvals, the process | Prompt, Steer, Interrupt, Approve, Close | pipes that block, answers and notifications out of order | every call ends; every Turn has one outcome |
| Desktop supervisor (`internal/desktop`) | manifests, pid and state files | Ensure, Stop, InstallUpdates | programs that die, answer late or belong to others; an update cut short | the pair fits; no program runs that nobody knows of |
| HTTP APIs, CLI, web UIs, doctor, localisation | mostly none | - | - | - |

`PROJECT.json` lists each with its files, and the 40 places where the code is hard to test. Eight more
places are known that no property covers and the list leaves out: a runtime published after its
retirement (`generation_store.go:109`), a provider spawned and not yet recorded when the daemon dies
(`provider.go:317`), an input failed on its budget beside another of its Turn (`manager.go:302`), a
message that converges a stopped Session under a concurrent Start (`manager.go:219`), an Interrupt that
meets the next Turn (`manager.go:456`, `resource_mailbox.go:1376`), a Stop between the decision how a run
ended and its convergence (`manager.go:805`), End Turn and messages promoted to
steer (`resource_mailbox.go:402`), and a replayed delivery looked up behind a late cursor
(`resource_mailbox.go:789`). Section 7 says what comes of them.

## 2. Plan

The order is that of importance: first what must not be lost, then what moves it.

1. `GenerationStore`, `GenerationStoreProofs` - done
2. `GenerationPlanner`, `GenerationPlannerProofs` - done
3. `ResourceMailbox` (composes the planner with the pass, the jobs and an AgentHub of Sessions) and
   the abstract `MailboxPromise` it implements - done
4. `AgentHubSession` - done
5. `MailboxStore` - done
6. `ReconcileLoop` with the resource controller, composed with `SchedulerTicks` - done
7. `TaskWork`, `TerminalNotices` - done
8. `SharedChat`, and `TelegramBridge` composed with it - done
9. `SessionLog` and `ProviderTransport`, the two halves of AgentHub that `AgentHubSession` takes for
   granted - done
10. `WorkspaceTree`, `ArchivedWork` (composed with it), `ReadState`, `WorkspaceSet`,
    `GenerationRotation`, `DesktopServices` - done

11. `MailboxStoreProofs`, `AgentHubSessionProofs`, `SchedulerLoopProofs`, `ServeStateProofs`,
    `ResourceMailboxProofs` - done

What is left: proofs about `TaskWork`, `TelegramBridge` and `ArchivedWork`; the sweep of the legacy generation layout; a bundle that changes atomically as an abstract specification of `MailboxStore`, and a Session
as AgentHub promises it to PUA, implemented by `AgentHubSession` and assumed by `ResourceMailbox`;
several topics and accounts in `TelegramBridge`.

## 3. Modules

### GenerationStore

One resource's files. `current` is `current.json`, `manifests[g]` the retired manifest of `g`,
`rt`/`retired` the `agentRuntime` of each generation in memory, `retire` a `retireStoredGeneration`
call in progress, `allocated` the number between NextGeneration and SaveCurrent, `scan` a lock-free
`List`. A record is id, number, version of its payload and retire reason. A step is one rename or
removal; each may be followed by an fsync error, in which case the file changed and the caller hears
that it did not. `Crash` empties the memory between any two steps. `acked` remembers what a caller
was told.

### GenerationPlanner

`generation_lifecycle.go` as pure operators over facts (phase, receipt, replacement, demand, Turn),
with no variable. `ResourceMailbox` EXTENDS it and plans with the same operators; its theorems are
about every combination of facts.

### ResourceMailbox and MailboxPromise

`mail` is the mailbox (status, modes, sequence, generation, Turn of each message), `rec` the current
generation record with its receipt, `hub` one AgentHub Session per generation, `w` the controller job
with the effect it waits for, `retireQ` a queued retirement, `late` the requests PUA gave up on that
AgentHub may still serve. A job is atomic between its HTTP calls because the controller runs one job
of a resource at a time. `Pass...` actions are the branches of `reconcileResourceMailboxLocked` in
the order of the code; `...Ok`, `...Fails` and `...Lost` are what may come of an effect; `Crash` and
`Recover` are a restart of `pua serve`; `TurnEnds`, `ProviderExit`, `HubStopped`, `ReplyTurn` and
`LateArrives` are AgentHub's own steps. `MailboxPromise` says what a sender may rely on: a message
becomes at most one Session input, a verdict is final, and *dropped* means it never will be an input.

### AgentHubSession

One Session. `sess`, `msgs`, `log` are what the store projects from the durable events; `run` is
`m.running[id]` with its process; `job` the call that holds the input lock; `stop`, `cut`, `resume`
the Stop, Interrupt and Start calls in progress; `retrying` the retry timer; `strays` the processes
that outlived their run. `Finalize` (with the event that ends the run) and `ConvergeActive` are the two
halves of `convergeActive`, under two locks; in between a Stop may come. An action is what a call does
between two points at which another can come in (locks released, an append made, the provider asked). `Restart` is the daemon's death followed by
`recover`; providers survive it. `Adapter` selects what differs between the protocols: whether
a second Close tries to kill again, and whether the end of a process waits for its Turn.

### MailboxStore

One bundle. `live` is its directory: the four documents, the temporaries that `commit.json` names,
and whether `commit.json` is there; `crashable` the directories a crash may leave, that is every
state since the last fsync. `index` and `indexCrashable` are the same for the resource's marker and
`ready.json`. `pc.mutate` is the mutation under the resource lock, `pc.rebuild` the rebuild of the
index, which holds only `resourceMailboxHotIndexMu`. `promised` is the set of versions the next load
may return. Two history variables except what the code does not protect: `torn`, a rebuild that
stopped between removing the markers and writing `ready.json`, and `disturbed`, a commit that lost its
temporaries to an error path or to an overlapping rebuild (section 7). A disturbed bundle is not
followed further (`Followed`), which bounds the model and weakens nothing that is claimed.

`ResourceMailbox` uses a mutation of the mailbox as one step. `Durable` is the reason it may.

### ReconcileLoop and SchedulerTicks

`schedules` is `scheduler.json` (an id and its last edit; an edit stamps a schedule anew, so the set
stands for the digest), `ticks` the ticks in the Scheduler's mailbox, `checkpoint` what the store kept
of the last one, `seen` the list the process saw last, `turns` what became of their Turns in AgentHub,
`pass` the pass in progress. A pass reads the
last tick and the list, and accepts at most one tick; retention, expiry, a crash between mailbox and
checkpoint and edits come in between. `ReconcileLoop` adds what makes passes happen: `pending` are the
bits of `reconcilePending`, a request sets its bit and then announces it with a token that is dropped
when the channel is full; the loop takes all bits, runs the passes in order and waits for each; the
controller of the Scheduler is a FIFO with callers that wait and callers that do not.

### TaskWork

One Task: `task` is its state and whether a schedule names it, `mail` its mailbox, `gen` the record
fields of continuation and watchdog (chain, count, marker, handled marker, watch), `session` AgentHub's
Session with the ids it took. A job of the controller is cut into the files it writes and the requests
it sends; `Dies` and `JobFails` may come between any two. `Observe`/`Scheduled` follow a Turn that
ended, `Check...` decide about a continuation, `BeginDelivery` to `SendUnanswered` are a delivery with
its `prepareTaskWorkChain`, `Watchdog...` and `Guards` to `StopUnanswered` the recovery.

### TerminalNotices

One failed message: its `receipt`, the outbox operation `op`, the `notice` in the mailbox of the
sender's resource and `target`, that resource and its Workspace. A pass looks at hot messages and then
at open operations (`NoticeBegins`), brings the operation up to date (`Queues`), and then writes
mailbox, receipt, operation and receipt one after another; `Breaks` ends it anywhere.

### SharedChat and TelegramBridge

`chat` is the shared record of a resource, `legacy` the records per user of earlier versions, `mailbox`
the resource's mailbox. An operation is one step because it loads, changes and replaces the file under
one mutex; the mailbox is another file, so a reconciler pass may reach one and not the other. `Merge`
is the first use after an upgrade. `TelegramBridge` EXTENDS it with the worker: `disk` is the file of
the connection (offset, inbox, pairing, route with cursor and pending part), `mem` the worker's copy,
`pc`/`local` where it is, `server` Telegram (updates not confirmed, topics), `sent`, `retried`,
`decided` the history. `Settings` are the requests of the settings page, `Halts` the end of the
process. `MCTelegramBridge` looks at one of four parts at a time (`focus`, chosen by `Scope`): the merge, an
input, a delivery, the binding of the topic. Each lets happen what belongs to it: an input starts from an empty
Chat, which is archived at most once; a delivery from the records of an earlier version, which the reconciler
leaves alone meanwhile.

### WorkspaceTree and ArchivedWork

`tree` are the directories of Projects and Tasks with what their metadata says, `creating` the holder of
`application.lock`; the next id is read
from them (`NextTask`), a creation stages and renames, an archive is one rename. Metadata that an agent
broke hides a directory from every lookup. `ArchivedWork` EXTENDS it with the mail and the Session of
each resource: `handler` is the archive request, `audit` the cold audit, `control` who has the controller
of a resource, for the requests, passes and audits exclude one another only per resource.

### ReadState

`profiles`, `ui` (a file of cursors per user), `legacy` (the file of the single user of earlier
versions), `given` (the highest Turn number), `records` (the numbers in the generation records),
`numbering` and `requests` (critical sections under way), `ended` (Turns AgentHub has ended). A step is
one critical section; requests interleave between their check and their write. `numbering[r].first` says that
no record showed a Turn when the running one got its number: a user who registers then takes that number
for one that has ended, which is the exception `ReadNeverAhead` makes (it ends with the Turn).

### GenerationRotation

The reasons to replace a generation. `settings` are the policy, the routes of profiles, the default and
the binding, `generation` the record, `hub` its Session, `work` the job of the controller, `rebinds`
binding requests that wait; a job reads the policy, asks AgentHub for the usage, reads again, decides, and starts the
Turn, while settings and the Session change under it. Stopping and archiving is one step here and all
of `ResourceMailbox` there.

### SessionLog

One Session directory. `log` is the lines of `events.jsonl`, `tail` whether the file ends inside a line, `snap`
is `session.json`, `turns` `turns.jsonl`, `mem` the `sessionState` (the projection, and the events once they
were parsed), `writer` the goroutines between the write of a line, its sync, the snapshot, the projection and
the publication, `stream` a subscription and its connection, `shown` what the client has. `Crash` and
`WriteFails` leave any of `Remains`; of a failed rewrite the writer goes on with an append, as
`mergeDeltaLocked` does. `OpenStore` is the next start with the trust in the snapshot and the repair. File and
memory may differ after a failed write, and `stray` remembers that they do. A sync that failed and whose pages
are lost with the machine is not followed.

### ProviderTransport

One run of one provider, `proto` the protocol. `inbox` and `out` are its pipes, `rpc` the transport
(waiting calls, pending approvals), `calls` the goroutines of calls, `run` and `store` what the manager
keeps, `start`, `stop`, `cut` and `users` the callers. The reader takes the output in order; a write
blocks on a full pipe. After the exit the run is finished when the output was read to its end, or, if the reader
is slower than two seconds, when Wait has closed the pipe on the rest (`WaitGivesUp`). `told` is the history of
the ends the provider gave a Turn, `missed` of those that were lost so.

### WorkspaceSet

`file` is which `serve.json` each server uses, `conf` the Workspaces it lists, `disk` what a Workspace
directory holds, `mutating` its application lock, `server` how far each server is and its flocks, `call`
the requests in progress. Every request reads
the list, works and writes all of it back.

### DesktopServices

`procs` are processes, `lock` and `state` the pid files of the services and of the application,
`manifest` the selected versions, `feed` what is published, `app` the operation of the manager with its
program counter, plan and what it saw. Between two steps programs start, answer, fall silent and die,
others start services of their own, and the application may be killed.

### MCServeState and MCProcesses

Five parts each that share no state, put beside one another with a variable `focus`: a behaviour is
about one part and leaves the others in one initial state. This adds the state spaces instead of
multiplying them, and one TLC run answers for files of `pua serve`, one for the processes around it.
`Scope` names the parts of a run, to look at one by itself. Of the users in `MCServeState` one saves views
and is deleted (`Busy`), the others read and register, so the users are not symmetric and only the inputs
of the Task are.

## 4. Runs

| Run | Instance | Distinct states | Properties |
|---|---|---|---|
| `serve_state` | generations: 2 of them, 2 versions; work: 2 inputs, 3 Turns, budget 1, 1 fault; notices: 2 breaks; read: 2 users, 2 Turns, 2 records, 2 requests at once; tree: 2 Projects, 2 Tasks, 4 directories, 2 faults | 2,423,000 | NoGenerationLost, ManifestIsFresh, CurrentIsNewest, ScanMissesNothing, RetiredNeverRevived; WorkKept; NoticesTold; ReadNeverAhead, ReadStateKept; UniqueIds |
| `session_safety` | 2 messages, one of them a steer, Start, Stop and Archive, 2 starts, 2 faults, adapter `pi` | 2,682,000 | StoppedMeansDead, ProvidersKnown, StopHolds, BudgetHolds |
| `session_settles` | 2 messages, Start and Interrupt, 1 fault | 55,000 | InputsSettle |
| `mailbox_promise` | 2 messages of all modes, 2 faults, 2 Turns, idle sleep, failing creations, Turns of AgentHub's own | 815,000 | HonestStatus, SleepIsReversible, InOrder, PromiseKept, ReplacementHoldsMail, StopSparesTurn |
| `mailbox_settles` | 2 messages, 1 fault, no idle sleep | 63,000 | Settles |
| `mailbox_store` | 1 message, 1 receipt kept, failing operations | 1,120,000 | Durable, MarkerCovers |
| `chat_telegram` | 2 users, 1 input, 1 reply, 3 messages, 2 updates, 1 halt, 1 retry, three kinds of earlier records | 1,015,000 | NothingSkipped, NoUpdateLost, AtMostOnce, SentWhileOpen, HistoryKept |
| `scheduler_loop` | 1 schedule, 2 edits, 2 ticks, 1 fault, 1 request between bit and token | 1,397,000 | NoLostWake, OneTick, ChangesAreSeen |
| `archive_settles` | 1 Project, 1 Task, 1 message each, 2 faults | 91,000 | OwnArchiveIsClean, ArchivedSettles |
| `processes` | desktop: 3 pids, 2 versions, 2 updates, 1 foreign service; log: 2 writers, 4 events, 1 crash, 1 fault, 2 connections; wire: 3 protocols, 2 Turns, 1 steer, 1 approval, 1 cut; set: 2 servers, 2 files, 2 Workspaces, 2 requests; rotation: 2 agents, 2 profiles, 2 generations | 4,075,000 | ServicesKept, LogServed, StreamComplete, WorkAnswered, WorkspacesKept, TurnsFollowSettings |
| `session_steer_reopens` (violation) | 2 messages, no fault | | NoReopen |
| `mailbox_orphan` (violation) | failing creations, 1 fault | | NoOrphanSession |

Some properties are conjunctions of named parts, which are defined and explained in their modules:

- `WorkKept`: continuations stay within the budget (`Budget`), a Task in progress always has something
  that drives it (`NotStranded`), a Turn is stopped once and not before its recovery message is
  accepted (`StopsOnce`).
- `NoticesTold`: every step leaves `ReceiptIsTrue`, and a receipt that says delivered goes on saying so.
- `ReadStateKept`: a Turn that ends is unread (`NewTurnIsUnread`), cursors do not fall
  (`CursorsKept`), and the file of earlier versions is taken over once (`LegacyKept`).
- `ProvidersKnown`: `Recoverable` and `OneProvider`. `InputsSettle`: `HeadSettles` and `Settles`.
- `AtMostOnce`: a part of a reply is sent once (`SentOnce`), an input executed once (`InputOnce`),
  unless a person decided to repeat.
- `ServicesKept`: the pair of versions fits unless a rollback left it (`CompatibleUnlessRolledBack`), no
  process runs that no file names once the application is idle (`NothingForgotten`), services of others
  are left alone (`ForeignIsLeftAlone`).
- `LogServed`: the Session in memory is what the log says (`MemoryIsLog`), the next start can read it
  (`OpensAgain`), `ArchivedIsLast`, `EndedTurnsAreServed`; `StreamComplete`: `NoGap`, `TailIsComplete`.
- `WorkAnswered`: a Turn keeps the outcome the provider gave it (`OutcomeKept`), no call waits for an
  answer that cannot come (`NoCallStranded`), an approval that is open can be answered (`Answerable`).
- `WorkspacesKept`: a Workspace is initialised as a whole or marked as under way (`WholeOrMarked`), a
  server's locks are those of its list (`LocksMatch`), an instance keeps its id (`InstanceKept`).
- `TurnsFollowSettings`: `BudgetKept`, `RightAgent`, `NoIdleRotation`.

Why these bounds are enough to be interesting:

- Two generations are one replacement; with two versions an update falls before, during or after a
  retirement. TLAPS proves the same properties for any number.
- Two messages can be ordered, steered, promoted and settled against each other. `MaxFaults` counts
  lost or late replies, crashes, provider exits, replacements and external archives together: two of
  them cover a fault during the recovery from another.
- Every generation after the first costs a fault, so generations are bounded by `MaxFaults + 1`;
  `MaxTurns` bounds the Turns of a Session.
- `MaxStartups` is 2 for the code's 3, `MaxStartFailures` 2 (1 in `mailbox_settles`) for the code's 3,
  `MaxAttempts` 1 for 3: the count at which the code acts is reached either way.
- The overlapping Start is left out of `session_safety` because divergence 28 breaks `StoppedMeansDead`
  with it; Interrupt is in `session_settles`, and TLAPS proves the four properties for every set of calls
  they hold for.
- In `mailbox_store` one message goes through accept, checkpoint, notice, settlement and retention, so
  all four documents change apart from each other; a second message adds no order of file operations.
  There is no bound on crashes, failures and rebuilds.
- `QueueSize` and `PipeSize` are 1: full is reached by the second element, whatever the size.
- In `chat_telegram` a reply has two parts, so an interruption falls between them, and a thread is bound,
  lost and bound anew.
- Four event ids hold the creation, a Turn with a text of two fragments, and one event more: its end, or the
  fragment that a failed rewrite appends instead; two writers publish out of order. The writers are
  symmetric (`MCSymmetry`). One crash and one failing write in every order reach a log with an id that
  comes twice, one with an unreadable line, and a snapshot that is trusted in front of either.
- `RenameErrors = FALSE` in `mailbox_store` leaves out renames that fail: what follows from one is
  divergence 23, after which the bundle is not followed. The proofs do not need the restriction.

`CHECK_DEADLOCK FALSE`: each of these systems may rest, with nothing to deliver, an archived Session
or resource, or a bound used up.

Every property has a mutant in `PROJECT.json`: a plausible slip in one definition (a dropped guard, a
missing reset, a swapped order), written beside the definition and marked `Mutant`, that makes TLC
find the property violated.

## 5. Fairness

`ResourceMailbox`: a job goes on once it started (weak fairness of `Pass \/ Effects`, HTTP calls have
deadlines). Passes, retirements, polls and the Resume backoff are strongly fair, each by itself: the
reconcile loop is periodic, the controller serves its queue in order, and a timer fires again, so none
can be kept from running although other jobs of the resource disable it for a while. A Turn ends and
a Stop converges: an agent that works for ever is not the mailbox's fault. No fairness of faults,
users, idle deadlines or late arrivals.

`AgentHubSession`: calls go on, delays pass, Turns end. `StartDelivers` and `RetryFires` are strongly
fair because both wait for the input lock and a Go mutex hands itself to a waiter that starves.
`HeadSettles` needs no more. `Settles` also assumes that each sender repeats its message until it is
settled, which is what `pua serve`'s mailbox pass does.

`ReconcileLoop`: the loop and the controller go on by themselves (goroutines, weak fairness each); of the
timers only that of the audit fires again, every 30 seconds. A request between its bit and its token need
not go on: the audit comes round without it. `ChangesAreSeen`
ends where the bound on ticks does.

`ArchivedWork`: weak fairness of the creation that was begun, the archive handler, the audit and the
jobs it started, and the end of Turns; strong fairness of a pass and of what the audit reclaims, since
both are jobs in FIFO controllers and the audit comes round every 30 seconds.

`TelegramBridge` states `BridgeFairness` (weak for the worker, strong for its look at the route and for
an answer of Telegram) only for `Forwards`, which is false (divergence 6).

All other modules have only safety properties.

## 6. Proofs

`GenerationStoreProofs` (774 obligations) proves type correctness, `ManifestImmutable` and the five properties of
the store in the run `serve_state`, for any
sets of generations and reasons, any bound on versions, any number of crashes and fsync errors. It
assumes that the constants' special values are outside the sets they mark (`NoReasonAssumption`,
`NoRecordAssumption`) and that the bound is a number. The properties are not inductive by themselves.
`IInv` adds to the types:

- `HeldOnDisk`: what memory or an acknowledgement speaks of is in `current.json` or in a manifest. A
  crash empties the memory, so nothing else can carry it.
- `FreshRecords`: nothing that can still become a manifest is older than the last acknowledged save.
- `RetireCallsOK`: the retirement between its two file operations has both files of its generation,
  which is what makes removing `current.json` harmless.
- `RetiredOK`: the in-memory flag is backed by a manifest, so a stale runtime writes nothing.
- `NumbersOK`: used numbers have a largest; the number being allocated is above all of them.
- `ScanOK`: a List in progress has seen, or will find in the directory, all that was there before.
  The order (current, its manifest, directory) matters: a retirement moves a record only towards
  what is read later.

Each action preserves `IInv` by a lemma of its own. `UsedNumbers` is never enumerated: `NextNumber` is
known only to be above its elements (`NextNumberFresh`).

`GenerationPlannerProofs` (126 obligations) proves six facts about the planner for every fact record:
it delivers or interrupts only at a live Session with its guards met, tears down in the order Stop,
Archive, retire, never stops a Turn, never resumes a generation that is being replaced, recovered or archived, wakes a
sleeping generation when there is demand and no Stop or Archive receipt is open, and plans nothing
for waiting mail while an idle Stop is unconfirmed (which is divergence 3). There is no
behaviour, so there is no invariant: the proofs split on phase, receipt and intent.

`MailboxStoreProofs` (743) proves the types, `Durable` and `MarkerCovers` for any messages, limits of
retention, crashes, failed operations (failed renames too) and rebuilds. Messages are finitely many
(`MsgsAssumption`) because a document is. `IInv` says nothing of a disturbed bundle but its types; else it adds:

- `StepsOK`: temporaries are there only with the `commit.json` that names them, and whoever renames them
  in the order of the documents has none left behind where it is.
- `CommitOK`, `VersionsOK`: from `commit.json` to its removal the directory will become the mutation's goal;
  two versions can be found only between `commit.json` and the fsync behind it, when the first document
  is still to be renamed. This is why a crash within the commit finds the old version or the new.
- `MarksOK`, `RebuildOK`: a mutation that makes work has a durable marker before it publishes, under the
  index mutex; what the rebuild has loaded without the resource lock stays true of a bundle with work,
  because the mutations it overlaps are those that need no marker.

`AgentHubSessionProofs` (3575) proves the types and the four properties of `session_safety`, for any
messages, faults, calls and start budget:

- `BudgetHolds` for every adapter and call. `Counted`: the durable count of an input that waits is at least
  the number of providers started for it, and falls only where a provider is up; `AttemptOK`: who is about
  to start one has counted it.
- `StoppedMeansDead` for the Pi adapter, with overlapping Starts too: `stopped` leaves no process of the run, alive
  or unkillable, but for a failed start that could not be closed (divergence 14). `PInv` says of each phase of a
  run that its process is dead or Close was called. Of ACP and Codex it is false (divergence 4), so `Adapter = "pi"` is a
  hypothesis of the theorem and no assumption on the constant.
- `ProvidersKnown` for the Pi adapter without overlapping Starts. `OInv`: while there is a run the Session is
  neither stopped nor archived, and its process is open in the log from the ProcessStart hook on, so a
  restart leaves no process behind that the log does not name. With an overlapping Start it is false
  (divergence 28).
- `StopHolds` for every adapter, without overlapping Starts, but for the Stop that convergeActive overtakes
  (divergence 15). `StopInv`: the run of a Session that nobody wants is the one Stop marked, and, unless it was
  overtaken, its end settles every input; the log tells the next daemon. It needs
  `TurnInv`, that the Turn of the run and of the delivering call is the Session's, for a convergence settles
  the inputs of that Turn.

`SchedulerLoopProofs` (902) proves `OneTick` of the ticks whatever the loop does around them (`TickInv`: a pass about
to accept a tick found none that waits, and ticks that are the same are one), and `NoLostWake` of the loop and
the controller, for any passes, timers, jobs of others and requests (`JobInv`: the controller holds at most one
job of the loop, and only while the loop waits for it, so no end of a job lets the loop skip requests;
`WakeInv`: a bit that is set has a token, a request about to give one, or a loop about to look).

`ServeStateProofs` (2040) proves three parts of `serve_state` for any bounds:

- `NoticesTold`, an action property. `NoticeInv` ties the mailbox of the target to what was told, and what a pass has read
  of a verdict to the verdict, so a receipt written by a pass that was overtaken is true when it is written.
- `UniqueIds`, and with it that a Task lies in a directory of its Project. `TreeInv` also speaks of creations that
  are staged and not yet renamed: their id is new but for Tasks that could not be read when it was chosen,
  which is the exception `UniqueIds` makes (divergence 47).
- `ReadNeverAhead`, with the exception of one running Turn, whose number was given while no record of its resource
  had any, and `ReadStateKept`. `TurnFine`: of a resource's Turns at most the last runs, with the number
  given last or none yet, and all others ended; `Allowed`: what a cursor may say; and requests that were
  checked and not yet written say what may still be read (`Passed`). A step of Turns keeps what may be read
  (`TurnsGrow`), a step of files keeps the Turns, and so requests and files may come in any order.

`ResourceMailboxProofs` (3837) proves the types, `HonestStatus`, `InOrder`, `ReplacementHoldsMail`, `StopSparesTurn`,
`SleepIsReversible` and the refinement `PromiseKept`, for any set of messages and priorities, any generations and limits of faults,
failures and Turns, and with or without idle sleep. Three facts carry the steps: the mail changes only
by an acceptance or by a step that `Moves` every message (`MailKinds`), AgentHub's Sessions only by the few steps of
`Enters` (`HubSteps`), and the record only stays the same generation's, `Begins` or `Ends` (`RecKinds`). On them
rests `IInv`, which adds to the types

- `MailInv`: what the fields of one message say together, for its status never says more than AgentHub does;
- `InputInv`: AgentHub holds an input only in the Session the message was handed to, so one Session answers for it;
- `JobInv`: what the job in progress read of record and mail still holds where it acts on it;
- `GenInv`: the record is of the last generation, and a bound one has a Session.

`InOrder` adds `OrderInv`, the order of sequence numbers among what was handed over and what waits.
`ReplacementHoldsMail` adds `HoldInv` (an interrupt is steered only if a user promoted it) and
`StopSparesTurn` adds `StopInv` (where a Stop is sent nothing runs, and nothing on its way to the Session can still start a
Turn). The refinement is step by step: `Moves` maps each message to a step of `MailboxPromise` or a
stutter, and no two messages change their fate in one step.

`SleepIsReversible` needs the most, `SleepInv`. That Archive is only sent where a replacement was asked for
comes down to who queues a retirement, and why:

- `QueueInv`: a retirement is queued only for a generation that is to be replaced, or that `Dozes`: it sleeps,
  and its Stop was asked for and not seen to succeed;
- `WaitInv`: so is a Stop only sent to such a generation, and of the waiting jobs only one whose generation is to be replaced
  is at the Archive;
- `StoppingInv`: a Session that is stopping was told to, so the planner's `WaitForStopped` never starts a
  retirement of its own;
- `DozeInv`: while such a Stop is open nothing runs, no message is handed over and none that waits was promised to
  a Turn. This is what closes the ways in which a doze could end halfway. The exception is the resource that was archived
  and has no mail left, where a late answer may still start a Turn.

The planner's part is `SleepPlan`, `DozePlan` and `ResumePlan`; the steps are `SleepKinds`, which says of each what it does to a
record that sleeps.

Each proof module EXTENDS the components it is about, so its theorems are of the specifications TLC runs; the
assumptions on constants are the named ASSUMEs of the components, which TLC evaluates.

Only model-checked: `Settles` of `ResourceMailbox`, `TaskWork`, `SharedChat`, `TelegramBridge`, `ArchivedWork` and the parts of
`processes`; liveness under fairness, which this prover cannot reach, for good. What the merge of old Chat records
computes (`HistoryKept`) goes through folds over data and needs an induction the provers cannot make.

## 7. Where code and documents disagree

Found by a run that is expected to fail:

1. `mailbox_orphan`. After a Session creation that failed or lost its reply the next pass asks AgentHub
   for the Session `""`, takes the 404 for a terminal Resume failure and retires the generation; the
   Session that may exist stays behind (`generation_lifecycle_runtime.go:241-243`).
2. `session_steer_reopens`. A steer is appended to the open Turn; the Turn ends before the steer is
   delivered and settles it as closed; the delivery works on its old copy and appends `turn.started`
   for the closed Turn (`manager.go:307`, against the comment at `session/turns.go:694-695`).

Shown by TLC when the invariants or properties of the configuration in brackets are replaced by the
one named; these properties stand in the modules with a comment that says they are false:

3. `Settles` (`MailboxSettles.cfg` with `IdleSleep = TRUE`). If the Stop for idle sleep is not confirmed
   in time, or the process dies before it is recorded, the record keeps an open receipt that no job
   closes: the poller starts no retirement and the mailbox pass does not Resume. Waiting mail stays for
   ever (`resource_runtime.go:697`, against `src/README.md:199`).
4. `StoppedMeansDead` (`SessionSafety.cfg` with `Adapter = "acp"`). A Stop that closes an ACP (or Codex)
   adapter before its process is spawned uses up the one real Close. The process is then spawned and
   recorded, its handshake fails, the second Close repeats the cached answer without killing anything,
   and `stopped` is published over a live process group (`provider.go:252`, against the comment at
   `provider.go:89-90`). The Pi adapter terminates on every Close; `session_safety` runs with `pi`.
5. `Atomic` (`MailboxStore.cfg`). `rebuildResourceMailboxHotIndex` loads, and so recovers, bundles without
   their resource locks. A cold commit, which does not hold the index mutex, can lose a temporary to
   it; the writer's rename fails and its deferred function removes the others. Documents of two
   versions remain (`resource_mailbox_store.go:805`).
6. `Forwards` (`TelegramBridge.cfg` with `ForwardSpec`). The worker remembers the time of the Chat file
   after it has read it; a reply written in between is taken for seen and waits for the next change of
   the Chat (`telegram_route.go:198`).
7. `IntervalAfterCompletion` (`SchedulerLoop.cfg`). Once the end of a tick's Turn is noted in the mailbox
   it is read as a completion, whatever it was: a process that dies between that note and the next tick
   forgets that the Turn failed, and the next tick gives the interval as its reason
   (`serve/scheduler.go:153`, `188`).
8. `ArchiveSparesTurns`, `UndeliverableNotSent` (`ArchivedWork.cfg`). The audit that finds an archived
   resource stops its Session although a Turn is open (`agenthub_poller.go:264-266`); the archive request
   of a Project marks the mail of its Tasks without their controllers, so a message may be reported
   undeliverable and reach AgentHub all the same (`src/README.md:201`, `resource_mailbox.go:1440`).
9. `ShownOnce` (`Processes.cfg`). A client that connects while events are published is sent fragments
   twice, or in the wrong order (against the comment at `session/store.go:861-863`).
10. `AlwaysOpens` (`Processes.cfg`). A crash inside the overwriting of the last line may leave a line that is
    neither; a crash between the directory of a Session and its first event leaves a Session without a
    record. Either ends the start of the daemon (`session/store.go:929`, against `agenthub/README.md:410`).
11. `TurnClosesApprovals`, `EndIsOwn`, `RepliesLeave`, and `AnsweredOnce` with two `Users`
    (`Processes.cfg`). Interrupt leaves the approvals of its Turn open; the end of a run that a late steer
    opened closes the next Turn (`manager.go:470-473`); the text of replies stays behind when their Turn
    closes first (`manager.go:538-543`); two clients may both answer one approval.
12. `CompatibleInstalled`, `UpdateSparesTurns` (`Processes.cfg`). A rollback restores the manifests and
    leaves the newer AgentHub running; a later update of PUA alone measures itself against that one and
    is installed beside a manifest whose AgentHub is too old for it. Turns are counted before the
    download and may begin during it (`manager.go:369`).
13. `ConfiguredIsOwned` (`Processes.cfg`). A request that reads `serve.json`, works over the network and
    writes it back brings back a Workspace removed meanwhile, or drops one that was added
    (`workspace_lock.go:249`, the settings GET and PUT).

14. `NoProcessLeft` (`SessionSafety.cfg`). When a start fails, the error of Close is dropped: if the process
    group survives it, the run converges and `stopped` is published over it (`manager.go:701`, against the
    comment at 675-677: "Close also eliminates and probes the full process group before stopped is
    publishable"). `StoppedMeansDead` excepts this.
15. `EveryStopHolds` (`SessionSafety.cfg`). `convergeActive` decides how the run ended (`manager.go:805`) and
    converges later, under another lock (806-814). A Stop in between finds the run, marks it and waits;
    then `stopped` is published without its request, the pending inputs stay, and the retry timer starts a
    provider after the Stop (against the comment at 278: "permanent failure and Stop settle it without
    replay"). `StopHolds` excepts this.
16. `FailedWritesLeaveNothing` (`Processes.cfg`). A write or sync of the log that fails leaves nothing, a cut
    line or the whole line in the file, and the cursor in memory does not move: the next event is given
    the same id, or is appended to the cut line. A rewrite of the last line that fails leaves the old, the
    new or a mixed line, and the fragment is appended once more (against the comment at
    `session/store.go:570-572`: "with the log left untouched"). The daemon goes on with what it has in
    memory. The next start then fails, or, where the snapshot carries the id of the last line, serves a
    Session whose history every reader is refused; a crash before the next event instead makes the event
    whose caller got an error a fact, and a text may have a fragment twice. `MemoryIsLog`, `OpensAgain` and
    `ArchivedIsLast` except it until the log is read anew.
17. `NothingMissed` (`Processes.cfg`). `cmd.WaitDelay` closes the pipe two seconds after the exit, although
    the reader, which hands each message to the manager before it takes the next, may still be behind: the
    rest of the output is lost without a read error, and with it the end of a Turn, which is then recorded
    as failed (`provider.go:262`, `pi.go:93`, against the comments at `provider.go:306-309` and
    `pi.go:133-134`). `OutcomeKept` excepts the Turns whose end was lost so.

Met while modelling, argued from the source and not shown by a run of their own.

Generations and mailbox:

18. A repeated `RetireCurrent` returns success and leaves `current.json` behind: `readCurrentForKey`
    hides it, so the removal is unreachable (`generation/store.go:333` against the comment at 310-312).
    It is hidden from readers and overwritten by the next SaveCurrent.
19. A retirement that is retried after the retire reason was set in memory carries other bytes than the
    manifest and gets ErrImmutable (`serve/generation_store.go:97-100`).
20. A delivery replayed by AgentHub is looked up behind a cursor read before the delivery, so it is
    marked delivered without its Turn (`resource_mailbox.go:787-788`).
21. Interrupt names no Turn; if AgentHub starts the next one in between, that one is ended
    (`src/README.md:201` speaks of the same Turn).
22. A message promoted to interrupt may be steered into a generation that is being replaced
    (`resource_mailbox.go:1200-1202`). `ReplacementHoldsMail` excepts it.
23. `writeResourceMailboxStoreDocuments` removes the temporaries on any error after `commit.json` is in
    place (a failed directory fsync, a failed rename): `commit.json` stays and the next load renames
    what is left. `RenameErrors` in `MailboxStore` reaches it; `disturbed` excepts it.
24. A rebuild of the index that fails after it removed markers leaves an old `ready.json` (markers sort
    first), so the index looks complete. Only the startup rebuild repairs it, and recovery is not
    repeated if AgentHub's ListSessions fails (`agenthub_runtime.go:483-492`). `torn` excepts it.
25. A mutation whose last fsync or unlink fails reports an error although it happened; the directory of
    a new bundle is never fsynced in its parent; a generated message whose id has expired is accepted
    again.
26. A policy that is enabled between the two reads of one job makes it fetch the usage a second time and
    decide without reading the policy once more (against the comment at `generation_policy.go:184`).
    Binding requests that wait are lost with a restart; Turns begun by steers are not counted; a binding
    that went to another agent and back still replaces the generation.

AgentHub Sessions and providers:

27. A late end of a Turn after Interrupt closes the next Turn (`manager.go:37-40`, `467-472`).
28. `SendMessage` converges a Session stopped on request without looking at `m.running`: with a
    concurrent Start (call `overlap`, left out of `session_safety`) it publishes `stopped` over a live
    provider and drops its record.
29. After a recovery that could not confirm the kill, a user's Stop publishes `stopped` without
    confirmation (against the comment at `manager.go:816-818`).
30. Codex: a provider that dies between Prompt and the accepted event leaves a stopped Session with an
    open Turn and no pending input. An Interrupt before `turn/started` is read sends nothing, and the
    Turn is recorded as cancelled; `c.turn` is read without its lock; an `error` that will not be retried
    and `turn/completed` are two ends of one Turn; Approve drops the pending request before it writes.
31. A Stop between `message.input` and `turn.started`, or between a retry's read and its
    `turn.started`, reopens a cancelled Turn.
32. A crash between `message.input` and `turn.started` leaves an input that recover does not
    reschedule; the retries of later inputs wait behind it unless its sender repeats. This is why
    `HeadSettles` speaks of an input whose Turn is open.
33. A steer sent to an idle Session whose provider cannot steer is retried for ever. A steer that crosses
    the end of its Turn opens a run of the provider that belongs to no Turn. With Pi a steer that fails
    closes the active Turn, and a steer may be written before the prompt it steers.
34. A graceful close of the manager marks its Sessions as stopped on request, which cancels their
    pending inputs. An input that fails on its spent start budget leaves a steer of the same Turn
    pending, without a retry.
35. The JSON-RPC client caches the error of Close, which keeps a Session in `stopping` until the daemon
    restarts. Close also needs the lock a write holds that is blocked on a full standard input, so Stop
    may never return (Pi closes without it). A request of the provider the adapter does not know is
    answered by the reader itself, which a full pipe blocks.
36. ACP answers an approval in two steps (`acp.go:249`); an approval is resolved once more after the end of
    its Turn; a reply is refused when another message has opened its Turn first. Pi's scanner ends
    without a word at a line of 16 MiB.
37. An event whose snapshot fails is durable and neither published nor projected; a Turn that lost both
    records of its projection is never served once no Turn is open; events behind the end of a Turn are
    not in `turns.jsonl`; a trusted snapshot does not see a merge of the last event
    (`session/store.go:969-976`); a client ahead of a repaired log gets 409; fragments of an event that is
    not the newest are missed after a reconnect.

Tasks, notices, Scheduler:

38. A recovery message of the watchdog refills the budget of continuations (the comment at
    `task_state_runtime.go:92-93` speaks of ordinary input); an input queued before it is delivered into
    the Turn the watchdog takes for the recovery.
39. A write that fails in `handleTaskTurnCompletionLocked`, or a message that ends without an outcome,
    leaves a Task in progress with nothing that drives it: `NotStranded` excepts failed writes. A crash
    between a continuation and its count leaves it uncounted: `Budget` allows one per crash.
40. A change of the language between a crash and the retry makes a continuation, a tick or a notice differ
    from the accepted one, which is then a conflict; the watchdog freezes its text.
41. A notice that was accepted is reported as terminal if its target was archived, or changed its
    language, between a crash and the retry.
42. A tick that expired undeliverable behind its checkpoint never ends.

Chat and Telegram:

43. An input of a Chat that is closed before the reconciler's pass is settled without being executed
    (`chat.go:400`).

Read state and tree:

44. A write of a user's state after `DeleteUser` removed its directory creates it anew, without a profile;
    `Users()` then fails until the user is registered again, with the old cursors.
45. A Turn is numbered after its record: a crash in between leaves it without a number, the count of
    finished Turns may be one behind for a while, and the first Turn of a resource may be taken for read.
46. A write of cursors between the registration of a user and its baseline skips the baseline; two first
    registrations at once never consume the file of the earlier version; a prune that fails behind an
    archive is not repeated (`resource_attention.go:221-223`); `markResourceReadOnUserMessage` has no
    caller.
47. An id of a Task is given out again while the metadata of its first owner cannot be read.
48. A message that became undeliverable with its archive and is found `delivering` is hot again.

Desktop application and Workspaces:

49. An update whose wait for the end of PUA times out returns without a rollback although PUA was told to
    end (`manager.go:421`). An application killed between a start and its note takes its own process
    for one of others. One failed probe makes it restart a healthy PUA. A damaged manifest brings back
    the bundled, older component. Beside an AgentHub of others the required version is compared with
    the manifest's binary (`manager.go:378`).
50. The comparison of versions is not antisymmetric for numeric prerelease identifiers that overflow.
51. Two requests that add one Workspace: the one that fails releases the lock of the other; a removal
    releases the lock of an addition that follows. `OpenWorkspace` reads twice. A Workspace may be
    initialised while a server uses it (`api.go:136`), nested ones at the same time.

## 8. Not modelled

- In `ResourceMailbox`: messages of the legacy Turn-result type, a message id reused with other
  content, a Session whose source does not match, Stop for an archived Task, the Session state
  `starting`, approvals apart from the Turn they belong to.
- In `AgentHubSession`: failing appends, the events inside `convergeStored` one by one (it holds
  `m.mu`), a second concurrent Stop, `Manager.Close` (a Stop followed by `Restart`), errors of the agent
  configuration. Approvals are in `ProviderTransport`.
- In `MailboxStore`: locators and `meta.json` (rebuilt when wrong), older layouts, the contents of
  messages, other resources (they share only the index mutex and `ready.json`).
- In `TelegramBridge`: menus and searches, several accounts and topics, the length of parts. In
  `SharedChat`: read cursors, notes, pages, the Workspace Chat, the retired dialogue runtime.
- In `ReadState`: folders, order and drafts, which are saved with the cursors.
- In `SessionLog`: the Turn cache and activity times, subscriptions to all Sessions, the launch
  environment, the withdrawal of a creation that failed.
- In `ProviderTransport`: what the handshake says, tool events, usage reports, a limit of the length of
  a line (Pi's scanner, divergence 36).
- In `DesktopServices`: the window and menu, a download apart from its success, signatures. A pid is
  used again only when no file refers to it; the code would take the new process for its own.
- In `GenerationRotation`: the budget of minutes, steers, several resources.
- In `WorkspaceTree` and `ArchivedWork`: links between resources and their rewriting, worktrees.
- The legacy generation sweep, message envelopes, the CLI, configuration and companion of AgentHub,
  localisation, web interfaces, templates, repositories, the doctor: parsing, formatting, presentation
  or functions of one value. Each is in `PROJECT.json` with its reason.
