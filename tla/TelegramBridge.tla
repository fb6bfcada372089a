---------------------------- MODULE TelegramBridge ----------------------------
(***************************************************************************)
(* The Telegram connection of a Workspace beside the Chat of one resource: *)
(* one bot, one Telegram account, and the topic that shows the Chat.  The  *)
(* worker polls for updates, keeps them in a durable inbox, processes one  *)
(* and saves the inbox without it; then it forwards the next message of    *)
(* the Chat to the topic.  Its state is one file, loaded and saved under   *)
(* one mutex the settings page also takes; Telegram, the Chat and the      *)
(* process itself move at any time in between.                             *)
(***************************************************************************)
EXTENDS SharedChat

CONSTANTS Owner,        \* the Workspace user the account is paired with
          Kinds,        \* what the account sends
          Parts,        \* the parts a long message is cut into
          Threads,      \* topics of the private chat; 0 is the chat itself
          Settings,     \* what the settings page is used for
          MaxUpdates, MaxRevision, MaxRetries, MaxHalts  \* bounds

VARIABLES disk,         \* the saved state of the connection
          mem,          \* the copy the worker loaded; None outside its section
          pc, local,    \* where the worker is, and its local variables
          fresh,        \* the Chat file is the one the last complete look saw
          server,       \* Telegram: unconfirmed updates and the next id
          sent,         \* how often a part of a message reached the topic
          retried,      \* how often the user asked to send a message again
          decided,      \* messages the user gave up
          answered,     \* what became of each update
          halts

workerVars == <<mem, pc, local>>
outVars == <<sent, retried, decided>>
vars == <<chatVars, disk, workerVars, fresh, server, outVars, answered, halts>>
-----------------------------------------------------------------------------
(* Reasons a later look at the route may lift by itself.                   *)
Rechecked == {"unpaired", "user", "archived", "closed", "epoch"}

NewRoute == [thread |-> 0, epoch |-> 0, cursor |-> 0, base |-> 0, paused |-> TRUE,
             reason |-> "creating", pending |-> None, held |-> {}, shared |-> FALSE, legacy |-> None]

Paused(r, reason) == [r EXCEPT !.paused = TRUE, !.reason = reason]
Unpaused(r) == [r EXCEPT !.paused = FALSE, !.reason = "none"]

(* Mutant of Doubtful: the request is repeated.                            *)
DoubtfulAgain(p) == IF p # None /\ p.status = "sending" THEN [p EXCEPT !.status = "queued"] ELSE p

(* A part whose request was out when the process ended may have arrived.   *)
Doubtful(p) == IF p # None /\ p.status = "sending" THEN [p EXCEPT !.status = "unknown"] ELSE p

(* The topic shows replies and what was written elsewhere, and of the      *)
(* merged history what its own earlier record had not shown.               *)
Forwardable(m, r) ==
    /\ m.source # None => m.source = Owner /\ r.legacy # None /\ m.index >= r.legacy
    /\ m.origin # None => m.origin # r.thread

Waiting(r, c, end) == {i \in r.cursor + 1 .. end : Forwardable(c.messages[i], r)}

(* Mutant of HoldsUntil: only the delivery under way is put aside.         *)
HoldsDelivery(r, c, end) ==
    [r EXCEPT !.held = @ \cup (IF r.pending # None
                               THEN {[from |-> r.cursor, to |-> r.pending.at, pending |-> Doubtful(r.pending)]}
                               ELSE {}),
              !.pending = None, !.cursor = end]

(* Messages that are not to be sent without a decision are put aside, with *)
(* the delivery that was under way.                                        *)
HoldsUntil(r, c, end) ==
    [r EXCEPT !.held = @ \cup (IF Waiting(r, c, end) # {} \/ r.pending # None
                               THEN {[from |-> r.cursor, to |-> end, pending |-> Doubtful(r.pending)]}
                               ELSE {}),
              !.pending = None, !.cursor = end]

(* The place of an earlier record's route in the merged history.           *)
PlaceOf(c, k) ==
    LET ids == c.sources[Owner].ids
    IN  IF k = Len(ids) THEN c.end
        ELSE (CHOOSE i \in DOMAIN c.messages : c.messages[i].id = ids[k + 1]) - 1

CanMigrate(r, c) ==
    /\ Owner \in DOMAIN c.sources /\ c.sources[Owner].open /\ c.sources[Owner].epoch = r.epoch
    /\ r.cursor <= Len(c.sources[Owner].ids)
    /\ r.pending # None => r.pending.at \in r.cursor + 1 .. Len(c.sources[Owner].ids)

Migrated(r, c) ==
    [r EXCEPT !.cursor = PlaceOf(c, @), !.base = PlaceOf(c, r.cursor), !.epoch = c.epoch,
              !.shared = TRUE, !.legacy = r.cursor,
              !.pending = IF @ = None THEN None ELSE [@ EXCEPT !.at = PlaceOf(c, @ - 1) + 1]]

(* Pauses that are looked at again, and what keeps a route from its Chat.  *)
Looked(r) == r.thread # 0 /\ (r.paused => r.reason \in Rechecked)

Obstacle(paired) ==
    IF ~paired THEN "unpaired"
    ELSE IF Owner \notin users THEN "user"
    ELSE IF archived THEN "archived"
    ELSE "none"

(* The Chat is asked for, and so made, when nothing is in the way.         *)
Asks(r, paired) == Looked(r) /\ Obstacle(paired) = "none"

(* Whether a route may carry messages now, and the route afterwards; with  *)
(* a new epoch what was remembered of the Chat file is forgotten.          *)
Checked(r, c, obstacle, cached) ==
    LET Not(reason) == [route |-> Paused(r, reason), ready |-> FALSE, renewed |-> FALSE]
        m == IF r.shared THEN r ELSE Migrated(r, c)
        stuck == [route |-> Paused(m, "epoch"), ready |-> FALSE, renewed |-> FALSE]
    IN  IF ~Looked(r) THEN [route |-> r, ready |-> FALSE, renewed |-> FALSE]
        ELSE IF obstacle # "none" THEN Not(obstacle)
        ELSE IF cached /\ r.shared /\ ~r.paused /\ r.pending = None
          THEN [route |-> r, ready |-> TRUE, renewed |-> FALSE]
        ELSE IF ~c.open THEN Not("closed")
        ELSE IF ~r.shared /\ ~CanMigrate(r, c) THEN Not("epoch")
        ELSE IF m.cursor > Len(c.messages) THEN stuck
        ELSE IF c.epoch = m.epoch THEN [route |-> Unpaused(m), ready |-> TRUE, renewed |-> FALSE]
        ELSE IF c.epoch < m.epoch \/ c.start \notin m.cursor .. Len(c.messages) THEN stuck
        ELSE [route |-> Unpaused([HoldsUntil(m, c, c.start) EXCEPT !.epoch = c.epoch]),
              ready |-> TRUE, renewed |-> TRUE]
-----------------------------------------------------------------------------
NoConnection == [enabled |-> FALSE, revision |-> 0, offset |-> 1, inbox |-> <<>>,
                 paired |-> FALSE, code |-> FALSE, route |-> None]

BridgeInit ==
    /\ mem = None /\ pc = "idle" /\ local = None /\ fresh = FALSE
    /\ server = [queue |-> <<>>, next |-> 1]
    /\ sent = [m \in (1 .. MaxMessages) \X Parts |-> 0]
    /\ retried = [i \in 1 .. MaxMessages |-> 0]
    /\ decided = {}
    /\ answered = [n \in 1 .. MaxUpdates |-> "no"]
    /\ halts = 0

(* Any save of the Chat changes its file.                                  *)
ChatMoves ==
    /\ ChatNext(pc \notin {"send", "save"})
    /\ fresh' = (fresh /\ chat' = chat)
    /\ UNCHANGED <<disk, workerVars, server, outVars, answered, halts>>

(* Telegram keeps an update until a poll behind it was answered.           *)
AccountSends(kind, thread) ==
    /\ server.next <= MaxUpdates
    /\ kind \in {"pair", "open"} => thread = 0
    /\ kind = "bind" => thread # 0
    /\ server' = [queue |-> Append(server.queue, [id |-> server.next, kind |-> kind, thread |-> thread]),
                  next |-> server.next + 1]
    /\ UNCHANGED <<chatVars, disk, workerVars, fresh, outVars, answered, halts>>
-----------------------------------------------------------------------------
(* The worker polls without the lock; an answer to a connection that was   *)
(* changed meanwhile is dropped.                                           *)
Polls ==
    /\ pc = "idle" /\ disk.enabled /\ disk.inbox = <<>>
    /\ pc' = "poll"
    /\ local' = [revision |-> disk.revision, offset |-> disk.offset]
    /\ UNCHANGED <<chatVars, disk, mem, fresh, server, outVars, answered, halts>>

(* Mutant of Taken: the inbox is kept in memory only.                      *)
TakenUnsaved(d, new) == [d EXCEPT !.offset = IF new = <<>> THEN @ ELSE Last(new).id + 1]

Taken(d, new) == [d EXCEPT !.inbox = @ \o new,
                           !.offset = IF new = <<>> THEN @ ELSE Last(new).id + 1]

PollAnswered ==
    LET left == SelectSeq(server.queue, LAMBDA u : u.id >= local.offset)
        new == SelectSeq(left, LAMBDA u : u.id >= disk.offset)
        current == disk.revision = local.revision /\ disk.enabled
    IN  /\ pc = "poll"
        /\ server' = [server EXCEPT !.queue = left]
        /\ \/ current /\ disk' = Taken(disk, new)
           \/ ~current /\ UNCHANGED disk
        /\ pc' = IF current THEN "load" ELSE "idle"
        /\ local' = None
        /\ UNCHANGED <<chatVars, mem, fresh, outVars, answered, halts>>

(* No answer, or an error: Telegram may have taken note of the offset.     *)
PollFails ==
    /\ pc = "poll"
    /\ \/ server' = [server EXCEPT !.queue = SelectSeq(@, LAMBDA u : u.id >= local.offset)]
       \/ UNCHANGED server
    /\ pc' = "idle" /\ local' = None
    /\ UNCHANGED <<chatVars, disk, mem, fresh, outVars, answered, halts>>

(* With something in the inbox the worker goes straight to it.             *)
Loads ==
    /\ \/ pc = "load"
       \/ pc = "idle" /\ disk.enabled /\ disk.inbox # <<>>
    /\ IF disk.enabled
       THEN mem' = disk /\ pc' = IF disk.inbox = <<>> THEN "flush" ELSE "process"
       ELSE mem' = None /\ pc' = "idle"
    /\ local' = None
    /\ UNCHANGED <<chatVars, disk, fresh, server, outVars, answered, halts>>
-----------------------------------------------------------------------------
(* Processing the first update of the inbox.  `Tells` answers it in        *)
(* Telegram; `Keeps` saves the state first, or leaves that to the end.     *)
Update == Head(mem.inbox)

OnRoute == mem.route # None /\ mem.route.thread = Update.thread

Processes(kinds) == pc = "process" /\ Update.kind \in kinds

Tells(m) ==
    /\ mem' = m /\ pc' = "consume" /\ local' = None
    /\ answered' = [answered EXCEPT ![Update.id] = IF @ = "no" THEN "told" ELSE @]
    /\ UNCHANGED <<chatVars, fresh, server, outVars, halts>>

GoesOn(m, next, l) ==
    /\ mem' = m /\ pc' = next /\ local' = l
    /\ UNCHANGED <<chatVars, fresh, server, outVars, answered, halts>>

WithRoute(r) == [mem EXCEPT !.route = r]

(* A pairing code works once and for ten minutes; it may be old.           *)
ProcessPair ==
    /\ Processes({"pair"})
    /\ \/ /\ mem.code
          /\ IF Owner \in users
             THEN /\ disk' = [mem EXCEPT !.paired = TRUE, !.code = FALSE]
                  /\ Tells(disk')
             ELSE Tells([mem EXCEPT !.code = FALSE]) /\ UNCHANGED disk
       \/ Tells(mem) /\ UNCHANGED disk

(* Without a pairing, or with a user that is gone, nothing is done.        *)
ProcessStranger ==
    /\ Processes(Kinds \ {"pair"})
    /\ ~mem.paired \/ Owner \notin users
    /\ IF /\ mem.paired /\ OnRoute /\ (mem.route.paused => mem.route.reason \in Rechecked)
          /\ Paused(mem.route, "user") # mem.route
       THEN disk' = WithRoute(Paused(mem.route, "user"))
            /\ Tells(WithRoute(Paused(mem.route, "user")))
       ELSE Tells(mem) /\ UNCHANGED disk

ProcessText ==
    LET look == Checked(mem.route, Ensured, Obstacle(mem.paired), FALSE)
    IN  /\ Processes({"text"}) /\ mem.paired /\ Owner \in users
        /\ IF OnRoute
           THEN /\ disk' = IF look.route = mem.route THEN disk ELSE WithRoute(look.route)
                /\ chat' = IF Asks(mem.route, mem.paired) THEN Ensured ELSE chat
                /\ mem' = WithRoute(look.route)
                /\ pc' = IF look.ready THEN "append" ELSE "consume"
                /\ answered' = IF look.ready \/ answered[Update.id] # "no" THEN answered
                               ELSE [answered EXCEPT ![Update.id] = "told"]
                /\ UNCHANGED <<legacy, users, archived, mailbox, local, fresh, server, outVars, halts>>
           ELSE Tells(mem) /\ UNCHANGED disk

(* Mutant of Current: the first look is trusted.                           *)
StillCurrent(r) == chat.made

Current(r) == chat.open /\ chat.epoch = r.epoch

(* The Chat is looked at again under its own mutex.                        *)
Appends ==
    LET c == chat
    IN  /\ pc = "append"
        /\ IF Current(mem.route)
           THEN /\ Saves(WithInput(c, Owner, Update.id, mem.route.thread))
                /\ fresh' = FALSE
                /\ answered' = [answered EXCEPT ![Update.id] = "chat"]
           ELSE /\ answered' = [answered EXCEPT ![Update.id] = IF @ = "no" THEN "told" ELSE @]
                /\ UNCHANGED <<chat, fresh>>
        /\ pc' = "consume"
        /\ UNCHANGED <<legacy, users, archived, mailbox, disk, mem, local, server, outVars, halts>>

ProcessStop ==
    /\ Processes({"stop"}) /\ mem.paired /\ Owner \in users
    /\ IF OnRoute /\ (mem.route.paused => mem.route.reason \in Rechecked \cup {"manual"})
       THEN disk' = WithRoute(Paused(mem.route, "manual")) /\ Tells(WithRoute(Paused(mem.route, "manual")))
       ELSE Tells(mem) /\ UNCHANGED disk
-----------------------------------------------------------------------------
(* /open, /bind, /resume and /resume confirm end in openTopic.             *)
Explicit == Update.kind \in {"resume", "confirm"}
Confirmed == Update.kind = "confirm"
Asked == IF Explicit THEN mem.route.thread ELSE IF Update.kind = "bind" THEN Update.thread ELSE 0

(* A pause this version did not record needs a confirmation.               *)
Unexplained(r) == r.thread # 0 /\ r.paused /\ r.reason \notin Rechecked \cup {"manual"}

(* The route is reserved before its topic is created, so that a process    *)
(* that ends in between does not create another one.                       *)
ProcessOpen ==
    /\ Processes({"open", "bind", "resume", "confirm"}) /\ mem.paired /\ Owner \in users
    /\ LET r == mem.route
           thread == IF r = None THEN 0 ELSE IF Asked = 0 THEN r.thread ELSE Asked
           rebinds == r.thread # 0 /\ r.thread # thread
           kept == r.thread # 0 /\ ~rebinds
           reserved == WithRoute(NewRoute)
           refused == archived \/ (Explicit /\ ~OnRoute)
       IN  IF ~refused /\ r = None
             THEN /\ disk' = reserved
                  /\ IF Asked = 0 THEN GoesOn(reserved, "create", None)
                     ELSE GoesOn(reserved, "bind", Asked)
           ELSE /\ UNCHANGED disk
                /\ IF \/ refused \/ thread = 0
                      \/ kept /\ ~Explicit /\ (Unexplained(r) \/ (r.paused /\ r.reason = "manual"))
                      \/ kept /\ Unexplained(r) /\ Explicit /\ ~Confirmed
                     THEN Tells(mem) ELSE GoesOn(mem, "bind", thread)

(* Telegram creates the topic, refuses, or does not answer: then a topic   *)
(* may be there and the user has to bind it.                               *)
CreatesTopic ==
    /\ pc = "create"
    /\ \/ \E thread \in Threads \ {0} : GoesOn(mem, "bind", thread) /\ UNCHANGED disk
       \/ disk' = WithRoute(None) /\ Tells(WithRoute(None))
       \/ Tells(mem) /\ UNCHANGED disk

(* The place in the history cannot be verified, and the user did not       *)
(* confirm to go on from now.                                              *)
GoesOnFromNow(r, c) ==
    [r EXCEPT !.held = @ \cup {[from |-> Len(c.messages), to |-> Len(c.messages),
                                pending |-> Doubtful(r.pending)]},
              !.legacy = r.cursor, !.pending = None, !.cursor = Len(c.messages),
              !.base = Len(c.messages), !.epoch = c.epoch, !.shared = TRUE]

(* The route of openTopic over the Chat c, and whether it is connected.    *)
Bound(r, c, thread) ==
    LET initial == r.thread = 0
        rebinds == ~initial /\ r.thread # thread
        lost == ~initial /\ ~r.shared /\ ~CanMigrate(r, c)
        m == IF initial \/ r.shared THEN r
             ELSE IF lost THEN Unpaused(GoesOnFromNow(r, c)) ELSE Migrated(r, c)
        unknown == ~initial /\ c.epoch # m.epoch
                   /\ (c.epoch < m.epoch \/ c.start \notin m.cursor .. Len(c.messages))
        stuck == [route |-> Paused(m, "epoch"), connected |-> FALSE]
        At(x) == [route |-> [x EXCEPT !.thread = thread], connected |-> TRUE]
    IN  IF lost /\ ~Confirmed THEN [route |-> Paused(r, "epoch"), connected |-> FALSE]
        ELSE IF \/ ~initial /\ c.epoch < m.epoch
                \/ ~initial /\ ~rebinds /\ unknown /\ ~Confirmed THEN stuck
        ELSE IF initial
          THEN At(Unpaused([m EXCEPT !.epoch = c.epoch, !.cursor = Len(c.messages),
                                     !.base = Len(c.messages), !.shared = TRUE]))
        ELSE IF rebinds \/ Unexplained(r) \/ unknown
          THEN IF m.cursor > Len(c.messages) THEN stuck
               ELSE At(Unpaused([HoldsUntil(m, c, Len(c.messages)) EXCEPT !.epoch = c.epoch]))
        ELSE IF Explicit /\ m.reason = "manual" THEN At(Unpaused(m))
        ELSE At(m)

(* The Chat is opened when the user asked for it, and saved first.         *)
Binds ==
    LET r == mem.route
        c == IF Ensured.open THEN Ensured ELSE Opened(Ensured)
        kept == r.thread # 0 /\ r.thread = local
        bound == Bound(r, c, local)
    IN  /\ pc = "bind"
        /\ \/ /\ kept /\ ~Explicit /\ ~Ensured.open
              /\ Tells(mem) /\ UNCHANGED disk
           \/ /\ ~kept \/ Explicit \/ Ensured.open
              /\ Saves(c) /\ fresh' = FALSE
              /\ mem' = WithRoute(bound.route)
              /\ pc' = "save"
              /\ local' = bound.connected
              /\ UNCHANGED <<legacy, users, archived, mailbox, disk, server, outVars, answered, halts>>

SavesRoute ==
    LET look == Checked(mem.route, chat, Obstacle(mem.paired), FALSE)
        m == WithRoute(IF local THEN look.route ELSE mem.route)
    IN  /\ pc = "save"
        /\ disk' = m
        /\ Tells(m)

(* Only now the update leaves the inbox.                                   *)
Consumes ==
    /\ pc = "consume"
    /\ mem' = [mem EXCEPT !.inbox = Tail(@)]
    /\ disk' = mem'
    /\ pc' = "flush" /\ local' = None
    /\ UNCHANGED <<chatVars, fresh, server, outVars, answered, halts>>

(* A file could not be written: the update stays for another attempt, and  *)
(* what had been changed in memory is saved with the error.                *)
ProcessFails ==
    /\ pc \in {"append", "bind", "save"}
    /\ disk' \in {disk, mem}
    /\ mem' = None /\ pc' = "idle" /\ local' = None
    /\ UNCHANGED <<chatVars, fresh, server, outVars, answered, halts>>
-----------------------------------------------------------------------------
(* Forwarding.  The Chat is loaded under its mutex, and the time of its    *)
(* file is read after the mutex was released.                              *)
Flushes ==
    /\ pc = "flush"
    /\ IF mem.route = None
       THEN pc' = "idle" /\ mem' = None /\ local' = None /\ UNCHANGED <<chat, fresh>>
       ELSE /\ pc' = "look" /\ local' = [chat |-> Ensured, obstacle |-> Obstacle(mem.paired)]
            /\ chat' = IF Asks(mem.route, mem.paired) THEN Ensured ELSE chat
            /\ fresh' = (fresh /\ chat' = chat)
            /\ UNCHANGED mem
    /\ UNCHANGED <<legacy, users, archived, mailbox, disk, server, outVars, answered, halts>>

Leaves(m) == disk' = m /\ mem' = None /\ pc' = "idle" /\ local' = None

(* The next message to forward becomes the delivery under way; when there  *)
(* is none, the file as it is now is remembered as seen.                   *)
Looks ==
    LET c == local.chat
        look == Checked(mem.route, c, local.obstacle, fresh)
        r == look.route
        next == Waiting(r, c, Len(c.messages))
        doubt == [r EXCEPT !.pending = Doubtful(@)]
        due == [r EXCEPT !.cursor = Min(next) - 1,
                         !.pending = [at |-> Min(next), part |-> Min(Parts), status |-> "queued"]]
        seen == fresh /\ ~look.renewed
        Goes(x) == \/ Leaves(WithRoute(x))                          \* too early to send
                   \/ /\ x.pending.status = "queued"
                      /\ mem' = WithRoute(x) /\ pc' = "fence" /\ local' = None /\ UNCHANGED disk
    IN  /\ pc = "look"
        /\ fresh' = (seen \/ (look.ready /\ r.pending = None /\ next = {}))
        /\ CASE ~look.ready \/ (r.pending = None /\ seen) -> Leaves(WithRoute(r))
             [] r.pending = None /\ ~seen /\ next = {} ->
                  Leaves(WithRoute([r EXCEPT !.cursor = Len(c.messages)]))
             [] r.pending = None /\ ~seen /\ next # {} -> Goes(due)
             [] OTHER -> Goes(doubt)
        /\ UNCHANGED <<chatVars, server, outVars, answered, halts>>

(* The Chat cannot be closed or reopened from here until the part was      *)
(* sent; everything is verified again, and the attempt saved first.        *)
Fences ==
    LET r == mem.route
        obstacle == Obstacle(mem.paired)
    IN  /\ pc = "fence"
        /\ IF obstacle # "none" \/ ~Current(r)
           THEN Leaves(IF obstacle # "none" THEN WithRoute(Paused(r, obstacle))
                       ELSE IF ~chat.open THEN WithRoute(Paused(r, "closed")) ELSE mem)
           ELSE /\ mem' = WithRoute([r EXCEPT !.pending.status = "sending"])
                /\ disk' = mem' /\ pc' = "send" /\ local' = None
        /\ UNCHANGED <<chatVars, fresh, server, outVars, answered, halts>>

(* The request and its answer: the part arrived or not, and the worker     *)
(* learns of it, is refused, is told to wait, or learns nothing.           *)
Sends ==
    /\ pc = "send"
    /\ \E outcome \in {"ok", "refused", "wait", "unknown"}, arrived \in BOOLEAN :
          /\ outcome = "ok" => arrived
          /\ outcome \in {"refused", "wait"} => ~arrived
          /\ sent' = IF arrived THEN [sent EXCEPT ![mem.route.pending.at, mem.route.pending.part] = @ + 1]
                     ELSE sent
          /\ local' = outcome
    /\ pc' = "sent"
    /\ UNCHANGED <<chatVars, disk, mem, fresh, server, retried, decided, answered, halts>>

AfterSend(r, outcome) ==
    LET last == r.pending.part = Max(Parts)
    IN  CASE outcome = "ok" /\ last -> [r EXCEPT !.cursor = r.pending.at, !.pending = None]
          [] outcome = "ok" /\ ~last -> [r EXCEPT !.pending.part = @ + 1, !.pending.status = "queued"]
          [] outcome = "wait" -> [r EXCEPT !.pending.status = "queued"]
          [] outcome = "refused" -> [r EXCEPT !.pending.status = "failed"]
          [] outcome = "unknown" -> [r EXCEPT !.pending.status = "unknown"]

SavesOutcome ==
    /\ pc = "sent"
    /\ Leaves(WithRoute(AfterSend(mem.route, local)))
    /\ UNCHANGED <<chatVars, fresh, server, outVars, answered, halts>>

(* The process ends, or a file could not be written and the copy in memory *)
(* is dropped; the memory of the Chat file goes with the process.          *)
Halts ==
    /\ halts < MaxHalts
    /\ halts' = halts + 1
    /\ mem' = None /\ pc' = "idle" /\ local' = None
    /\ fresh' \in {FALSE, fresh}
    /\ UNCHANGED <<chatVars, disk, server, outVars, answered>>
-----------------------------------------------------------------------------
(* The settings page, which takes the worker's lock.                       *)
Changes(d) ==
    /\ pc \in {"idle", "poll"}
    /\ disk' = d
    /\ UNCHANGED <<chatVars, workerVars, fresh, server, halts>>

Dropped(gone) ==
    answered' = [n \in DOMAIN answered |->
        IF answered[n] = "no" /\ \E i \in DOMAIN gone : gone[i].id = n THEN "dropped" ELSE answered[n]]

Connects(on) ==
    /\ "connect" \in Settings /\ disk.revision < MaxRevision
    /\ Changes([disk EXCEPT !.enabled = on, !.revision = @ + 1])
    /\ UNCHANGED <<outVars, answered>>

CreatesCode ==
    /\ disk.enabled /\ Owner \in users
    /\ Changes([disk EXCEPT !.code = TRUE])
    /\ UNCHANGED <<outVars, answered>>

Unbinds ==
    /\ "unbind" \in Settings /\ disk.revision < MaxRevision
    /\ Changes([disk EXCEPT !.paired = FALSE, !.code = FALSE, !.route = None, !.revision = @ + 1,
                            !.inbox = IF disk.paired THEN <<>> ELSE @])
    /\ IF disk.paired THEN Dropped(disk.inbox) ELSE UNCHANGED answered
    /\ UNCHANGED outVars

Disconnects ==
    /\ "disconnect" \in Settings /\ disk.revision < MaxRevision
    /\ Changes([NoConnection EXCEPT !.revision = disk.revision + 1])
    /\ Dropped(disk.inbox)
    /\ UNCHANGED outVars

Pending == IF disk.route = None THEN None ELSE disk.route.pending

(* Where the message of the delivery is, or will be, in the shared history.*)
PendingAt == IF disk.route.shared THEN Pending.at
             ELSE CHOOSE k \in DOMAIN Merged : Merged[k] = <<Owner, Pending.at>>

RetriesDelivery ==
    /\ Pending # None
    /\ retried[PendingAt] < MaxRetries
    /\ Changes([disk EXCEPT !.route.pending.status = "queued"])
    /\ retried' = [retried EXCEPT ![PendingAt] = @ + 1]
    /\ UNCHANGED <<sent, decided, answered>>

SkipsDelivery ==
    /\ Pending # None
    /\ Changes([disk EXCEPT !.route.cursor = Pending.at, !.route.pending = None])
    /\ decided' = decided \cup {PendingAt}
    /\ UNCHANGED <<sent, retried, answered>>

Acknowledges ==
    /\ disk.route # None
    /\ \E h \in disk.route.held :
          /\ Changes([disk EXCEPT !.route.held = @ \ {h}])
          /\ decided' = decided \cup (h.from + 1 .. h.to)
    /\ UNCHANGED <<sent, retried, answered>>

(* Deleting a user takes the worker's lock and the Chat's: capabilities,   *)
(* then pairing and routes are revoked before the user is gone; it may     *)
(* stop after each of them.                                                *)
DeletesUsers(user) ==
    /\ pc \in {"idle", "poll"}
    /\ \E done \in 1 .. 3 :
          /\ IF done = 3 THEN DeletesUser(user)
             ELSE /\ user \in users /\ Cardinality(users) > 1
                  /\ chat' = IF Present # {} \/ chat.made THEN Revoked(Ensured, {user}) ELSE chat
                  /\ UNCHANGED <<legacy, users, archived, mailbox>>
          /\ disk' = IF user # Owner \/ done = 1 THEN disk
                     ELSE [disk EXCEPT !.paired = FALSE, !.code = FALSE,
                                       !.route = IF @ = None THEN None ELSE Paused(@, "deleted")]
    /\ fresh' = (fresh /\ chat' = chat)
    /\ UNCHANGED <<workerVars, server, outVars, answered, halts>>
-----------------------------------------------------------------------------
Worker ==
    \/ Polls \/ PollAnswered \/ Loads
    \/ ProcessPair \/ ProcessStranger \/ ProcessText \/ Appends \/ ProcessStop
    \/ ProcessOpen \/ CreatesTopic \/ Binds \/ SavesRoute \/ Consumes
    \/ Flushes \/ Looks \/ Fences \/ Sends \/ SavesOutcome

Page ==
    \/ \E on \in BOOLEAN : Connects(on)
    \/ CreatesCode \/ Unbinds \/ Disconnects
    \/ RetriesDelivery \/ SkipsDelivery \/ Acknowledges
    \/ \E user \in Users : DeletesUsers(user)

BridgeNext ==
    \/ ChatMoves
    \/ \E kind \in Kinds, thread \in Threads : AccountSends(kind, thread)
    \/ Worker \/ PollFails \/ ProcessFails \/ Halts
    \/ Page

(* The worker runs on; Telegram does not refuse for ever.                  *)
BridgeFairness ==
    /\ WF_vars(Worker)
    /\ SF_vars(Looks /\ pc' = "fence")
    /\ SF_vars(Sends /\ local' = "ok")
-----------------------------------------------------------------------------
IsRoute(r) ==
    /\ r.thread \in Threads /\ r.epoch \in 0 .. MaxEpoch
    /\ 0 <= r.base /\ r.base <= r.cursor /\ r.cursor <= MaxMessages
    /\ r.paused = (r.reason # "none")
    /\ r.pending # None => r.cursor < r.pending.at /\ r.pending.part \in Parts

(* The saved state and the worker's copy are well formed: cursors never    *)
(* pass the history nor the delivery under way (telegram_store.go).        *)
TypeOK ==
    /\ Len(chat.messages) <= MaxMessages /\ chat.epoch <= MaxEpoch
    /\ \A d \in {disk, mem} \ {None} :
        /\ d.offset \in 1 .. MaxUpdates + 1
        /\ d.route # None => IsRoute(d.route)
        /\ \A i \in DOMAIN d.inbox : d.inbox[i].kind \in Kinds
    /\ (mem = None) = (pc \in {"idle", "poll", "load"})
    /\ \A n \in DOMAIN answered : answered[n] \in {"no", "told", "chat", "dropped"}

(* Nothing the topic should show is passed over in silence: behind the     *)
(* cursor every message reached the topic in all its parts, or is kept for *)
(* a decision of the user, or was decided (holdUntil, the cursor of flush, *)
(* migrateSharedChat).  What came from a topic is left out: the answer     *)
(* changes when the route is bound to another one.                         *)
NothingSkipped ==
    LET r == disk.route
    IN  r # None /\ r.shared => \A i \in r.base + 1 .. r.cursor :
            Forwardable(chat.messages[i], r) /\ chat.messages[i].origin = None =>
                \/ \A p \in Parts : sent[i, p] > 0
                \/ i \in decided
                \/ \E h \in r.held : i \in h.from + 1 .. h.to

(* A part reaches the topic at most once, and once more for each time the  *)
(* user asked to send it again: a restart between the request and its      *)
(* record does not repeat it (the status "sending" of flush).              *)
SentOnce == \A i \in 1 .. MaxMessages, p \in Parts : sent[i, p] <= 1 + retried[i]

(* Nothing goes through twice, in either direction: a part of a message to *)
(* the topic, or a message of the topic to the Chat, whose id tells that   *)
(* it was there before.                                                    *)
AtMostOnce == SentOnce /\ InputOnce

(* An update the account sent is at Telegram, in the durable inbox, or     *)
(* dealt with; the offset that lets Telegram forget it is saved together   *)
(* with the inbox that holds it (run in telegram_runtime.go).  One that    *)
(* was answered by an append is in the Chat, whatever failed since.        *)
NoUpdateLost ==
    \A n \in 1 .. server.next - 1 :
        \/ \E i \in DOMAIN server.queue : server.queue[i].id = n
        \/ \E i \in DOMAIN disk.inbox : disk.inbox[i].id = n
        \/ answered[n] \in {"told", "dropped"}
        \/ answered[n] = "chat" /\ HasInput(chat, Owner, n)

(* While a part is on its way to Telegram the Chat it comes from is open   *)
(* in the period the route was connected to, and cannot be closed or       *)
(* reopened: nothing of a Chat a user closed goes out (the lifecycle lock  *)
(* and the second look of flush).                                          *)
SentWhileOpen == pc = "send" => chat.open /\ chat.epoch = mem.route.epoch

(* Messages of the open Chat that a connected topic should show are        *)
(* forwarded: sooner or later nothing waits, or the topic was paused.      *)
Stalled ==
    LET r == disk.route
    IN  /\ r # None /\ r.shared /\ ~r.paused /\ r.pending = None
        /\ chat.open /\ chat.epoch = r.epoch
        /\ Waiting(r, chat, Len(chat.messages)) # {}
Forwards == []<>(~Stalled)
=============================================================================
