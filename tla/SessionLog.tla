------------------------------ MODULE SessionLog ------------------------------
(***************************************************************************)
(* The files of one AgentHub Session (agenthub/internal/session: store.go, *)
(* turns.go) and one client of its event stream (agenthub/internal/api:    *)
(* server.go, events).                                                     *)
(*                                                                         *)
(* An event is appended to events.jsonl, or, when it is the next fragment  *)
(* of a text the last event began, folded into that line; then the         *)
(* snapshot session.json follows, then the projection turns.jsonl, then,   *)
(* with the lock released, the subscribers.  A crash may fall between any  *)
(* two of these steps and, before the line is synced, inside it; and each  *)
(* of the writes may fail.  A failed append ends with an error and may     *)
(* leave in the file what memory does not have.                            *)
(*                                                                         *)
(* The text of an event is the number of its fragments.  The n-th Turn is  *)
(* the one the n-th "start" opens.  What the runtime appends and when is   *)
(* the matter of AgentHubSession; here it appends any sequence that opens  *)
(* and closes Turns in order.                                              *)
(***************************************************************************)
EXTENDS Naturals, SequencesExt

CONSTANTS
    Writers,        \* goroutines that append
    MaxEvents,      \* bound on the ids
    MaxText,        \* bound on the fragments of an event (maxMergedDeltaEventBytes)
    MaxCrashes,     \* bound on the crashes
    MaxLogFaults,   \* bound on the failing writes of log, snapshot, projection and move
    QueueSize,      \* subscriptionBuffer
    MaxConnects     \* bound on the connections of the client

ASSUME LogAssumption == /\ MaxEvents \in Nat /\ MaxText \in Nat \ {0} /\ QueueSize \in Nat \ {0}
                        /\ MaxCrashes \in Nat /\ MaxLogFaults \in Nat /\ MaxConnects \in Nat

Ids == 1..MaxEvents
Appended == {"start", "delta", "end", "stopped"}
NoFrame == [id |-> 0, text |-> 0]
NoWrite == [merge |-> FALSE, kind |-> "none"]
AtRest == [pc |-> "idle", write |-> NoWrite, frame |-> NoFrame]
Off == [pc |-> "off", high |-> 0, sent |-> 0, queue |-> <<>>, overflow |-> FALSE]

VARIABLES
    daemon,   \* is the daemon up, down, or unable to open the store
    place,    \* where the directory is: nowhere, the store, the archive
    log,      \* the lines of events.jsonl
    tail,     \* is the end of the file clean or cut inside a line
    snap,     \* session.json
    turns,    \* turns.jsonl: the latest record of each Turn
    mem,      \* the Session in memory: its projection and its events
    writer,   \* the appending goroutines; one between "written" and "projected" holds state.mu
    stream,   \* the connection of the client
    shown,    \* what the client has of each event: nothing or a text
    logTally, \* crashes, faults and connections so far (bounds)
    lost,     \* history: records of Turns the projection did not get
    stray     \* history: has the file what a failed or torn write left, and memory has not

logVars == <<daemon, place, log, tail, snap, turns, mem, writer, stream, shown, logTally, lost, stray>>

Line(id, kind) == [id |-> id, kind |-> kind, text |-> IF kind = "delta" THEN 1 ELSE 0]
Unreadable == [id |-> 0, kind |-> "none", text |-> 0]
Readable == \A i \in DOMAIN log : log[i].id = i

(* The projection of a Session: its cursor, how many Turns it had and whether  *)
(* the last is open, and its state.                                            *)
NoProjection == [last |-> 0, turns |-> 0, open |-> FALSE, state |-> "none"]

ApplyEvent(session, event) ==
    [last |-> event.id,
     turns |-> session.turns + (IF event.kind = "start" THEN 1 ELSE 0),
     open |-> IF event.kind = "start" THEN TRUE ELSE event.kind # "end" /\ session.open,
     state |-> IF event.kind = "delta" THEN session.state ELSE event.kind]

ProjectionOf(events) == FoldLeft(ApplyEvent, NoProjection, events)

(* The Turns an event log tells of, as buildTurnSummaries derives them. *)
IdsOf(events, kind) == {i \in DOMAIN events : events[i].kind = kind}
TurnsOf(events) == [t \in Ids |-> IF t > Cardinality(IdsOf(events, "start")) THEN "none"
                                  ELSE IF t > Cardinality(IdsOf(events, "end")) THEN "open" ELSE "closed"]

Held == \E w \in Writers : writer[w].pc \in {"written", "synced", "snapped"}
Up == daemon = "up"
Free == Up /\ ~Held
LogFault == logTally.faults < MaxLogFaults /\ logTally' = [logTally EXCEPT !.faults = @ + 1]
NoSession == [loaded |-> FALSE, events |-> <<>>, session |-> NoProjection, stamp |-> FALSE]
Exists == mem.session.last > 0

LogInit ==
    /\ daemon = "up" /\ place = "none" /\ log = <<>> /\ tail = "clean"
    /\ snap = NoProjection
    /\ turns = [t \in Ids |-> "none"]
    /\ mem = NoSession
    /\ writer = [w \in Writers |-> AtRest]
    /\ stream = Off
    /\ shown = [i \in Ids |-> {}]
    /\ logTally = [crashes |-> 0, faults |-> 0, connects |-> 0]
    /\ lost = {} /\ stray = FALSE

--------------------------------------------------------------------------------
(* Appending.                                                                  *)

(* History is parsed on the first use after a start from the snapshot, which   *)
(* trims a cut line; a file with a bad line, or an id out of order, is an      *)
(* error.                                                                      *)
MayParse == mem.loaded \/ Readable
Parsed == IF mem.loaded THEN mem ELSE [mem EXCEPT !.loaded = TRUE, !.events = log]
Trims == tail' = IF mem.loaded THEN tail ELSE "clean"
History == Parsed.events

(* A fragment continues the text of the last event, and the file ends with     *)
(* that event as memory has it.                                                *)
Mergeable(kind) ==
    /\ kind = "delta" /\ Last(History).kind = "delta" /\ Last(History).text < MaxText
    /\ tail = "clean" /\ Last(log) = Last(History)

(* What the runtime appends next. *)
Due(kind) ==
    CASE kind = "start" -> ~mem.session.open
      [] kind \in {"delta", "end"} -> mem.session.open
      [] kind = "stopped" -> ~mem.session.open /\ mem.session.state # "stopped"
      [] OTHER -> FALSE

(* The write has reached the file and not the disk. *)
HasId == mem.session.last < MaxEvents
LogWrites(w, kind, merge) ==
    /\ merge \/ HasId
    /\ writer' = [writer EXCEPT ![w].pc = "written", ![w].write = [merge |-> merge, kind |-> kind]]

(* The directory is made, and the Session enters the index, before its first   *)
(* event.                                                                      *)
CreateDir(w) ==
    /\ Free /\ place = "none" /\ writer[w].pc = "idle"
    /\ place' = "store"
    /\ mem' = [NoSession EXCEPT !.loaded = TRUE]
    /\ writer' = [writer EXCEPT ![w].pc = "creating"]
    /\ UNCHANGED <<daemon, log, tail, snap, turns, stream, shown, logTally, lost, stray>>

CreateEvent(w) ==
    /\ Free /\ writer[w].pc = "creating"
    /\ LogWrites(w, "created", FALSE)
    /\ UNCHANGED <<daemon, place, log, tail, snap, turns, mem, stream, shown, logTally, lost, stray>>

(* An archived Session takes no events. *)
Refused == mem.session.state = "archived"

AppendEvent(w, kind) ==
    /\ Free /\ writer[w].pc = "idle" /\ Exists
    /\ ~Refused /\ MayParse
    /\ Due(kind)
    /\ LogWrites(w, kind, Mergeable(kind))
    /\ mem' = Parsed /\ Trims
    /\ UNCHANGED <<daemon, place, log, snap, turns, stream, shown, logTally, lost, stray>>

Archive(w) ==
    /\ Free /\ writer[w].pc = "idle" /\ Exists
    /\ IF Refused THEN place = "store" /\ writer' = [writer EXCEPT ![w].pc = "moving"]
       ELSE mem.session.state = "stopped" /\ LogWrites(w, "archived", FALSE)
    /\ UNCHANGED <<daemon, place, log, tail, snap, turns, mem, stream, shown, logTally, lost, stray>>

Grown(events) == [events EXCEPT ![Len(events)].text = @ + 1]
NewLine(write) == Line(mem.session.last + 1, write.kind)

(* The file and the events in memory with the write in them. What is appended  *)
(* to a cut line shares its fate.                                              *)
FileWith(write) ==
    IF write.merge THEN Grown(log)
    ELSE Append(log, IF tail = "cut" THEN Unreadable ELSE NewLine(write))

EventsWith(write) ==
    CASE write.merge -> Grown(mem.events)
      [] ~write.merge /\ mem.loaded -> Append(mem.events, NewLine(write))
      [] OTHER -> mem.events

(* The line is durable: memory and the metadata readers see follow at once. A  *)
(* merge gives its subscribers the fragment under the old id.                  *)
Synced(w) ==
    LET write == writer[w].write
        event == IF write.merge THEN Line(mem.session.last, write.kind) ELSE NewLine(write)
    IN /\ Up /\ writer[w].pc = "written"
       /\ log' = FileWith(write) /\ tail' = "clean"
       /\ mem' = [mem EXCEPT !.events = EventsWith(write), !.session = ApplyEvent(@, event), !.stamp = FALSE]
       /\ writer' = [writer EXCEPT ![w].pc = "synced", ![w].frame = [id |-> event.id, text |-> event.text]]
       /\ UNCHANGED <<daemon, place, snap, turns, stream, shown, logTally, lost, stray>>

(* What a write that was not completed leaves in the file: nothing, all of it, *)
(* a line without its end, or, over the old line, one that ends where the old  *)
(* one ended and is neither.                                                   *)
Remains(write) ==
    {[log |-> log, tail |-> tail], [log |-> FileWith(write), tail |-> "clean"]}
    \cup (IF write.merge THEN {[log |-> Front(log), tail |-> "cut"], [log |-> Append(Front(log), Unreadable), tail |-> "clean"]}
          ELSE {[log |-> log, tail |-> "cut"]})

(* The projection did not get the record of the Turn the last event is about. *)
TurnRecordDue(write) == ~write.merge /\ write.kind \in {"start", "end"}
RecordOf(write) == <<mem.session.turns + (IF write.kind = "start" THEN 1 ELSE 0), write.kind>>
Unprojected(record) == lost' = lost \cup {record}

(* The write or the sync fails. Memory stays as it was; a merge becomes an     *)
(* append. (A create that fails is withdrawn as a whole: no case here.)        *)
WriteFails(w) ==
    LET write == writer[w].write
    IN /\ Up /\ writer[w].pc = "written" /\ write.kind # "created"
       /\ write.merge => HasId
       /\ LogFault
       /\ writer' = [writer EXCEPT ![w] = IF write.merge THEN [@ EXCEPT !.write.merge = FALSE] ELSE AtRest]
       /\ \E r \in Remains(write) :
             /\ log' = r.log /\ tail' = r.tail
             /\ stray' = (stray \/ r # [log |-> log, tail |-> tail])
             /\ IF r.log # log /\ TurnRecordDue(write) THEN Unprojected(RecordOf(write)) ELSE UNCHANGED lost
       /\ UNCHANGED <<daemon, place, snap, turns, mem, stream, shown>>

(* The snapshot follows the log. When it cannot be written the caller gets an  *)
(* error, and neither the projection nor the subscribers get the event, though *)
(* it is durable. (Of a create: as above.)                                     *)
RecordDone(write) == <<mem.session.turns, write.kind>>

Snapshots(w) ==
    /\ Up /\ writer[w].pc = "synced"
    /\ \/ /\ snap' = mem.session
          /\ writer' = [writer EXCEPT ![w].pc = "snapped"]
          /\ UNCHANGED <<logTally, lost>>
       \/ /\ writer[w].write.kind # "created"
          /\ LogFault
          /\ writer' = [writer EXCEPT ![w] = AtRest]
          /\ IF TurnRecordDue(writer[w].write) THEN Unprojected(RecordDone(writer[w].write)) ELSE UNCHANGED lost
          /\ UNCHANGED snap
    /\ UNCHANGED <<daemon, place, log, tail, turns, mem, stream, shown, stray>>

(* The record of a Turn that starts or ends; a failure is swallowed. *)
Projects(w) ==
    LET write == writer[w].write
        t == mem.session.turns
    IN /\ Up /\ writer[w].pc = "snapped"
       /\ writer' = [writer EXCEPT ![w].pc = "publish"]
       /\ \/ /\ ~TurnRecordDue(write) /\ UNCHANGED <<turns, lost, logTally>>
          \/ /\ TurnRecordDue(write)
             /\ turns' = [turns EXCEPT ![t] = TurnsOf(mem.events)[t]]
             /\ lost' = lost \ {RecordDone(write)}
             /\ UNCHANGED logTally
          \/ TurnRecordDue(write) /\ LogFault /\ Unprojected(RecordDone(write)) /\ UNCHANGED turns
       /\ UNCHANGED <<daemon, place, log, tail, snap, mem, stream, shown, stray>>

(* With the lock released the subscribers are told; a full queue ends the      *)
(* subscription.                                                               *)
EventPublishes(w) ==
    /\ Up /\ writer[w].pc = "publish"
    /\ writer' = [writer EXCEPT ![w] = IF @.write.kind = "archived" THEN [AtRest EXCEPT !.pc = "moving"] ELSE AtRest]
    /\ stream' = IF stream.pc = "off" \/ stream.overflow THEN stream
                 ELSE IF Len(stream.queue) < QueueSize THEN [stream EXCEPT !.queue = Append(@, writer[w].frame)]
                 ELSE [stream EXCEPT !.overflow = TRUE]
    /\ UNCHANGED <<daemon, place, log, tail, snap, turns, mem, shown, logTally, lost, stray>>

(* The directory moves, or stays with a Session that is archived all the same. *)
Moves(w) ==
    /\ Free /\ writer[w].pc = "moving"
    /\ writer' = [writer EXCEPT ![w] = AtRest]
    /\ \/ place' = "archive" /\ UNCHANGED logTally
       \/ LogFault /\ UNCHANGED place
    /\ UNCHANGED <<daemon, log, tail, snap, turns, mem, stream, shown, lost, stray>>

--------------------------------------------------------------------------------
(* Crash and start.                                                            *)

Underway == {writer[w].write : w \in {v \in Writers : writer[v].pc = "written"}}
Unfinished == {writer[w].write : w \in {v \in Writers : writer[v].pc \in {"synced", "snapped"}}}

Crash ==
    /\ Up /\ logTally.crashes < MaxCrashes
    /\ logTally' = [logTally EXCEPT !.crashes = @ + 1]
    /\ \/ /\ Underway = {}
          /\ lost' = lost \cup {RecordDone(write) : write \in {v \in Unfinished : TurnRecordDue(v)}}
          /\ UNCHANGED <<log, tail, stray>>
       \/ \E write \in Underway : \E r \in Remains(write) :
             /\ log' = r.log /\ tail' = r.tail
             /\ stray' = (stray \/ (write.merge /\ Last(r.log) = Unreadable))
             /\ IF r.log # log /\ TurnRecordDue(write) THEN Unprojected(RecordOf(write)) ELSE UNCHANGED lost
    /\ daemon' = "down"
    /\ mem' = NoSession
    /\ writer' = [w \in Writers |-> AtRest]
    /\ stream' = Off
    /\ UNCHANGED <<place, snap, turns, shown>>

(* The snapshot is taken when the last line is whole and carries its cursor. *)
Trusted == tail = "clean" /\ snap.last > 0 /\ log # <<>> /\ snap.last = Last(log).id

(* A file that ends inside a line loses that line; a line that is no record,   *)
(* and an id that comes twice, cannot be mended.                               *)
Repairable == Readable /\ log # <<>>

(* A log beyond repair, or without a record, ends the start of the daemon. An  *)
(* archived Session still in the store is moved, if it can be.                 *)
OpenStore ==
    /\ daemon = "down"
    /\ IF place # "none" /\ ~Trusted /\ ~Repairable
       THEN daemon' = "failed" /\ UNCHANGED <<place, tail, snap, mem, logTally, stray>>
       ELSE /\ daemon' = "up"
            /\ tail' = "clean"
            /\ stray' = (Trusted /\ stray)
            /\ LET session == IF Trusted THEN snap ELSE ProjectionOf(log)
                   archived == session.state = "archived" \/ place = "archive"
               IN /\ snap' = session
                  /\ \/ /\ place' = IF archived THEN "archive" ELSE place
                        /\ UNCHANGED logTally
                     \/ archived /\ place = "store" /\ LogFault /\ UNCHANGED place
                  /\ mem' = IF place = "none" THEN NoSession
                            ELSE [loaded |-> ~Trusted, events |-> IF Trusted THEN <<>> ELSE log,
                                  session |-> IF archived THEN [session EXCEPT !.state = "archived"] ELSE session,
                                  stamp |-> FALSE]
    /\ UNCHANGED <<log, turns, writer, stream, shown, lost>>

--------------------------------------------------------------------------------
(* Reading the Turns.                                                          *)

(* Mutant of Stale: an open record is taken for the truth. *)
StaleUnlessEmpty == turns = [t \in Ids |-> "none"] \/ (mem.session.open /\ ~mem.stamp)

(* The projection is rebuilt when it is not there, when it has an open Turn    *)
(* and the Session has none, and when a Turn is open and the projection has    *)
(* not seen this revision of it.                                               *)
Stale ==
    \/ turns = [t \in Ids |-> "none"]
    \/ ~mem.session.open /\ \E t \in Ids : turns[t] = "open"
    \/ mem.session.open /\ ~mem.stamp

TurnView == IF Stale THEN TurnsOf(History) ELSE turns

(* The projection is replaced as a whole. *)
Rewritten(events) == turns' = TurnsOf(events) /\ lost' = {}

ReadTurns ==
    /\ Free /\ Exists /\ Stale /\ MayParse
    /\ Rewritten(History)
    /\ mem' = [Parsed EXCEPT !.stamp = TRUE] /\ Trims
    /\ UNCHANGED <<daemon, place, log, snap, writer, stream, shown, logTally, stray>>

--------------------------------------------------------------------------------
(* The stream and its client.                                                  *)

Cursor == Max({0} \cup {i \in Ids : shown[i] # {}})

(* The queue is installed, then the durable mark is read. *)
Subscribed == [Off EXCEPT !.pc = "resend", !.high = mem.session.last, !.sent = Cursor]

(* A cursor ahead of the mark is refused, and the client begins anew. *)
Connect ==
    /\ Up /\ Exists /\ stream.pc = "off" /\ logTally.connects < MaxConnects
    /\ logTally' = [logTally EXCEPT !.connects = @ + 1]
    /\ IF Cursor > mem.session.last
       THEN shown' = [i \in Ids |-> {}] /\ UNCHANGED stream
       ELSE stream' = Subscribed /\ UNCHANGED shown
    /\ UNCHANGED <<daemon, place, log, tail, snap, turns, mem, writer, lost, stray>>

(* The event at the cursor may have grown: it is sent once more. *)
TextOf(id) == {History[i].text : i \in {j \in DOMAIN History : History[j].id = id}}
Resends == shown' = IF stream.sent > 0 THEN [shown EXCEPT ![stream.sent] = TextOf(stream.sent)] ELSE shown

Resend ==
    /\ Free /\ stream.pc = "resend"
    /\ IF MayParse \/ stream.sent = 0
       THEN /\ Resends
            /\ stream' = [stream EXCEPT !.pc = IF stream.sent < stream.high THEN "replay" ELSE "live"]
       ELSE stream' = Off /\ UNCHANGED shown
    /\ IF MayParse /\ stream.sent > 0 THEN mem' = Parsed /\ Trims ELSE UNCHANGED <<mem, tail>>
    /\ UNCHANGED <<daemon, place, log, snap, turns, writer, logTally, lost, stray>>

(* One page holds everything up to the mark. *)
Replay ==
    /\ Free /\ stream.pc = "replay"
    /\ IF stream.overflow \/ ~MayParse THEN stream' = Off /\ UNCHANGED <<shown, mem, tail>>
       ELSE /\ shown' = [i \in Ids |-> IF i \in stream.sent + 1 .. stream.high THEN TextOf(i) ELSE shown[i]]
            /\ stream' = [stream EXCEPT !.pc = "live", !.sent = stream.high]
            /\ mem' = Parsed /\ Trims
    /\ UNCHANGED <<daemon, place, log, snap, turns, writer, logTally, lost, stray>>

(* Mutant of InSequence: any event of the queue goes out. *)
InAnySequence(frame) == TRUE

(* An event goes out only behind its predecessor. *)
InSequence(frame) == frame.id = stream.sent + 1

(* What arrives under an id the client has is passed on as an addition to it,  *)
(* be it a fragment or the event itself; a new event advances the cursor;      *)
(* anything else ends the connection.                                          *)
Forward ==
    /\ Up /\ stream.pc = "live" /\ stream.queue # <<>>
    /\ LET frame == Head(stream.queue)
       IN IF stream.overflow \/ (frame.id > stream.sent /\ ~InSequence(frame))
          THEN stream' = Off /\ UNCHANGED shown
          ELSE /\ stream' = [stream EXCEPT !.queue = Tail(@), !.sent = Max({@, frame.id})]
               /\ shown' = [shown EXCEPT ![frame.id] =
                               IF frame.id <= stream.sent THEN {n + frame.text : n \in @} ELSE {frame.text}]
    /\ UNCHANGED <<daemon, place, log, tail, snap, turns, mem, writer, logTally, lost, stray>>

Disconnect ==
    /\ stream.pc # "off"
    /\ stream' = Off
    /\ UNCHANGED <<daemon, place, log, tail, snap, turns, mem, writer, shown, logTally, lost, stray>>

LogNext ==
    \/ \E w \in Writers : \/ CreateDir(w) \/ CreateEvent(w) \/ Archive(w) \/ Synced(w) \/ WriteFails(w) \/ Snapshots(w)
                          \/ Projects(w) \/ EventPublishes(w) \/ Moves(w)
                          \/ \E kind \in Appended : AppendEvent(w, kind)
    \/ Crash \/ OpenStore \/ ReadTurns \/ Connect \/ Resend \/ Replay \/ Forward \/ Disconnect

--------------------------------------------------------------------------------
(* Properties                                                                  *)

(* What the Session has in memory is what its log says, so that the next id is *)
(* a fresh one: over crashes between log and snapshot, failing snapshots, and  *)
(* failing writes of the log that left nothing behind (appendLocked,           *)
(* loadTrustedSnapshot).  Where a failed write left something, and until the   *)
(* log was read again, it is not so: see the README, divergences.              *)
MemoryIsLog ==
    Free /\ Exists /\ ~stray =>
        Readable /\ mem.session = ProjectionOf(log) /\ (mem.loaded => mem.events = log)

(* The next start of the daemon reads the log, however often it crashed inside *)
(* an append: only a write over the last line that was torn, a failed write,   *)
(* or a Session that died before its first event ends it (Open).               *)
OpensAgain == daemon = "failed" => stray \/ log = <<>>

(* Nothing follows the archived event, and a directory in the archive has it   *)
(* (Archive, store.go:628), with the same exception.                           *)
ArchivedIsLast ==
    ~stray => /\ IdsOf(log, "archived") # {} => Last(log).kind = "archived"
              /\ place = "archive" => IdsOf(log, "archived") # {}

(* Every Turn that ended is served as ended, unless neither of its records     *)
(* reached the projection (turnRecordsLocked, turns.go:121).                   *)
NoRecordOf(t) == {<<t, "start">>, <<t, "end">>} \subseteq lost
EndedTurnsAreServed ==
    Free /\ Exists /\ MayParse =>
        \A t \in Ids : TurnsOf(History)[t] = "closed" /\ ~NoRecordOf(t) => TurnView[t] = "closed"

(* The client has every event up to its cursor: publications out of order,     *)
(* events that were never published and full queues end the connection and     *)
(* leave no gap (events, server.go:1398).                                      *)
NoGap == \A i \in 1..Cursor : shown[i] # {}

(* When nothing is under way, the newest event of a live client is complete:   *)
(* fragments folded into it while the client was away are not missing, unless  *)
(* the snapshot of one could not be written.                                   *)
TailIsComplete ==
    Up /\ logTally.faults = 0 /\ stream.pc = "live" /\ stream.queue = <<>> /\ ~stream.overflow
       /\ (\A w \in Writers : writer[w].pc \in {"idle", "moving"}) /\ Cursor = mem.session.last /\ Cursor > 0
       => \A n \in shown[Cursor], m \in TextOf(Cursor) : n >= m

(* The daemon tells of a Session what its log says, over crashes, torn writes  *)
(* and failing writes.                                                         *)
LogServed == MemoryIsLog /\ OpensAgain /\ ArchivedIsLast /\ EndedTurnsAreServed

(* A client misses nothing behind its cursor, nor the end of the newest event. *)
StreamComplete == NoGap /\ TailIsComplete

(* A client never shows more than the log has: the queue installed before the  *)
(* mark is read removes the race between history and live events (Subscribe,   *)
(* store.go:861).  False: see the README, divergences.                         *)
ShownOnce == Up /\ stream.pc = "live" /\ MayParse =>
                 \A i \in Ids : \A n \in shown[i], m \in TextOf(i) : n <= m

(* A crash never keeps the daemon from starting (README of AgentHub, 410: an   *)
(* interrupted write is repaired at startup).  False.                          *)
AlwaysOpens == daemon # "failed"

(* A failed write leaves the log as it was (store.go:570).  False.             *)
FailedWritesLeaveNothing == ~stray
================================================================================
