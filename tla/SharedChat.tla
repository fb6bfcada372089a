------------------------------ MODULE SharedChat ------------------------------
(***************************************************************************)
(* The Chat of one resource: the record every Workspace user shares, the   *)
(* deliveries that turn its inputs into mailbox messages of the resource,  *)
(* and the per-user records of earlier versions, merged into it the first  *)
(* time anything asks for the Chat.  Every operation loads the record,     *)
(* changes it and replaces its file under one mutex, so an operation is    *)
(* one step; the mailbox is another file, so a pass of the reconciler may  *)
(* reach the mailbox and not the record.                                   *)
(*                                                                         *)
(* Texts are left out: a retried message carries the same text, and one    *)
(* whose text differs is refused without any change of state.              *)
(***************************************************************************)
EXTENDS Naturals, Sequences, SequencesExt, FiniteSets, FiniteSetsExt

CONSTANTS Users,        \* the people a Workspace may register
          Agent,        \* writes the public replies
          Inputs,       \* ids of messages written in the web interface
          Replies,      \* ids the Agent publishes under
          None,         \* no route, no earlier record
          Earlier,      \* the records of earlier versions a Workspace may hold
          MaxMessages,  \* bound on the length of the history
          MaxEpoch      \* bound on the epoch of the Chat

VARIABLES chat,         \* the shared record
          legacy,       \* the records of earlier versions, by user
          users,        \* the registered users
          archived,     \* whether the resource is archived
          mailbox       \* the chat messages the resource's mailbox accepted

chatVars == <<chat, legacy, users, archived, mailbox>>
-----------------------------------------------------------------------------
(* A message: who wrote it, the id its writer gave it, the Telegram route  *)
(* it came from, the earlier record it was merged from and its place       *)
(* there, and the record whose capability published it.  Ids are tuples:   *)
(* <<client>> unless another message has that id.                          *)
Message(by, client, id, origin, cap) ==
    [by |-> by, client |-> client, id |-> id, origin |-> origin,
     source |-> None, index |-> 0, cap |-> cap]

(* The delivery of an input, <<user, client>>, to the execution mailbox.   *)
Delivery(id, input, epoch, source) ==
    [id |-> id, input |-> input, epoch |-> epoch, source |-> source, accepted |-> FALSE]

NoChat == [made |-> FALSE, open |-> FALSE, epoch |-> 0, start |-> 0, end |-> 0,
           messages |-> <<>>, outbox |-> <<>>, sources |-> [u \in {} |-> None]]

HasId(c, id) == \E i \in DOMAIN c.messages : c.messages[i].id = id

Revoked(c, gone) ==
    [c EXCEPT !.sources = [u \in DOMAIN c.sources |->
        [c.sources[u] EXCEPT !.open = @ /\ u \notin gone]]]

(* Opening starts an epoch: earlier capabilities end, and what the history *)
(* holds so far belongs to earlier epochs.                                 *)
Opened(c) == [Revoked(c, Users) EXCEPT !.open = TRUE, !.epoch = @ + 1, !.start = Len(c.messages)]

Closed(c) == [Revoked(c, Users) EXCEPT !.open = FALSE]

HasInput(c, user, client) ==
    \E i \in DOMAIN c.messages : c.messages[i].by = user /\ c.messages[i].client = client

(* An input and its delivery are appended together; one that is there      *)
(* already is acknowledged without a change.                               *)
WithInput(c, user, client, origin) ==
    LET id == IF HasId(c, <<client>>) THEN <<user, client>> ELSE <<client>>
    IN  IF HasInput(c, user, client) THEN c
        ELSE [c EXCEPT !.messages = Append(@, Message(user, client, id, origin, None)),
                       !.outbox = Append(@, Delivery(id, <<user, client>>, c.epoch, None))]

(* A reply under the capability of the epoch, or under one of an earlier   *)
(* record (cap), whose ids may collide with those of other records.        *)
WithReply(c, client, cap) ==
    LET Same(m) == m.client = client /\ m.cap = cap
        id == IF cap # None /\ HasId(c, <<client>>) THEN <<cap, 0, client>> ELSE <<client>>
    IN  IF \/ cap # None /\ \E i \in DOMAIN c.messages : Same(c.messages[i])
           \/ HasId(c, id)
        THEN c
        ELSE [c EXCEPT !.messages = Append(@, Message(Agent, client, id, None, cap))]
-----------------------------------------------------------------------------
(* Earlier versions kept a record per user: its history, its deliveries,   *)
(* and, in version 2, a dialogue of its own that executed the inputs; the  *)
(* mailbox of that dialogue holds an input as "queued" or "attempted".     *)
Present == {u \in Users : legacy[u] # None}
Active(u) == legacy[u].open /\ u \in users

(* What the dialogue never attempted is moved to the resource.             *)
Moves(u, d) ==
    LET r == legacy[u]
        known == d.input \in DOMAIN r.dialogue
    IN  /\ r.version = 2 /\ d.epoch = r.epoch
        /\ IF known THEN r.dialogue[d.input] = "queued" ELSE ~d.accepted

(* What version 3 had not handed to the resource yet is kept.              *)
Keeps(u, d) == legacy[u].version = 3 /\ ~d.accepted /\ d.epoch = legacy[u].epoch

CarriedOver(u, epoch) ==
    LET Carries(d) == Active(u) /\ (Moves(u, d) \/ Keeps(u, d))
        carried == SelectSeq(legacy[u].outbox, Carries)
    IN  [i \in DOMAIN carried |->
            Delivery(IF legacy[u].version = 2 THEN <<"migrated", carried[i].input[2]>>
                     ELSE <<carried[i].input[2]>>, carried[i].input, epoch, u)]

Places == UNION {{u} \X DOMAIN legacy[u].messages : u \in Present}

(* Mutant of NotBefore: a message has its place by its own time alone.     *)
SaidAt(p) == legacy[p[1]].messages[p[2]].time

(* The histories are merged by time while each keeps its own order: a      *)
(* message comes no earlier than those before it in its own record.        *)
NotBefore(p) == Max({legacy[p[1]].messages[i].time : i \in 1 .. p[2]})
UserOrder == SetToSeq(Users)
Turn(u) == CHOOSE n \in DOMAIN UserOrder : UserOrder[n] = u
Precedes(p, q) ==
    \/ NotBefore(p) < NotBefore(q)
    \/ NotBefore(p) = NotBefore(q) /\ Turn(p[1]) < Turn(q[1])
    \/ NotBefore(p) = NotBefore(q) /\ p[1] = q[1] /\ p[2] < q[2]
Merged == SetToSortSeq(Places, Precedes)

MergedMessage(k) ==
    LET u == Merged[k][1]
        i == Merged[k][2]
        old == legacy[u].messages[i]
        taken == \E j \in 1 .. k - 1 : legacy[Merged[j][1]].messages[Merged[j][2]].client = old.client
    IN  [Message(IF old.by = Agent THEN Agent ELSE u, old.client,
                 IF taken THEN <<u, i, old.client>> ELSE <<old.client>>, None, u)
            EXCEPT !.source = u, !.index = i - 1]

(* The shared record: the histories, a new epoch when any record was open, *)
(* and what remains to be executed.                                        *)
MergedChat ==
    LET open == \E u \in Present : Active(u)
        epoch == Max({0} \cup {legacy[u].epoch : u \in Present}) + (IF open THEN 1 ELSE 0)
        order == SelectSeq(UserOrder, LAMBDA u : u \in Present)
    IN  [made |-> TRUE, open |-> open, epoch |-> epoch,
         start |-> Cardinality(Places), end |-> Cardinality(Places),
         messages |-> [k \in 1 .. Cardinality(Places) |-> MergedMessage(k)],
         outbox |-> FlattenSeq([i \in DOMAIN order |-> CarriedOver(order[i], epoch)]),
         sources |-> [u \in Present |->
            [open |-> Active(u), epoch |-> legacy[u].epoch,
             ids |-> [i \in DOMAIN legacy[u].messages |->
                MergedMessage(CHOOSE k \in DOMAIN Merged : Merged[k] = <<u, i>>).id]]]]

(* Whatever asks for the Chat makes the record first.                      *)
Ensured == IF chat.made THEN chat ELSE MergedChat
-----------------------------------------------------------------------------
ChatInit ==
    /\ legacy \in Earlier
    /\ chat = NoChat
    /\ users = Users
    /\ archived = FALSE
    /\ mailbox = UNION {{[source |-> u, id |-> <<input[2]>>, input |-> input] :
                            input \in legacy[u].handed} : u \in Present}

Saves(c) ==
    /\ Len(c.messages) <= MaxMessages
    /\ c.epoch <= MaxEpoch
    /\ chat' = c

UserWrites(user, client) ==
    /\ user \in users /\ ~archived
    /\ Ensured.open
    /\ Saves(WithInput(Ensured, user, client, None))
    /\ UNCHANGED <<legacy, users, archived, mailbox>>

AgentPublishes(client, cap) ==
    /\ Ensured.open /\ ~archived
    /\ cap # None => cap \in DOMAIN Ensured.sources /\ Ensured.sources[cap].open /\ cap \in users
    /\ Saves(WithReply(Ensured, client, cap))
    /\ UNCHANGED <<legacy, users, archived, mailbox>>

Opens ==
    /\ ~archived
    /\ Saves(IF Ensured.open THEN Ensured ELSE Opened(Ensured))
    /\ UNCHANGED <<legacy, users, archived, mailbox>>

Closes ==
    /\ ~archived
    /\ Saves(Closed(Ensured))
    /\ UNCHANGED <<legacy, users, archived, mailbox>>

Reads ==
    /\ Saves(Ensured)
    /\ UNCHANGED <<legacy, users, archived, mailbox>>

Archives ==
    /\ archived' = ~archived
    /\ UNCHANGED <<chat, legacy, users, mailbox>>

(* Deleting a user ends the capabilities of the user's earlier record; the *)
(* last user cannot be deleted.                                            *)
DeletesUser(user) ==
    /\ user \in users /\ Cardinality(users) > 1
    /\ chat' = IF Present # {} \/ chat.made THEN Revoked(Ensured, {user}) ELSE chat
    /\ users' = users \ {user}
    /\ UNCHANGED <<legacy, archived, mailbox>>

Registers(user) ==
    /\ users' = users \cup {user}
    /\ UNCHANGED <<chat, legacy, archived, mailbox>>
-----------------------------------------------------------------------------
(* A pass of the reconciler.  An input of an epoch that ended, or of an    *)
(* earlier record whose capability ended, is settled without execution;    *)
(* the others are accepted by the mailbox, which knows a message by its id.*)
Ends(c, d) ==
    \/ ~c.open \/ archived \/ d.epoch # c.epoch
    \/ d.source # None /\ ~c.sources[d.source].open

Due(c) == {i \in DOMAIN c.outbox : ~c.outbox[i].accepted /\ ~Ends(c, c.outbox[i])}

AcceptedFrom(c, positions) ==
    mailbox \cup {[source |-> c.outbox[i].source, id |-> c.outbox[i].id, input |-> c.outbox[i].input] :
                    i \in positions}

Reconciled(c) ==
    [c EXCEPT !.outbox = [i \in DOMAIN @ |-> [@[i] EXCEPT !.accepted = TRUE]]]

Reconciles ==
    LET c == Revoked(Ensured, Users \ users)
    IN  /\ Present # {} \/ chat.made
        /\ mailbox' = AcceptedFrom(c, Due(c))
        /\ Saves(Reconciled(c))
        /\ UNCHANGED <<legacy, users, archived>>

(* The pass stops after some of the messages were accepted: a failure, or  *)
(* the end of the process.  The record is as it was.                       *)
ReconcileStops ==
    LET c == Revoked(Ensured, Users \ users)
    IN  /\ Present # {} \/ chat.made
        /\ \E n \in Due(c) : mailbox' = AcceptedFrom(c, {i \in Due(c) : i <= n})
        /\ Saves(Ensured)
        /\ UNCHANGED <<legacy, users, archived>>
-----------------------------------------------------------------------------
ChatNext(free) ==
    \/ \E user \in Users, client \in Inputs : UserWrites(user, client)
    \/ \E client \in Replies, cap \in Users \cup {None} : AgentPublishes(client, cap)
    \/ free /\ Opens
    \/ free /\ Closes
    \/ Reads
    \/ Archives
    \/ \E user \in Users : Registers(user)
    \/ Reconciles
    \/ ReconcileStops
-----------------------------------------------------------------------------
(* An input is handed to execution at most once: by the dialogue that had  *)
(* attempted it before the merge, or by one message of the resource's      *)
(* mailbox, whatever was retried, merged or interrupted (appendUserInput,  *)
(* the outbox of migrateUserChat, reconcileChat).                          *)
Attempted(input) ==
    \E u \in Present : input \in DOMAIN legacy[u].dialogue /\ legacy[u].dialogue[input] = "attempted"
InputOnce ==
    \A e \in mailbox :
        /\ ~Attempted(e.input)
        /\ \A f \in mailbox : f.input = e.input => f = e

(* The history is never rewritten and names each message once; every       *)
(* delivery is for an input it shows, and what was merged from an earlier  *)
(* record is all there in the order of that record (ensureChatLocked).     *)
HistoryKept ==
    chat.made =>
        /\ \A i, j \in DOMAIN chat.messages : chat.messages[i].id = chat.messages[j].id => i = j
        /\ \A k \in DOMAIN chat.outbox :
                HasInput(chat, chat.outbox[k].input[1], chat.outbox[k].input[2])
        /\ \A u \in Present :
                LET mine == SelectSeq(chat.messages, LAMBDA m : m.source = u)
                IN  [i \in DOMAIN mine |-> mine[i].client]
                        = [i \in DOMAIN legacy[u].messages |-> legacy[u].messages[i].client]
=============================================================================
