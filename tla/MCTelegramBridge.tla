--------------------------- MODULE MCTelegramBridge ---------------------------
EXTENDS TelegramBridge

CONSTANTS owner, other, i1, r1, Scope

(* What a Workspace may hold when it is started: nothing, a version 3      *)
(* record with a delivery the process had handed over without a note, or   *)
(* two version 2 records of which one was executed in part.                *)
Nothing == [u \in Users |-> None]

Said(client, time) == [by |-> "user", client |-> client, time |-> time]
Reply(client, time) == [by |-> Agent, client |-> client, time |-> time]
Out(u, client, epoch, accepted) == [input |-> <<u, client>>, epoch |-> epoch, accepted |-> accepted]

Version3 ==
    [version |-> 3, open |-> TRUE, epoch |-> 1, messages |-> <<Reply(r1, 2), Said(i1, 1)>>,
     outbox |-> <<Out(owner, i1, 1, FALSE)>>, dialogue |-> [x \in {} |-> None],
     handed |-> {<<owner, i1>>}]

Version2(u, state) ==
    [version |-> 2, open |-> TRUE, epoch |-> 1, messages |-> <<Said(i1, 2)>>,
     outbox |-> <<Out(u, i1, 1, TRUE)>>, dialogue |-> (<<u, i1>> :> state), handed |-> {}]

MCEarlier ==
    {Nothing, [Nothing EXCEPT ![owner] = Version3],
     [u \in Users |-> IF u = owner THEN Version2(u, "attempted") ELSE Version2(u, "queued")]}

(* The connection of such a Workspace: paired, with the route of the       *)
(* earlier record where there is one.                                      *)
Connected(route) == [NoConnection EXCEPT !.enabled = TRUE, !.paired = TRUE, !.route = route]

OldRoute(cursor) ==
    [NewRoute EXCEPT !.thread = 1, !.epoch = 1, !.cursor = cursor, !.paused = FALSE, !.reason = "none"]

Underway(at, status) == [at |-> at, part |-> Min(Parts), status |-> status]

(* A behaviour is about one of these at a time, and a run about those of   *)
(* its Scope; the state space of all of them together is out of reach.     *)
VARIABLE focus

MCInit ==
    /\ focus \in Scope /\ ChatInit /\ BridgeInit
    /\ \/ focus = "merge" /\ disk = NoConnection
       \/ focus = "input" /\ legacy = Nothing
          /\ disk = [NoConnection EXCEPT !.enabled = TRUE, !.code = TRUE]
       \/ focus = "deliver" /\ legacy[owner] = Version3 /\ disk = Connected(OldRoute(0))
       \/ focus = "deliver" /\ legacy \notin {Nothing, [Nothing EXCEPT ![owner] = Version3]}
          /\ disk = Connected([OldRoute(0) EXCEPT !.pending = Underway(1, "sending")])
       \/ focus = "bind" /\ legacy[owner] = Version3
          /\ disk \in {Connected(OldRoute(0)), Connected(NewRoute),
                       Connected(Paused(OldRoute(1), "deleted")), Connected(Paused(OldRoute(0), "manual"))}

Quiet == ChatMoves /\ chat'.messages = chat.messages /\ UNCHANGED users
Talks == ChatMoves /\ UNCHANGED <<users, archived, mailbox>>
Unhandled == chat.made => IsPrefix(chat.outbox, chat'.outbox)   \* no pass of the reconciler
Running == Worker \/ PollFails \/ ProcessFails \/ Halts
DeliveryPage == RetriesDelivery \/ SkipsDelivery \/ Acknowledges
SentTo(threads, kinds) == \E kind \in kinds, thread \in threads : AccountSends(kind, thread)
Sent(kinds) == SentTo(Threads, kinds)

MergeStep ==
    /\ focus = "merge" /\ UNCHANGED focus
    /\ ChatMoves \/ \E user \in Users : DeletesUsers(user)

InputStep ==
    /\ focus = "input" /\ UNCHANGED focus
    /\ \/ SentTo({0, 1}, {"pair", "text"}) \/ (server.next = 1 /\ Sent({"open"}))
       \/ (Quiet /\ (archived => archived')) \/ Running \/ Page

DeliverStep ==
    /\ focus = "deliver" /\ UNCHANGED focus
    /\ (Talks /\ Unhandled) \/ Running \/ DeliveryPage

BindStep ==
    /\ focus = "bind" /\ UNCHANGED focus
    /\ \/ server.next = 1 /\ Sent(Kinds \ {"pair", "text"})
       \/ chat.made /\ Quiet /\ UNCHANGED <<archived, mailbox>>
       \/ Running \/ Acknowledges

MCNext == MergeStep \/ InputStep \/ DeliverStep \/ BindStep

Spec == MCInit /\ [][MCNext]_<<vars, focus>>

(* One reply, to a topic that is opened beside it, and nothing that may    *)
(* stop or repeat its delivery.                                            *)
ForwardSpec ==
    /\ ChatInit /\ BridgeInit /\ disk = Connected(None) /\ focus = "deliver"
    /\ [][UNCHANGED focus /\ (Talks \/ (mem = None /\ Sent({"open"})) \/ Worker)]_<<vars, focus>>
    /\ BridgeFairness
=============================================================================
