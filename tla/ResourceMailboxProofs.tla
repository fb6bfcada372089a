----------------------- MODULE ResourceMailboxProofs -----------------------
(* What the mailbox of a resource promises, for any messages, modes,       *)
(* faults, restarts and generations.                                       *)
EXTENDS ResourceMailbox, FiniteSetTheorems, WellFoundedInduction, TLAPS

(* A message that was handed to AgentHub: it may be an input.              *)
Flown(m) == mail[m].status \in {"delivering", "delivered", "delivery_unknown"}
Accepted == {m \in Msgs : mail[m].seq # 0}

(* Sequence numbers are given in order; an attempt names its generation.   *)
MailInv ==
  /\ \A m \in Msgs :
       /\ mail[m].status = "none" <=> mail[m].seq = 0
       /\ mail[m].seq <= Cardinality(Accepted)
       /\ mail[m].status \in PendingStatuses \union {"none"} => mail[m].fails < MaxStartFailures
       /\ mail[m].status = "interrupting" \/ Flown(m) => mail[m].gen # 0
       /\ mail[m].status = "interrupting" => mail[m].requested = "interrupt"
       /\ mail[m].gen <= lastGen
  /\ \A a, b \in Msgs : mail[a].seq = mail[b].seq /\ mail[a].seq # 0 => a = b

(* A message becomes an input only of the generation it was handed to, and *)
(* nothing that was not handed over is on its way.                         *)
InputInv ==
  /\ \A m \in Msgs, g \in Gens : hub[g].acc[m] # 0 => Flown(m) /\ g = mail[m].gen
  /\ \A m \in Msgs : mail[m].status = "delivered" => hub[mail[m].gen].acc[m] # 0
  /\ \A q \in late : Flown(q.msg) /\ q.gen = mail[q.msg].gen

(* What the job waits for is still so when its answer comes.               *)
JobInv ==
  /\ w.pc \notin {"idle", "recover", "pass"} => Current
  /\ w.pc \notin {"idle", "recover", "pass", "create"} => Bound
  /\ w.pc = "create" /\ w.msg # NoMessage => mail[w.msg].status \in PendingStatuses
  /\ w.pc = "resume" => w.msg \in Msgs /\ mail[w.msg].status \in PendingStatuses
  /\ w.pc = "deliver" => /\ w.msg \in Msgs /\ mail[w.msg].status = "delivering"
                         /\ mail[w.msg].gen = rec.gen

GenInv ==
  /\ Current => rec.gen = lastGen
  /\ Bound => S.st # "none"
  /\ \A g \in Gens : hub[g].st = "running" => hub[g].last # 0

IInv == TypeOK /\ MailInv /\ InputInv /\ JobInv /\ GenInv

(* Behind an enqueued message that was handed over all earlier are settled.*)
Enqueued(m) == mail[m].requested = "enqueue" /\ ~mail[m].promoted
OrderInv ==
  \A a, b \in Msgs :
    /\ Enqueued(a) /\ Enqueued(b) /\ 0 < mail[a].seq /\ mail[a].seq < mail[b].seq /\ Flown(b)
    => mail[a].status \in Terminal

(* An interrupt is steered into a Turn only if a user promoted it.         *)
HoldInv ==
  \A m \in Msgs : mail[m].requested = "interrupt" /\ ~mail[m].promoted => mail[m].actual # "steer"

(* Where a Stop is sent nothing runs and nothing on its way can start a    *)
(* Turn; an attempt is lost sight of only when its generation is gone.     *)
StopInv ==
  ~archived =>
    /\ At("stop") => /\ S.st # "running"
                     /\ \A q \in late : q.gen = rec.gen => S.acc[q.msg] # 0
    /\ Current => \A m \in Msgs : mail[m].status = "delivery_unknown" => mail[m].gen # rec.gen

AllInv == IInv /\ OrderInv /\ HoldInv /\ StopInv

-----------------------------------------------------------------------------
USE NoMessageAssumption, MailboxAssumption

(* The least of a set of numbers.                                          *)
LEMMA MinExists ==
  ASSUME NEW T \in SUBSET Nat, T # {}
  PROVE  \E x \in T : \A y \in T : x <= y
<1>1. PICK x \in T : \A y \in T : <<y, x>> \notin OpToRel(<, Nat)
  <2>1. \E x \in T : \A y \in T : ~ (<<y, x>> \in OpToRel(<, Nat))
    BY NatLessThanWellFounded, WFMin
  <2>2. QED  BY <2>1
<1>2. ASSUME NEW y \in T PROVE x <= y
  <2>1. x \in Nat /\ y \in Nat
    OBVIOUS
  <2>2. ~ (y < x)
    BY <1>1, <2>1 DEF OpToRel
  <2>3. QED  BY <2>1, <2>2
<1>3. QED  BY <1>2

LEMMA PriorityType == \A x : Priority(x) \in 0 .. 5
BY DEF Priority

LEMMA MailTypes ==
  ASSUME TypeOK, NEW m \in Msgs
  PROVE  /\ mail[m] \in Message
         /\ mail[m].seq \in Nat /\ mail[m].fails \in Nat /\ mail[m].gen \in Nat
         /\ mail[m].gen # 0 => mail[m].gen \in Gens
BY FS_CardinalityType DEF TypeOK, Message, Gens

(* The head of the mailbox is the pending message that precedes all others.*)
LEMMA HeadPrecedes ==
  ASSUME TypeOK, MailInv
  PROVE  /\ Pendings = {} => Head = NoMessage
         /\ Pendings # {} => /\ Head \in Pendings /\ Head \in Msgs /\ Head # NoMessage
                             /\ \A o \in Pendings \ {Head} : Precedes(Head, o)
<1>1. CASE Pendings = {}
  BY <1>1 DEF Head
<1>2. CASE Pendings # {}
  <2>1. \E x \in {Priority(mail[m]) : m \in Pendings} :
          \A y \in {Priority(mail[m]) : m \in Pendings} : x <= y
    <3>1. {Priority(mail[m]) : m \in Pendings} \in SUBSET Nat
      BY PriorityType
    <3>2. {Priority(mail[m]) : m \in Pendings} # {}
      BY <1>2
    <3>3. QED  BY <3>1, <3>2, MinExists
  <2>2. PICK p \in {Priority(mail[m]) : m \in Pendings} : \A m \in Pendings : p <= Priority(mail[m])
    BY <2>1
  <2>3. DEFINE Firsts == {m \in Pendings : Priority(mail[m]) = p}
  <2>4. \E x \in {mail[m].seq : m \in Firsts} : \A y \in {mail[m].seq : m \in Firsts} : x <= y
    <3>1. {mail[m].seq : m \in Firsts} \in SUBSET Nat
      BY MailTypes DEF Pendings
    <3>2. {mail[m].seq : m \in Firsts} # {}
      BY <2>2
    <3>3. QED  BY <3>1, <3>2, MinExists
  <2>5. PICK h \in Firsts : \A m \in Firsts : mail[h].seq <= mail[m].seq
    BY <2>4
  <2>6. \A o \in Pendings \ {h} : Precedes(h, o)
    <3>1. SUFFICES ASSUME NEW o \in Pendings \ {h} PROVE Precedes(h, o)
      OBVIOUS
    <3>2. p <= Priority(mail[o]) /\ Priority(mail[h]) = p
      BY <2>2
    <3>3. mail[o].seq # 0 /\ mail[h].seq # 0 /\ o \in Msgs /\ h \in Msgs
      BY DEF Pendings, PendingStatuses, MailInv
    <3>4. mail[o].seq # mail[h].seq
      BY <3>3 DEF MailInv
    <3>5. mail[o].seq \in Nat /\ mail[h].seq \in Nat /\ Priority(mail[o]) \in Nat /\ p \in Nat
      BY <3>3, MailTypes, PriorityType
    <3>6. CASE Priority(mail[o]) = p
      <4>1. mail[h].seq <= mail[o].seq
        BY <2>5, <3>6
      <4>2. QED  BY <3>2, <3>4, <3>5, <3>6, <4>1 DEF Precedes
    <3>7. CASE Priority(mail[o]) # p
      BY <3>2, <3>5, <3>7 DEF Precedes
    <3>8. QED  BY <3>6, <3>7
  <2>7. h \in Pendings
    OBVIOUS
  <2>8. Head \in Pendings /\ \A o \in Pendings \ {Head} : Precedes(Head, o)
    BY <1>2, <2>6, <2>7 DEF Head
  <2>9. QED  BY <1>2, <2>8 DEF Pendings
<1>3. QED  BY <1>1, <1>2
(* The records a job writes.                                               *)
LEMMA RecFacts ==
  ASSUME TypeOK
  PROVE  /\ Current <=> rec \in GenRecord
         /\ Current => rec.gen \in Gens /\ rec.gen \in Nat /\ S \in Session /\ S.st \in HubStates
         /\ Bound => Current
         /\ NoRec \notin GenRecord
         /\ lastGen \in Nat
<1>1. NoRec \notin GenRecord
  BY DEF NoRec, GenRecord, Gens
<1>2. Current <=> rec \in GenRecord
  BY <1>1 DEF TypeOK, Current
<1>3. Current => rec.gen \in Gens
  BY <1>2 DEF GenRecord
<1>4. QED  BY <1>1, <1>2, <1>3 DEF TypeOK, Session, Gens, Bound, S

Like(x, r) == x \in GenRecord /\ x.gen = r.gen /\ x.bound = r.bound /\ x.replacement = r.replacement

LEMMA ReceiptLike ==
  ASSUME NEW r \in GenRecord, NEW state \in {"requested", "unknown", "succeeded", "terminal"}
  PROVE  Like(SetReceipt(r, state), r)
<1>1. [op |-> r.receipt.op, state |-> state] \in Receipts
  BY DEF GenRecord, Receipts
<1>2. QED  BY <1>1 DEF SetReceipt, Like, GenRecord

LEMMA ConfirmedLike == ASSUME NEW r \in GenRecord PROVE Like(Confirmed(r), r)
BY ReceiptLike DEF Confirmed, Like

LEMMA FailingLike == ASSUME NEW r \in GenRecord PROVE Like(Failing(r), r)
BY DEF Failing, Like, GenRecord, RecordStatuses

LEMMA ProjectedLike ==
  ASSUME NEW r \in GenRecord, NEW s, s.st \in HubStates \ {"none"}
  PROVE  Like(Projected(r, s), r)
<1>1. PICK a \in BOOLEAN, st \in RecordStatuses :
        Projected(r, s) = [r EXCEPT !.idleSleep = a, !.status = st]
  <2>1. r.idleSleep \in BOOLEAN
    BY DEF GenRecord
  <2>2. \E a \in BOOLEAN : a = (CASE s.st = "running" -> FALSE
                  [] s.st = "ready" -> r.idleSleep /\ ~Resuming(r)
                  [] OTHER -> r.idleSleep)
    BY <2>1
  <2>3. PuaStatus(s.st) \in RecordStatuses
    BY DEF PuaStatus, RecordStatuses, HubStates
  <2>4. \A a \in BOOLEAN : (IF s.st = "ready" /\ a THEN "stopping"
                ELSE IF s.st = "stopped" /\ a /\ ~r.replacement
                  THEN "idle-suspended"
                ELSE PuaStatus(s.st)) \in RecordStatuses
    BY <2>3 DEF RecordStatuses
  <2>5. QED  BY <2>2, <2>4, Zenon DEF Projected
<1>2. QED  BY <1>1 DEF Like, GenRecord

LEMMA AppliedLike ==
  ASSUME NEW r \in GenRecord, NEW s, s.st \in HubStates \ {"none"}
  PROVE  Like(Applied(r, s), r)
<1> DEFINE live == s.st \in {"ready", "running"}
           closed == IF live /\ r.receipt.op = "resume" THEN SetReceipt(r, "succeeded") ELSE r
           open == [closed EXCEPT !.backoff = @ /\ ~live]
<1>1. Like(closed, r)
  BY ReceiptLike DEF Like
<1>2. Like(open, r)
  <2> HIDE DEF closed, live
  <2>1. closed \in GenRecord /\ closed.backoff \in BOOLEAN
    BY <1>1 DEF Like, GenRecord
  <2>2. (closed.backoff /\ ~live) \in BOOLEAN
    OBVIOUS
  <2>3. PICK b \in BOOLEAN : open = [closed EXCEPT !.backoff = b]
    BY <2>2
  <2>4. QED  BY <1>1, <2>1, <2>3 DEF Like, GenRecord
<1>3. Like(Projected(open, s), open)
  <2> HIDE DEF open
  <2>1. QED  BY <1>2, ProjectedLike DEF Like
<1>4. Applied(r, s) = Projected(open, s)
  BY DEF Applied
<1>5. QED  BY <1>2, <1>3, <1>4 DEF Like

LEMMA SleepLike ==
  ASSUME NEW r \in GenRecord, NEW due
  PROVE  LET x == SleepRequested(r, due) IN x \in GenRecord /\ x.gen = r.gen /\ x.bound = r.bound
<1>1. ASSUME NEW intent PROVE StopPlanned(r, intent) \in GenRecord
                              /\ StopPlanned(r, intent).gen = r.gen
                              /\ StopPlanned(r, intent).bound = r.bound
  <2>1. [op |-> "stop", state |-> "requested"] \in Receipts
    BY DEF Receipts
  <2>2. PICK a \in BOOLEAN, b \in BOOLEAN :
          StopPlanned(r, intent) = [r EXCEPT !.replacement = a, !.idleSleep = b,
                                     !.status = "stopping",
                                     !.receipt = [op |-> "stop", state |-> "requested"]]
    <3>1. r.replacement \in BOOLEAN /\ r.idleSleep \in BOOLEAN
      BY DEF GenRecord
    <3>2. (r.replacement \/ intent = "replacement") \in BOOLEAN
          /\ (r.idleSleep \/ intent = "idle") \in BOOLEAN
      OBVIOUS
    <3>3. QED  BY <3>2, Zenon DEF StopPlanned
  <2>3. QED  BY <2>1, <2>2 DEF GenRecord, RecordStatuses
<1>2. PICK p \in GenRecord, b \in BOOLEAN :
        /\ p.gen = r.gen /\ p.bound = r.bound
        /\ SleepRequested(r, due) = [p EXCEPT !.status = "stopping", !.idleSleep = b]
  <2> DEFINE facts == Adapt(r, S, due, r.backoff)
             planned == IF PlanGeneration(facts) = "StopSession"
                          THEN StopPlanned(r, Intent(facts)) ELSE r
  <2>1. planned \in GenRecord /\ planned.gen = r.gen /\ planned.bound = r.bound
    <3> HIDE DEF facts
    <3>1. QED  BY <1>1
  <2>2. (planned.idleSleep \/ Intent(facts) = "idle") \in BOOLEAN
    OBVIOUS
  <2>3. SleepRequested(r, due) =
          [planned EXCEPT !.status = "stopping", !.idleSleep = planned.idleSleep \/ Intent(facts) = "idle"]
    BY DEF SleepRequested
  <2> HIDE DEF planned, facts
  <2>4. QED  BY <2>1, <2>2, <2>3
<1>3. QED  BY <1>2 DEF GenRecord, RecordStatuses

LEMMA NewRecordType == \A g \in Gens : NewRecord(g) \in GenRecord /\ NewRecord(g).gen = g
                                       /\ ~NewRecord(g).bound
BY DEF NewRecord, GenRecord, RecordStatuses, NoReceipt, Receipts

-----------------------------------------------------------------------------
(* AgentHub's Sessions.                                                    *)

LEMMA HubToFacts ==
  ASSUME TypeOK, NEW g \in Gens, NEW st \in HubStates, HubTo(g, st)
  PROVE  /\ hub' \in [Gens -> Session]
         /\ \A h \in Gens : hub'[h].acc = hub[h].acc /\ hub'[h].last = hub[h].last
                            /\ (h # g => hub'[h] = hub[h])
         /\ hub'[g].st = st
<1>1. hub[g] \in Session
  BY DEF TypeOK
<1>2. [hub[g] EXCEPT !.st = st] \in Session /\ [hub[g] EXCEPT !.st = st].st = st
      /\ [hub[g] EXCEPT !.st = st].acc = hub[g].acc /\ [hub[g] EXCEPT !.st = st].last = hub[g].last
  BY <1>1 DEF Session
<1>3. hub' = [hub EXCEPT ![g] = [hub[g] EXCEPT !.st = st]]
  BY DEF HubTo
<1>4. QED  BY <1>2, <1>3 DEF TypeOK

LEMMA ReplyFacts ==
  ASSUME TypeOK, NEW g \in Gens, ReplyTurn(g)
  PROVE  /\ hub' \in [Gens -> Session]
         /\ \A h \in Gens : hub'[h].acc = hub[h].acc /\ hub'[h].st = hub[h].st
                            /\ (h # g => hub'[h] = hub[h])
         /\ hub'[g].last # 0
<1>1. hub[g] \in Session /\ hub[g].last < MaxTurns /\ hub[g].last \in Nat
  BY DEF TypeOK, ReplyTurn, Session
<1>2. hub[g].last + 1 \in 0 .. MaxTurns /\ hub[g].last + 1 # 0
  BY <1>1
<1>3. LET s == [hub[g] EXCEPT !.last = hub[g].last + 1]
      IN s \in Session /\ s.st = hub[g].st /\ s.acc = hub[g].acc /\ s.last = hub[g].last + 1
  BY <1>1, <1>2 DEF Session
<1>4. hub' = [hub EXCEPT ![g] = [hub[g] EXCEPT !.last = hub[g].last + 1]]
  BY DEF ReplyTurn
<1>5. QED  BY <1>2, <1>3, <1>4 DEF TypeOK

LEMMA TakenFacts ==
  ASSUME TypeOK, GenInv, NEW g \in Gens, NEW m \in Msgs, NEW steer, CanTake(g, m, steer)
  PROVE  /\ Taken(g, m) \in Session
         /\ Taken(g, m).acc[m] # 0
         /\ \A o \in Msgs : o # m => Taken(g, m).acc[o] = hub[g].acc[o]
         /\ hub[g].acc[m] # 0 => Taken(g, m) = hub[g]
         /\ hub[g].acc[m] = 0 => Taken(g, m).st = "running"
         /\ Taken(g, m).st \in {"ready", "running", "stopped"}
         /\ Taken(g, m).st = "running" => Taken(g, m).last # 0
<1>1. hub[g] \in Session /\ hub[g].last \in Nat /\ hub[g].acc \in [Msgs -> 0 .. MaxTurns]
  BY DEF TypeOK, Session
<1>2. CASE hub[g].acc[m] # 0
  <2>1. Taken(g, m) = hub[g]
    BY <1>2 DEF Taken
  <2>2. QED  BY <1>1, <1>2, <2>1 DEF CanTake, GenInv
<1>3. CASE hub[g].acc[m] = 0
  <2>1. PICK turn \in 1 .. MaxTurns :
          Taken(g, m) = [st |-> "running", last |-> turn, acc |-> [hub[g].acc EXCEPT ![m] = turn]]
    <3>1. CASE hub[g].st = "running"
      <4>1. hub[g].last \in 1 .. MaxTurns
        BY <1>1, <3>1 DEF Session, GenInv
      <4>2. QED  BY <1>3, <3>1, <4>1 DEF Taken
    <3>2. CASE hub[g].st # "running"
      <4>1. hub[g].last < MaxTurns
        BY <1>3, <3>2 DEF CanTake
      <4>2. hub[g].last + 1 \in 1 .. MaxTurns
        BY <1>1, <4>1
      <4>3. QED  BY <1>3, <3>2, <4>2 DEF Taken
    <3>3. QED  BY <3>1, <3>2
  <2>2. [hub[g].acc EXCEPT ![m] = turn] \in [Msgs -> 0 .. MaxTurns]
    BY <1>1, <2>1
  <2>3. QED  BY <1>1, <1>3, <2>1, <2>2 DEF Session, HubStates
<1>4. QED  BY <1>2, <1>3

(* A step of AgentHub, or none.                                            *)
HubMoves == \E g \in Gens, st \in HubStates \ {"none", "running"} :
              HubTo(g, st) /\ (st = "stopping" => StopOk /\ g = rec.gen)
Takes == \E m \in Msgs, steer \in BOOLEAN :
           /\ Flown(m) /\ mail[m].gen \in Gens /\ CanTake(mail[m].gen, m, steer)
           /\ hub' = [hub EXCEPT ![mail[m].gen] = Taken(mail[m].gen, m)]

LEMMA SameHub ==
  ASSUME TypeOK, Current
  PROVE  [hub EXCEPT ![rec.gen] = S] = hub
BY RecFacts DEF TypeOK, S

LEMMA HubKinds ==
  ASSUME IInv, Next
  PROVE  UNCHANGED hub \/ HubMoves \/ (\E g \in Gens : ReplyTurn(g)) \/ Takes
<1> USE DEF IInv
<1>1. ASSUME Current, NEW st \in HubStates \ {"none", "running"}, HubTo(rec.gen, st),
             st = "stopping" => StopOk
      PROVE  HubMoves
  BY <1>1, RecFacts DEF HubMoves
<1>2. CASE EndTurnInterrupts \/ EndTurnFails \/ CreateFails \/ InterruptOk \/ InterruptFails
           \/ ResumeFails \/ StopOk \/ StopFails \/ ArchiveOk \/ ArchiveFails
  <2>1. Current
    BY <1>2 DEF EndTurnInterrupts, EndTurnFails, CreateFails, InterruptOk, InterruptFails,
         ResumeFails, StopOk, StopFails, ArchiveOk, ArchiveFails, JobInv, At
  <2>2. UNCHANGED hub \/ \E st \in HubStates \ {"none", "running"} :
                           HubTo(rec.gen, st) /\ (st = "stopping" => StopOk)
    BY <1>2 DEF EndTurnInterrupts, EndTurnFails, CreateFails, InterruptOk, InterruptFails,
         ResumeFails, StopOk, StopFails, ArchiveOk, ArchiveFails, HubStates
  <2>3. QED  BY <1>1, <2>1, <2>2
<1>3. CASE CreateOk \/ ResumeOk
  <2>1. Current
    BY <1>3 DEF CreateOk, ResumeOk, JobInv, At
  <2>2. hub' = [hub EXCEPT ![rec.gen] = S] \/ HubTo(rec.gen, "ready")
    <3>1. CASE CreateOk
      BY <3>1, Zenon DEF CreateOk, FoundOrCreated, HubTo, S
    <3>2. CASE ResumeOk
      BY <3>2, Zenon DEF ResumeOk, HubTo, S
    <3>3. QED  BY <1>3, <3>1, <3>2
  <2>3. QED  BY <1>1, <2>1, <2>2, SameHub DEF HubStates
<1>4. CASE DeliverOk \/ DeliverLost
  <2>1. /\ At("deliver") /\ w.msg \in Msgs /\ Flown(w.msg) /\ mail[w.msg].gen = rec.gen
        /\ mail[w.msg].gen \in Gens
    BY <1>4, RecFacts DEF DeliverOk, DeliverLost, JobInv, At, Flown
  <2>2. \/ UNCHANGED hub
        \/ CanTake(rec.gen, w.msg, Steers) /\ hub' = [hub EXCEPT ![rec.gen] = Taken(rec.gen, w.msg)]
    BY <1>4 DEF DeliverOk, DeliverLost
  <2>3. Steers \in BOOLEAN
    BY DEF Steers
  <2>4. QED  BY <2>1, <2>2, <2>3 DEF Takes
<1>5. ASSUME NEW q \in late, LateArrives(q) PROVE UNCHANGED hub \/ Takes
  <2>1. q.msg \in Msgs /\ q.steer \in BOOLEAN /\ Flown(q.msg) /\ q.gen = mail[q.msg].gen /\ q.gen \in Gens
    BY DEF TypeOK, InputInv
  <2>2. QED  BY <1>5, <2>1 DEF LateArrives, Takes
<1>6. ASSUME NEW g \in Gens, TurnEnds(g) \/ ProviderExit(g) \/ HubStopped(g) \/ ExternalArchive(g)
      PROVE  HubMoves
  BY <1>6 DEF TurnEnds, ProviderExit, HubStopped, ExternalArchive, HubMoves, HubStates
<1>7. CASE Users \/ StartPass \/ Pass \/ Retirement \/ Poll \/ PollCreates \/ RetryDue \/ Crash
           \/ DeliverRefused \/ ResumeImpossible \/ StopConfirmed \/ StopArchived \/ StopUnconfirmed
           \/ Recover
  BY <1>7 DEF Users, Sends, Accept, Promotions, Promote, ArchiveResource, RequestReplacement, EndTurn,
       StartPass, Pass, PassArchived, PassDone, PassUnknown, PassCreate, PassUnbound, PassHeld,
       PassReplace, PassBlocked, PassRetire, PassResume, PassInterrupting, PassInterrupt, PassWait,
       PassDeliver, Retirement, RetireNothing, RetireAsleep, RetireActive, RetireArchived,
       RetireStop, RetireContinue, Poll, PollCreates, RetryDue, Crash, DeliverRefused,
       ResumeImpossible, StopConfirmed, StopArchived, StopUnconfirmed, Recover
<1>8. QED  BY <1>2, <1>3, <1>4, <1>5, <1>6, <1>7 DEF Next, Effects, AgentHub

Enters ==
  /\ hub' \in [Gens -> Session]
  /\ \A g \in Gens : /\ hub[g].st # "none" => hub'[g].st # "none"
                     /\ hub'[g].st = "running" => hub'[g].last # 0
  /\ \A g \in Gens, m \in Msgs :
       \/ hub'[g].acc[m] = hub[g].acc[m]
       \/ hub[g].acc[m] = 0 /\ hub'[g].acc[m] # 0 /\ Flown(m) /\ g = mail[m].gen

LEMMA HubSteps == ASSUME IInv, Next PROVE Enters
<1> USE DEF IInv, Enters
<1>1. CASE UNCHANGED hub
  BY <1>1 DEF TypeOK, GenInv
<1>2. CASE HubMoves
  <2>1. PICK g \in Gens, st \in HubStates \ {"none", "running"} : HubTo(g, st)
    BY <1>2 DEF HubMoves
  <2>2. QED  BY <2>1, HubToFacts DEF GenInv
<1>3. ASSUME NEW g \in Gens, ReplyTurn(g) PROVE Enters
  BY <1>3, ReplyFacts DEF GenInv
<1>4. CASE Takes
  <2>1. PICK m \in Msgs, steer \in BOOLEAN :
          /\ Flown(m) /\ mail[m].gen \in Gens /\ CanTake(mail[m].gen, m, steer)
          /\ hub' = [hub EXCEPT ![mail[m].gen] = Taken(mail[m].gen, m)]
    BY <1>4 DEF Takes
  <2>2. PICK h \in Gens : h = mail[m].gen
    BY <2>1
  <2>3. hub'[h] = Taken(h, m) /\ (\A g \in Gens : g # h => hub'[g] = hub[g])
        /\ (Taken(h, m) \in Session => hub' \in [Gens -> Session])
    BY <2>1, <2>2 DEF TypeOK
  <2>4. QED  BY <2>1, <2>2, <2>3, TakenFacts DEF GenInv
<1>5. QED  BY <1>1, <1>2, <1>3, <1>4, HubKinds

-----------------------------------------------------------------------------
(* What a step does to a message that was accepted before.                 *)

Moves(m) ==
  /\ mail'[m] \in Message
  /\ mail'[m].seq = mail[m].seq /\ mail'[m].requested = mail[m].requested
  /\ mail[m].promoted => mail'[m].promoted
  /\ mail'[m].status \in PendingStatuses \union {"none"} => mail'[m].fails < MaxStartFailures
  /\ mail'[m].actual = "steer" =>
       mail[m].actual = "steer" \/ mail'[m].promoted \/ mail[m].requested = "steer"
  /\ \/ /\ mail'[m].gen = mail[m].gen
        /\ \/ mail'[m].status = mail[m].status
           \/ mail[m].status = "queued" /\ mail'[m].status \in {"cancelled", "undeliverable"}
           \/ mail[m].status = "interrupting" /\ mail'[m].status \in {"queued", "undeliverable"}
           \/ /\ mail[m].status \in {"delivering", "interrupting"}
              /\ mail'[m].status = "delivery_unknown" /\ UNCHANGED hub
              /\ archived \/ ~(Current /\ mail[m].gen = rec.gen)
           \/ /\ mail[m].status = "delivering" /\ mail'[m].status = "delivered"
              /\ hub'[mail[m].gen].acc[m] # 0
     \/ /\ mail[m].status = "queued" /\ mail'[m].status \in {"interrupting", "delivering"}
        /\ mail'[m].gen = rec.gen /\ Current /\ m = Head
        /\ mail'[m].status = "interrupting" => mail[m].requested = "interrupt"

LEMMA SameMoves ==
  ASSUME TypeOK, MailInv, NEW m \in Msgs, mail'[m] = mail[m]
  PROVE  Moves(m)
BY MailTypes DEF Moves, MailInv

LEMMA PutMoves ==
  ASSUME TypeOK, MailInv, NEW h \in Msgs, NEW x \in Message, Put(h, x),
         mail'[h] = x => Moves(h)
  PROVE  \A m \in Msgs : Moves(m)
<1>1. mail'[h] = x /\ \A m \in Msgs : m # h => mail'[m] = mail[m]
  BY DEF Put, TypeOK
<1>2. QED  BY <1>1, SameMoves

LEMMA TurnTypes ==
  ASSUME TypeOK, GenInv
  PROVE  NoTurn \in Turns /\ \A g \in Gens : ActiveTurn(g) \in Turns
<1>1. \A g \in Gens : hub[g].st = "running" => hub[g].last \in 1 .. MaxTurns
  BY DEF TypeOK, Session, GenInv
<1>2. QED  BY <1>1 DEF ActiveTurn, Turns, NoTurn

(* An edit of a message that is queued or being delivered and stays so.    *)
LEMMA TidyMoves ==
  ASSUME TypeOK, MailInv, NEW h \in Msgs, mail[h].status \in PendingStatuses,
         NEW a \in Modes, NEW f \in BOOLEAN, NEW p \in BOOLEAN,
         Put(h, [mail[h] EXCEPT !.actual = a, !.frozen = f, !.promoted = p]),
         mail[h].promoted => p,
         a = "steer" => mail[h].actual = "steer" \/ p \/ mail[h].requested = "steer"
  PROVE  \A m \in Msgs : Moves(m)
<1> DEFINE x == [mail[h] EXCEPT !.actual = a, !.frozen = f, !.promoted = p]
<1>1. mail[h] \in Message
  BY DEF TypeOK
<1>2. /\ x \in Message /\ x.seq = mail[h].seq /\ x.requested = mail[h].requested /\ x.promoted = p
      /\ x.status = mail[h].status /\ x.gen = mail[h].gen /\ x.fails = mail[h].fails /\ x.actual = a
  BY <1>1 DEF Message
<1>3. mail[h].fails < MaxStartFailures
  BY DEF MailInv
<1> HIDE DEF x
<1>4. mail'[h] = x => Moves(h)
  BY <1>2, <1>3 DEF Moves
<1>5. Put(h, x)
  BY DEF x
<1>6. QED  BY <1>2, <1>4, <1>5, PutMoves

LEMMA CountMoves ==
  ASSUME TypeOK, MailInv, mail' = CountFailure(w.msg), w.msg \in Msgs \union {NoMessage},
         w.msg # NoMessage => mail[w.msg].status \in PendingStatuses
  PROVE  \A m \in Msgs : Moves(m)
<1>1. CASE w.msg = NoMessage \/ mail[w.msg].gen # 0
  BY <1>1, SameMoves DEF CountFailure
<1>2. CASE ~(w.msg = NoMessage \/ mail[w.msg].gen # 0)
  <2>1. PICK h \in Msgs : h = w.msg
    BY <1>2
  <2>2. /\ mail[h] \in Message /\ mail[h].gen = 0 /\ mail[h].status = "queued"
        /\ mail[h].fails \in Nat /\ mail[h].fails < MaxStartFailures
    BY <1>2, <2>1, MailTypes DEF MailInv, PendingStatuses, Flown
  <2>3. PICK st \in {"queued", "undeliverable"} :
          /\ mail' = [mail EXCEPT ![h].fails = mail[h].fails + 1, ![h].status = st]
          /\ st = "queued" => mail[h].fails + 1 # MaxStartFailures
    BY <1>2, <2>1, <2>2 DEF CountFailure
  <2>4. mail'[h] = [mail[h] EXCEPT !.fails = mail[h].fails + 1, !.status = st]
        /\ \A m \in Msgs : m # h => mail'[m] = mail[m]
    BY <2>3 DEF TypeOK
  <2>5. mail[h].fails + 1 \in 0 .. MaxStartFailures /\ st \in Statuses
        /\ (st = "queued" => mail[h].fails + 1 < MaxStartFailures)
    BY <2>2, <2>3 DEF Statuses, PendingStatuses
  <2>6. /\ mail'[h] \in Message /\ mail'[h].seq = mail[h].seq /\ mail'[h].gen = mail[h].gen
        /\ mail'[h].requested = mail[h].requested /\ mail'[h].promoted = mail[h].promoted
        /\ mail'[h].actual = mail[h].actual /\ mail'[h].fails = mail[h].fails + 1
        /\ mail'[h].status = st
    BY <2>2, <2>4, <2>5 DEF Message
  <2>7. Moves(h)
    BY <2>2, <2>5, <2>6 DEF Moves, PendingStatuses
  <2>8. QED  BY <2>4, <2>7, SameMoves
<1>3. QED  BY <1>1, <1>2

LEMMA SteerMoves ==
  ASSUME TypeOK, MailInv, mail' = SteersCancelled
  PROVE  \A m \in Msgs : Moves(m)
<1>1. SUFFICES ASSUME NEW m \in Msgs PROVE Moves(m)
  OBVIOUS
<1>2. mail'[m] = mail[m] \/ (mail[m].status = "queued" /\ mail'[m] = [mail[m] EXCEPT !.status = "cancelled"])
  BY DEF SteersCancelled
<1>3. mail[m] \in Message
  BY DEF TypeOK
<1>4. LET x == [mail[m] EXCEPT !.status = "cancelled"]
      IN /\ x \in Message /\ x.seq = mail[m].seq /\ x.requested = mail[m].requested
         /\ x.promoted = mail[m].promoted /\ x.actual = mail[m].actual /\ x.gen = mail[m].gen
         /\ x.status = "cancelled"
  BY <1>3 DEF Message, Statuses
<1>5. QED  BY ZenonT(30), <1>2, <1>4, SameMoves DEF Moves, PendingStatuses

LEMMA ArchivedMoves ==
  ASSUME TypeOK, MailInv, PassArchived
  PROVE  \A m \in Msgs : Moves(m)
<1>1. SUFFICES ASSUME NEW m \in Msgs PROVE Moves(m)
  OBVIOUS
<1>2. \/ mail'[m] = mail[m]
      \/ mail[m].status = "delivering" /\ mail'[m] = [mail[m] EXCEPT !.status = "delivery_unknown"]
      \/ mail[m].status \in {"queued", "interrupting"}
         /\ mail'[m] = [mail[m] EXCEPT !.status = "undeliverable"]
  BY DEF PassArchived, Pendings, PendingStatuses
<1>3. mail[m] \in Message /\ archived /\ UNCHANGED hub
  BY DEF TypeOK, PassArchived
<1>4. \A st \in {"undeliverable", "delivery_unknown"} :
        LET x == [mail[m] EXCEPT !.status = st]
        IN /\ x \in Message /\ x.seq = mail[m].seq /\ x.requested = mail[m].requested
           /\ x.promoted = mail[m].promoted /\ x.actual = mail[m].actual /\ x.gen = mail[m].gen
           /\ x.status = st
  BY <1>3 DEF Message, Statuses
<1>5. QED  BY ZenonT(30), <1>2, <1>3, <1>4, SameMoves DEF Moves, PendingStatuses

LEMMA WorkingFacts ==
  ASSUME TypeOK, MailInv, Working
  PROVE  /\ Head \in Msgs /\ Head \in Pendings /\ H \in Message /\ H.status \in PendingStatuses
         /\ H.fails < MaxStartFailures /\ \A o \in Pendings \ {Head} : Precedes(Head, o)
BY HeadPrecedes DEF Working, H, Pendings, MailInv, TypeOK

(* A pass that goes on to the Session.                                     *)
LEMMA ObservedFacts ==
  ASSUME TypeOK, MailInv, GenInv, Observed
  PROVE  /\ Working /\ Bound /\ rec \in GenRecord /\ rec.gen \in Gens
         /\ Like(Seen, rec) /\ (Flying => Associated)
         /\ ActiveTurn(rec.gen) \in Turns
         /\ At("pass")
<1>1. Working /\ Bound /\ (Flying => Associated)
  BY DEF Observed, Ready, Bound
<1>2. rec \in GenRecord /\ rec.gen \in Gens /\ S.st \in HubStates \ {"none"}
  BY <1>1, RecFacts DEF GenInv
<1>3. QED  BY <1>1, <1>2, AppliedLike, TurnTypes DEF Seen, Working

LEMMA PassMoves ==
  ASSUME TypeOK, MailInv, GenInv,
         PassHeld \/ PassUnknown \/ PassInterrupting \/ PassInterrupt \/ PassWait \/ PassDeliver
  PROVE  \A m \in Msgs : Moves(m)
<1>0. Working
  BY ObservedFacts DEF PassHeld, PassUnknown, PassInterrupting, PassInterrupt, PassWait, PassDeliver,
       Proceeds, Ordinary, Ready
<1>1. /\ Head \in Msgs /\ H \in Message /\ H.status \in PendingStatuses /\ H = mail[Head]
      /\ H.fails < MaxStartFailures /\ H.actual \in Modes /\ H.promoted \in BOOLEAN
  BY <1>0, WorkingFacts DEF H, Message
<1>2. UNCHANGED mail => \A m \in Msgs : Moves(m)
  BY SameMoves
<1>3. CASE PassHeld
  <2>1. CASE UNCHANGED mail
    BY <1>2, <2>1
  <2>2. CASE ~UNCHANGED mail
    <3>1. Put(Head, [H EXCEPT !.actual = "enqueue", !.frozen = TRUE])
      BY <1>3, <2>2 DEF PassHeld
    <3>2. Put(Head, [H EXCEPT !.actual = "enqueue", !.frozen = TRUE, !.promoted = H.promoted])
      <4>1. [H EXCEPT !.actual = "enqueue", !.frozen = TRUE] =
              [H EXCEPT !.actual = "enqueue", !.frozen = TRUE, !.promoted = H.promoted]
        BY <1>1 DEF Message
      <4>2. QED  BY <3>1, <4>1
    <3>3. QED  BY <1>1, <3>2, TidyMoves DEF Modes
  <2>3. QED  BY <2>1, <2>2
<1>4. CASE PassUnknown
  <2> DEFINE x == [H EXCEPT !.status = "delivery_unknown"]
  <2>1. /\ x \in Message /\ x.seq = H.seq /\ x.requested = H.requested /\ x.promoted = H.promoted
        /\ x.actual = H.actual /\ x.gen = H.gen /\ x.status = "delivery_unknown"
    BY <1>1 DEF Message, Statuses
  <2>2. /\ Put(Head, x) /\ H.status \in {"delivering", "interrupting"}
        /\ ~(Current /\ H.gen = rec.gen) /\ UNCHANGED hub
    BY <1>4 DEF PassUnknown, Flying, Associated
  <2> HIDE DEF x
  <2>3. mail'[Head] = x => Moves(Head)
    BY <1>1, <2>1, <2>2 DEF Moves, PendingStatuses
  <2>4. QED  BY <1>1, <2>1, <2>2, <2>3, PutMoves
<1>5. CASE PassInterrupting
  <2> DEFINE x == [H EXCEPT !.status = "queued", !.cut = TRUE]
  <2>1. /\ x \in Message /\ x.seq = H.seq /\ x.requested = H.requested /\ x.promoted = H.promoted
        /\ x.actual = H.actual /\ x.gen = H.gen /\ x.status = "queued" /\ x.fails = H.fails
    BY <1>1 DEF Message, Statuses, PendingStatuses
  <2>2. H.status = "interrupting" /\ (Put(Head, x) \/ UNCHANGED mail)
    BY <1>5 DEF PassInterrupting
  <2> HIDE DEF x
  <2>3. mail'[Head] = x => Moves(Head)
    BY <1>1, <2>1, <2>2 DEF Moves, PendingStatuses
  <2>4. QED  BY <1>1, <1>2, <2>1, <2>2, <2>3, PutMoves
<1>6. CASE PassInterrupt
  <2> DEFINE x == [H EXCEPT !.actual = "interrupt", !.frozen = TRUE,
                  !.status = "interrupting", !.gen = rec.gen,
                  !.intTurn = ActiveTurn(rec.gen)]
  <2>1. /\ Put(Head, x) /\ H.status = "queued" /\ H.requested = "interrupt" /\ Current
        /\ rec.gen \in Gens /\ ActiveTurn(rec.gen) \in Turns
    BY <1>6, ObservedFacts DEF PassInterrupt, FreshInterrupt, Proceeds, Bound
  <2>2. /\ x \in Message /\ x.seq = H.seq /\ x.requested = H.requested /\ x.promoted = H.promoted
        /\ x.actual = "interrupt" /\ x.gen = rec.gen /\ x.status = "interrupting" /\ x.fails = H.fails
    BY <1>1, <2>1 DEF Message, Statuses, PendingStatuses, Modes
  <2> HIDE DEF x
  <2>3. mail'[Head] = x => Moves(Head)
    BY <1>1, <2>1, <2>2 DEF Moves, PendingStatuses
  <2>4. QED  BY <1>1, <2>1, <2>2, <2>3, PutMoves
<1>7. CASE PassWait
  <2>1. H.status = "queued" /\ Put(Head, Resolved)
    BY <1>1, <1>7 DEF PassWait, Ordinary, Delivers, FreshInterrupt, PendingStatuses
  <2>2. PICK a \in Modes : /\ Resolved = [H EXCEPT !.actual = a, !.frozen = TRUE, !.promoted = H.promoted]
                           /\ a = "steer" => H.actual = "steer" \/ H.requested = "steer"
    <3>1. CASE H.frozen
      <4>1. H = [H EXCEPT !.actual = H.actual, !.frozen = TRUE, !.promoted = H.promoted]
        BY <1>1, <3>1 DEF Message
      <4>2. QED  BY <1>1, <3>1, <4>1 DEF Resolved
    <3>2. CASE ~H.frozen
      <4>1. PICK a \in {"steer", "enqueue"} : /\ Resolved = [H EXCEPT !.frozen = TRUE, !.actual = a]
                                              /\ a = "steer" => H.requested = "steer"
        BY <2>1, <3>2, Zenon DEF Resolved
      <4>2. [H EXCEPT !.frozen = TRUE, !.actual = a] =
              [H EXCEPT !.actual = a, !.frozen = TRUE, !.promoted = H.promoted]
        BY <1>1 DEF Message
      <4>3. QED  BY <4>1, <4>2 DEF Modes
    <3>3. QED  BY <3>1, <3>2
  <2>3. QED  BY <1>1, <2>1, <2>2, TidyMoves
<1>8. CASE PassDeliver
  <2> DEFINE x == [Resolved EXCEPT !.status = "delivering", !.gen = rec.gen,
                                !.turn = ActiveTurn(rec.gen)]
  <2>1. /\ Put(Head, x) /\ H.status \in {"queued", "delivering"} /\ Current
        /\ rec.gen \in Gens /\ ActiveTurn(rec.gen) \in Turns
        /\ (H.status = "delivering" => H.gen = rec.gen)
    BY <1>1, <1>8, ObservedFacts DEF PassDeliver, Ordinary, Proceeds, Bound, PendingStatuses, Flying, Associated
  <2>2. /\ Resolved \in Message /\ Resolved.seq = H.seq /\ Resolved.requested = H.requested
        /\ Resolved.promoted = H.promoted /\ Resolved.fails = H.fails
        /\ Resolved.actual = "steer" => H.actual = "steer" \/ H.requested = "steer"
    <3>1. \/ Resolved = H
          \/ \E a \in {"steer", "enqueue"} : /\ Resolved = [H EXCEPT !.frozen = TRUE, !.actual = a]
                                             /\ a = "steer" => H.requested = "steer"
      BY Zenon DEF Resolved
    <3>2. ASSUME NEW a \in {"steer", "enqueue"}
          PROVE  LET y == [H EXCEPT !.frozen = TRUE, !.actual = a]
                 IN /\ y \in Message /\ y.seq = H.seq /\ y.requested = H.requested
                    /\ y.promoted = H.promoted /\ y.fails = H.fails /\ y.actual = a
      BY <1>1 DEF Message, Modes
    <3>3. QED  BY <1>1, <3>1, <3>2
  <2> HIDE DEF x
  <2>3. /\ x \in Message /\ x.seq = H.seq /\ x.requested = H.requested /\ x.promoted = H.promoted
        /\ x.actual = Resolved.actual /\ x.gen = rec.gen /\ x.status = "delivering" /\ x.fails = H.fails
    BY <2>1, <2>2 DEF x, Message, Statuses, PendingStatuses
  <2>4. mail'[Head] = x => Moves(Head)
    BY <1>1, <2>1, <2>2, <2>3 DEF Moves, PendingStatuses
  <2>5. QED  BY <1>1, <2>1, <2>3, <2>4, PutMoves
<1>9. QED  BY <1>3, <1>4, <1>5, <1>6, <1>7, <1>8

LEMMA DeliverMoves ==
  ASSUME IInv, Next, DeliverOk
  PROVE  \A m \in Msgs : Moves(m)
<1> USE DEF IInv
<1>1. PICK h \in Msgs : /\ h = w.msg /\ mail[h].status = "delivering" /\ mail[h].gen = rec.gen
                        /\ mail[h] \in Message /\ M = mail[h] /\ rec.gen \in Gens
  BY RecFacts DEF DeliverOk, JobInv, At, M, TypeOK
<1>2. CASE UNCHANGED mail
  BY <1>2, SameMoves
<1>3. CASE ~UNCHANGED mail
  <2>1. /\ CanTake(rec.gen, h, Steers) /\ hub' = [hub EXCEPT ![rec.gen] = Taken(rec.gen, h)]
        /\ Put(h, [M EXCEPT !.status = "delivered", !.turn = DeliveredTurn(S, Taken(rec.gen, h))])
    BY <1>1, <1>3 DEF DeliverOk
  <2>2. /\ Taken(rec.gen, h) \in Session /\ Taken(rec.gen, h).acc[h] # 0
        /\ Taken(rec.gen, h).st = "running" => Taken(rec.gen, h).last # 0
        /\ hub'[rec.gen] = Taken(rec.gen, h)
    BY <1>1, <2>1, TakenFacts DEF TypeOK
  <2>3. DeliveredTurn(S, Taken(rec.gen, h)) \in Turns
    <3> DEFINE after == Taken(rec.gen, h)
    <3>1. after.acc[h] \in 1 .. MaxTurns /\ after.last \in 0 .. MaxTurns
      BY <2>2 DEF Session
    <3>2. <<rec.gen, after.acc[h]>> \in Turns /\ NoTurn \in Turns /\ M.turn \in Turns
          /\ (after.st = "running" => <<rec.gen, after.last>> \in Turns)
      BY <1>1, <2>2, <3>1 DEF Turns, NoTurn, Message
    <3> HIDE DEF after
    <3>3. DeliveredTurn(S, after) \in {<<rec.gen, after.acc[h]>>, NoTurn, M.turn}
          \/ (after.st = "running" /\ DeliveredTurn(S, after) = <<rec.gen, after.last>>)
      BY <1>1, Zenon DEF DeliveredTurn, Canonical
    <3>4. QED  BY <3>2, <3>3 DEF after
  <2> DEFINE t == DeliveredTurn(S, Taken(rec.gen, h))
             x == [M EXCEPT !.status = "delivered", !.turn = t]
  <2>4. t \in Turns
    BY <2>3
  <2> HIDE DEF t
  <2>5. /\ x \in Message /\ x.seq = M.seq /\ x.requested = M.requested /\ x.promoted = M.promoted
        /\ x.actual = M.actual /\ x.gen = M.gen /\ x.status = "delivered"
    BY <1>1, <2>4 DEF Message, Statuses
  <2>6. Put(h, x)
    BY <2>1 DEF t
  <2> HIDE DEF x
  <2>7. mail'[h] = x => Moves(h)
    BY <1>1, <2>2, <2>5 DEF Moves, PendingStatuses
  <2>8. QED  BY <2>5, <2>6, <2>7, PutMoves
<1>4. QED  BY <1>2, <1>3

LEMMA MailKinds ==
  ASSUME IInv, Next
  PROVE  (\E m \in Msgs, mode \in SendModes : Accept(m, mode)) \/ (\A m \in Msgs : Moves(m))
<1> USE DEF IInv
<1>1. CASE Sends
  BY <1>1 DEF Sends
<1>2. CASE Promotions
  <2>1. PICK h \in Msgs : Promote(h)
    BY <1>2 DEF Promotions
  <2>2. mail[h] \in Message /\ mail[h].status \in PendingStatuses
    BY <2>1 DEF TypeOK, Promote, PendingStatuses
  <2>3. Put(h, [mail[h] EXCEPT !.actual = "steer", !.frozen = TRUE, !.promoted = TRUE])
    BY <2>1 DEF Promote
  <2>4. QED  BY <2>2, <2>3, TidyMoves DEF Modes
<1>3. CASE EndTurnInterrupts
  BY <1>3, SteerMoves DEF EndTurnInterrupts
<1>4. CASE CreateFails \/ ResumeImpossible
  <2>1. mail' = CountFailure(w.msg) /\ w.pc \in {"create", "resume"}
    BY <1>4 DEF CreateFails, ResumeImpossible, At
  <2>2. w.msg \in Msgs \union {NoMessage} /\ (w.msg # NoMessage => mail[w.msg].status \in PendingStatuses)
    BY <2>1 DEF JobInv, TypeOK, Job
  <2>3. QED  BY <2>1, <2>2, CountMoves
<1>5. CASE PassArchived
  BY <1>5, ArchivedMoves
<1>6. CASE PassHeld \/ PassUnknown \/ PassInterrupting \/ PassInterrupt \/ PassWait \/ PassDeliver
  BY <1>6, PassMoves
<1>7. CASE DeliverOk
  BY <1>7, DeliverMoves
<1>8. CASE \/ ArchiveResource \/ RequestReplacement \/ EndTurn \/ StartPass
           \/ PassDone \/ PassCreate \/ PassUnbound \/ PassReplace \/ PassBlocked \/ PassRetire
           \/ PassResume \/ EndTurnFails \/ CreateOk \/ DeliverRefused \/ DeliverLost
           \/ InterruptOk \/ InterruptFails \/ ResumeOk \/ ResumeFails
           \/ StopOk \/ StopFails \/ StopConfirmed \/ StopArchived \/ StopUnconfirmed
           \/ ArchiveOk \/ ArchiveFails \/ Recover \/ Retirement \/ Poll \/ PollCreates
           \/ RetryDue \/ Crash \/ AgentHub
  <2>1. UNCHANGED mail
    BY <1>8 DEF ArchiveResource, RequestReplacement, EndTurn, StartPass, PassDone, PassCreate,
         PassUnbound, PassReplace, PassBlocked, PassRetire, PassResume, EndTurnFails, CreateOk,
         DeliverRefused, DeliverLost, InterruptOk, InterruptFails, ResumeOk, ResumeFails, StopOk,
         StopFails, StopConfirmed, StopArchived, StopUnconfirmed, ArchiveOk, ArchiveFails, Recover,
         Retirement, RetireNothing, RetireAsleep, RetireActive, RetireArchived, RetireStop,
         RetireContinue, Poll, PollCreates, RetryDue, Crash, AgentHub, TurnEnds, ProviderExit,
         HubStopped, ExternalArchive, ReplyTurn, LateArrives
  <2>2. QED  BY <2>1, SameMoves
<1>9. QED
  BY <1>1, <1>2, <1>3, <1>4, <1>5, <1>6, <1>7, <1>8 DEF Next, Users, Pass, Effects

-----------------------------------------------------------------------------
(* What a step does to the generation record.                              *)

Stays == Current /\ rec' \in GenRecord /\ rec'.gen = rec.gen /\ (rec.bound => rec'.bound)
         /\ (rec'.bound => rec.bound \/ hub'[rec.gen].st # "none") /\ lastGen' = lastGen
Begins == /\ lastGen' = lastGen + 1 /\ lastGen + 1 \in Gens /\ rec' = NewRecord(lastGen + 1)
          /\ w'.pc = "create"
Ends == rec' = NoRec /\ lastGen' = lastGen /\ w'.pc \in {"idle", "pass", "recover"}

LEMMA StaysFacts ==
  ASSUME TypeOK, Current, Like(rec', rec), lastGen' = lastGen
  PROVE  Stays
BY DEF Stays, Like

LEMMA FieldTypes ==
  ASSUME NEW r \in GenRecord
  PROVE  /\ r.status \in RecordStatuses /\ r.replacement \in BOOLEAN /\ r.idleSleep \in BOOLEAN
         /\ r.unavailable \in BOOLEAN /\ r.receipt \in Receipts /\ r.backoff \in BOOLEAN
         /\ r.bound \in BOOLEAN /\ r.gen \in Gens
BY DEF GenRecord

LEMMA ReceiptTypes ==
  \A op \in {"stop", "resume"}, st \in {"requested", "succeeded"} : [op |-> op, state |-> st] \in Receipts
BY DEF Receipts

LEMMA PassRecords ==
  ASSUME IInv, Pass
  PROVE  (rec' = rec /\ lastGen' = lastGen) \/ Stays \/ Begins \/ Ends
<1> USE DEF IInv
<1>1. CASE PassArchived \/ PassDone \/ PassUnknown \/ PassHeld
  BY <1>1 DEF PassArchived, PassDone, PassUnknown, PassHeld
<1>2. CASE PassCreate
  BY <1>2 DEF PassCreate, StartCreate, Begins, Go, On, Rest
<1>3. CASE PassUnbound \/ PassRetire
  BY <1>3, ObservedFacts DEF PassUnbound, PassRetire, Retired, Ends, Ready, Working, At
<1>4. CASE PassBlocked \/ PassInterrupting \/ PassInterrupt \/ PassWait \/ PassDeliver
  <2>1. Observed /\ rec' = Seen /\ lastGen' = lastGen
    BY <1>4 DEF PassBlocked, PassInterrupting, PassInterrupt, PassWait, PassDeliver, Ordinary,
         Proceeds, Project
  <2>2. QED  BY <2>1, ObservedFacts, StaysFacts DEF Bound
<1>5. CASE PassReplace \/ PassResume
  <2>1. Observed /\ lastGen' = lastGen /\ Current
    BY <1>5, ObservedFacts DEF PassReplace, PassResume, Bound
  <2>2. Seen \in GenRecord /\ Seen.gen = rec.gen /\ Seen.bound = rec.bound
    BY <2>1, ObservedFacts DEF Like
  <2>3. CASE PassReplace
    <3>1. rec' = [Seen EXCEPT !.replacement = TRUE]
      BY <2>3 DEF PassReplace
    <3>2. QED  BY <2>1, <2>2, <3>1 DEF Stays, GenRecord
  <2>4. CASE PassResume
    <3>1. rec' = [Seen EXCEPT !.status = "starting",
                         !.receipt = [op |-> "resume", state |-> "requested"]]
      BY <2>4 DEF PassResume
    <3>2. [op |-> "resume", state |-> "requested"] \in Receipts
      BY ReceiptTypes
    <3>3. QED  BY <2>1, <2>2, <3>1, <3>2 DEF Stays, GenRecord, RecordStatuses
  <2>5. QED  BY <1>5, <2>3, <2>4
<1>6. QED  BY <1>1, <1>2, <1>3, <1>4, <1>5 DEF Pass

LEMMA AppliedStays ==
  ASSUME IInv, Current, NEW s, s.st \in HubStates \ {"none"}, rec' = Applied(rec, s), lastGen' = lastGen
  PROVE  Stays
BY AppliedLike, RecFacts, StaysFacts DEF IInv, Like

LEMMA FailingStays ==
  ASSUME IInv, Current, NEW r \in GenRecord, Like(r, rec), rec' = Failing(r), lastGen' = lastGen
  PROVE  Stays
<1>1. Like(Failing(r), r)
  BY FailingLike
<1>2. Like(rec', rec)
  BY <1>1 DEF Like
<1>3. QED  BY <1>2, StaysFacts DEF IInv

LEMMA ReconciledRecords ==
  ASSUME IInv, NEW r, Reconciled(r), UNCHANGED <<hub, lastGen>>,
         w'.pc \in {"idle", "pass", "recover"},
         Current /\ S.st # "none" => Like(r, rec)
  PROVE  Stays \/ Ends
<1> USE DEF IInv
<1>1. CASE Bound /\ S.st # "archived" /\ \E due \in BOOLEAN : Watch(r, due)
  <2>1. PICK due \in BOOLEAN : Watch(r, due)
    BY <1>1
  <2>2. Current /\ S.st # "none" /\ r \in GenRecord /\ r.gen = rec.gen /\ r.bound = rec.bound
    BY <1>1 DEF GenInv, Bound, Like
  <2>3. rec' = r \/ rec' = SleepRequested(r, due)
    BY <2>1 DEF Watch
  <2>4. LET x == SleepRequested(r, due) IN x \in GenRecord /\ x.gen = r.gen /\ x.bound = r.bound
    BY <2>2, SleepLike
  <2>5. QED  BY <2>2, <2>3, <2>4 DEF Stays
<1>2. CASE Bound /\ S.st = "archived" /\ Retired
  BY <1>2 DEF Retired, Ends
<1>3. CASE Current /\ ~rec.bound /\ S.st # "none" /\ rec' = [r EXCEPT !.bound = TRUE]
  <2>1. r \in GenRecord /\ r.gen = rec.gen
    BY <1>3 DEF Like
  <2>2. rec' \in GenRecord /\ rec'.gen = rec.gen /\ rec'.bound
    BY <1>3, <2>1 DEF GenRecord
  <2>3. QED  BY <1>3, <2>2 DEF Stays, S
<1>4. QED  BY <1>1, <1>2, <1>3 DEF Reconciled

LEMMA EffectRecords ==
  ASSUME IInv, Next, Effects
  PROVE  (rec' = rec /\ lastGen' = lastGen) \/ Stays \/ Begins \/ Ends
<1> USE DEF IInv
<1>0. /\ w.pc \notin {"idle", "recover", "pass"} => Current /\ rec \in GenRecord /\ Like(rec, rec)
                                                    /\ rec.gen \in Gens /\ S \in Session
      /\ w.pc \notin {"idle", "recover", "pass", "create"} => S.st \in HubStates \ {"none"}
  BY RecFacts DEF JobInv, Like, GenInv, TypeOK
<1>1. CASE EndTurnInterrupts \/ InterruptOk
  <2>1. Current /\ rec' = Applied(rec, [S EXCEPT !.st = "ready"]) /\ lastGen' = lastGen
        /\ S \in Session
    BY <1>0, <1>1 DEF EndTurnInterrupts, InterruptOk, At
  <2>2. [S EXCEPT !.st = "ready"].st \in HubStates \ {"none"}
    BY <2>1 DEF Session, HubStates
  <2>3. QED  BY <2>1, <2>2, AppliedStays
<1>2. CASE EndTurnFails \/ CreateFails \/ ArchiveFails
  <2>1. Current /\ rec' = Failing(rec) /\ lastGen' = lastGen /\ rec \in GenRecord /\ Like(rec, rec)
    BY <1>0, <1>2 DEF EndTurnFails, CreateFails, ArchiveFails, At
  <2>2. QED  BY <2>1, FailingStays
<1>3. CASE CreateOk
  <2> DEFINE r == [rec EXCEPT !.bound = TRUE]
  <2>1. Current /\ rec \in GenRecord /\ rec.gen \in Gens /\ S \in Session
    BY <1>0, <1>3 DEF CreateOk, At
  <2>2. r \in GenRecord /\ r.gen = rec.gen
    BY <2>1 DEF GenRecord
  <2>3. FoundOrCreated \in Session /\ FoundOrCreated.st # "none"
    BY <2>1 DEF FoundOrCreated, Session, HubStates
  <2>4. hub'[rec.gen] = FoundOrCreated
    BY <1>3, <2>1 DEF CreateOk, TypeOK
  <2>5. rec' = Applied(r, FoundOrCreated) /\ lastGen' = lastGen
    BY <1>3 DEF CreateOk
  <2> HIDE DEF r
  <2>6. Like(Applied(r, FoundOrCreated), r)
    BY <2>2, <2>3, AppliedLike DEF Session
  <2>7. rec' \in GenRecord /\ rec'.gen = rec.gen /\ rec'.bound
    <3>1. r.bound
      BY <2>1 DEF r, GenRecord
    <3>2. QED  BY <2>2, <2>5, <2>6, <3>1 DEF Like
  <2>8. QED  BY <2>1, <2>3, <2>4, <2>5, <2>7 DEF Stays
<1>4. CASE DeliverOk
  <2>1. CASE UNCHANGED rec
    BY <1>4, <2>1 DEF DeliverOk
  <2>2. CASE ~UNCHANGED rec
    <3>1. /\ Current /\ rec' = Applied(rec, Taken(rec.gen, w.msg)) /\ lastGen' = lastGen
          /\ CanTake(rec.gen, w.msg, Steers) /\ w.msg \in Msgs /\ rec.gen \in Gens
      BY <1>0, <1>4, <2>2 DEF DeliverOk, JobInv, At
    <3>2. Taken(rec.gen, w.msg).st \in HubStates \ {"none"}
      BY <3>1, TakenFacts DEF HubStates
    <3>3. QED  BY <3>1, <3>2, AppliedStays
  <2>3. QED  BY <2>1, <2>2
<1>5. CASE ResumeOk
  <2> DEFINE s == IF S.st = "stopped" THEN [S EXCEPT !.st = "ready"] ELSE S
  <2>1. CASE UNCHANGED rec
    BY <1>5, <2>1 DEF ResumeOk
  <2>2. CASE ~UNCHANGED rec
    <3>1. /\ Current /\ lastGen' = lastGen /\ rec \in GenRecord /\ S \in Session
          /\ S.st \in HubStates \ {"none"}
      BY <1>0, <1>5 DEF ResumeOk, At
    <3>2. s.st \in HubStates \ {"none"}
      BY <3>1 DEF Session, HubStates
    <3>3. rec' = [Applied(rec, s) EXCEPT
                            !.receipt = [op |-> "resume", state |-> "succeeded"],
                            !.unavailable = FALSE, !.backoff = FALSE]
      BY <1>5, <2>2 DEF ResumeOk
    <3> HIDE DEF s
    <3>4. Like(Applied(rec, s), rec)
      BY <3>1, <3>2, AppliedLike
    <3>5. [op |-> "resume", state |-> "succeeded"] \in Receipts
      BY ReceiptTypes
    <3>6. QED  BY <3>1, <3>3, <3>4, <3>5 DEF Like, Stays, GenRecord
  <2>3. QED  BY <2>1, <2>2
<1>6. CASE ResumeFails
  <2>1. Current /\ rec \in GenRecord /\ lastGen' = lastGen
        /\ rec' = [SetReceipt(rec, "unknown") EXCEPT !.status = Asleep(rec), !.backoff = TRUE]
    BY <1>0, <1>6 DEF ResumeFails, At
  <2>2. Like(SetReceipt(rec, "unknown"), rec) /\ Asleep(rec) \in RecordStatuses
    BY <2>1, ReceiptLike DEF Asleep, RecordStatuses
  <2>3. QED  BY <2>1, <2>2 DEF Like, Stays, GenRecord
<1>7. CASE ResumeImpossible
  <2>1. CASE rec' = NoRec /\ Go(On("pass", NoMessage))
    BY <1>7, <2>1 DEF ResumeImpossible, Ends, Go, On, Rest
  <2>2. CASE ~(rec' = NoRec /\ Go(On("pass", NoMessage)))
    <3>1. Current /\ rec \in GenRecord /\ lastGen' = lastGen
        /\ rec' = [SetReceipt(rec, "terminal") EXCEPT !.status = Asleep(rec),
                     !.unavailable = TRUE, !.replacement = TRUE, !.backoff = FALSE]
      BY <1>0, <1>7, <2>2 DEF ResumeImpossible, At
    <3>2. Like(SetReceipt(rec, "terminal"), rec) /\ Asleep(rec) \in RecordStatuses
      BY <3>1, ReceiptLike DEF Asleep, RecordStatuses
    <3>3. QED  BY <3>1, <3>2 DEF Like, Stays, GenRecord
  <2>3. QED  BY <2>1, <2>2
<1>8. CASE StopFails
  <2>1. Current /\ rec \in GenRecord /\ lastGen' = lastGen /\ Like(rec, rec)
    BY <1>0, <1>8 DEF StopFails, At
  <2>2. PICK r \in GenRecord : Like(r, rec) /\ rec' = Failing(r)
    BY <1>8, <2>1, ReceiptLike DEF StopFails, Like
  <2>3. QED  BY <2>1, <2>2, FailingStays
<1>9. CASE StopConfirmed \/ StopUnconfirmed
  <2>1. /\ Current /\ rec \in GenRecord /\ lastGen' = lastGen /\ Like(rec, rec)
        /\ S.st \in HubStates \ {"none"}
    BY <1>0, <1>9 DEF StopConfirmed, StopUnconfirmed, At
  <2>2. rec' = rec \/ rec' = Failing(rec) \/ rec' = Confirmed(Applied(rec, S))
    BY <1>9 DEF StopConfirmed, StopUnconfirmed
  <2>3. Like(Applied(rec, S), rec)
    BY <2>1, AppliedLike
  <2>4. Like(Confirmed(Applied(rec, S)), Applied(rec, S))
    BY <2>3, ConfirmedLike DEF Like
  <2>5. Like(Confirmed(Applied(rec, S)), rec)
    BY <2>3, <2>4 DEF Like
  <2>6. QED  BY <2>1, <2>2, <2>5, FailingStays, StaysFacts
<1>10. CASE StopArchived
  BY <1>10 DEF StopArchived, Retired, Ends, Go, Rest
<1>11. CASE ArchiveOk
  <2>1. \/ StartCreate(NoMessage)
        \/ rec' = NoRec /\ lastGen' = lastGen /\ w' = Rest
    BY <1>11 DEF ArchiveOk, Retired, Go
  <2>2. StartCreate(NoMessage) => Begins
    BY DEF StartCreate, Begins, Go, On, Rest
  <2>3. QED  BY <2>1, <2>2 DEF Ends, Rest
<1>12. CASE Recover
  <2>1. CASE Reconciled(Applied(rec, S)) /\ Go(Rest)
    <3>1. Current /\ S.st # "none" => Like(Applied(rec, S), rec)
      BY AppliedLike, RecFacts
    <3>2. UNCHANGED <<hub, lastGen>> /\ w'.pc = "idle"
      BY <1>12, <2>1 DEF Recover, Go, Rest
    <3>3. QED  BY <2>1, <3>1, <3>2, ReconciledRecords
  <2>2. CASE ~(Reconciled(Applied(rec, S)) /\ Go(Rest))
    BY <1>12, <2>2 DEF Recover
  <2>3. QED  BY <2>1, <2>2
<1>13. CASE DeliverRefused \/ DeliverLost \/ InterruptFails \/ StopOk
  BY <1>13 DEF DeliverRefused, DeliverLost, InterruptFails, StopOk
<1>14. QED
  BY <1>1, <1>2, <1>3, <1>4, <1>5, <1>6, <1>7, <1>8, <1>9, <1>10, <1>11, <1>12, <1>13 DEF Effects

LEMMA RecKinds ==
  ASSUME IInv, Next
  PROVE  (rec' = rec /\ lastGen' = lastGen) \/ Stays \/ Begins \/ Ends
<1> USE DEF IInv
<1>1. CASE Pass
  BY <1>1, PassRecords
<1>2. CASE Effects
  BY <1>2, EffectRecords
<1>3. CASE Users \/ StartPass \/ PollCreates \/ Crash \/ AgentHub \/ RetryDue
  <2>1. UNCHANGED lastGen /\ (rec' = rec \/ RequestReplacement \/ RetryDue)
    BY <1>3 DEF Users, Sends, Accept, Promotions, Promote, ArchiveResource, RequestReplacement, EndTurn,
         StartPass, PollCreates, Crash, RetryDue, AgentHub, TurnEnds, ProviderExit, HubStopped,
         ExternalArchive, ReplyTurn, LateArrives
  <2>2. CASE RequestReplacement \/ RetryDue
    <3>1. Current /\ rec \in GenRecord
      BY <2>2, RecFacts DEF RequestReplacement, RetryDue, Bound
    <3>2. rec' = [rec EXCEPT !.replacement = TRUE] \/ rec' = [rec EXCEPT !.backoff = FALSE]
      BY <2>2 DEF RequestReplacement, RetryDue
    <3>3. QED  BY <2>1, <3>1, <3>2 DEF Stays, GenRecord
  <2>3. QED  BY <2>1, <2>2
<1>4. CASE Retirement
  <2>1. Current /\ rec \in GenRecord /\ Bound /\ S.st \in HubStates \ {"none"} /\ At("idle")
    BY <1>4, RecFacts DEF Retirement, RetireNothing, RetireAsleep, RetireActive, RetireArchived,
         RetireStop, RetireContinue, Undisturbed, Retiring, GenInv
  <2>2. CASE RetireNothing \/ RetireContinue
    BY <2>2 DEF RetireNothing, RetireContinue
  <2>3. CASE RetireAsleep
    <3>1. Like(Applied(rec, S), rec)
      BY <2>1, AppliedLike
    <3>2. Like(Confirmed(Applied(rec, S)), Applied(rec, S))
      BY <3>1, ConfirmedLike DEF Like
    <3>3. Like(Confirmed(Applied(rec, S)), rec)
      BY <3>1, <3>2 DEF Like
    <3>4. QED  BY <2>1, <2>3, <3>3, StaysFacts DEF RetireAsleep
  <2>4. CASE RetireActive
    <3>1. rec' = [rec EXCEPT !.status = "running", !.idleSleep = FALSE] /\ lastGen' = lastGen
      BY <2>4 DEF RetireActive
    <3>2. QED  BY <2>1, <3>1 DEF Stays, GenRecord, RecordStatuses
  <2>5. CASE RetireArchived
    BY <2>1, <2>5 DEF RetireArchived, Retired, Ends, At
  <2>6. CASE RetireStop
    <3>1. PICK rc \in Receipts : rec' = [rec EXCEPT !.status = "stopping", !.receipt = rc]
      <4>1. [op |-> "stop", state |-> "requested"] \in Receipts /\ rec.receipt \in Receipts
        BY <2>1, ReceiptTypes, FieldTypes
      <4>2. QED  BY <2>6, <4>1 DEF RetireStop
    <3>2. lastGen' = lastGen
      BY <2>6 DEF RetireStop
    <3>3. QED  BY <2>1, <3>1, <3>2 DEF Stays, GenRecord, RecordStatuses
  <2>7. QED  BY <1>4, <2>2, <2>3, <2>4, <2>5, <2>6 DEF Retirement
<1>5. CASE Poll
  <2>1. Current /\ S.st # "none" => Like(Projected(rec, S), rec)
    BY ProjectedLike, RecFacts
  <2>2. UNCHANGED <<hub, lastGen>> /\ w'.pc = "idle"
    BY <1>5 DEF Poll, At
  <2>3. QED  BY <1>5, <2>1, <2>2, ReconciledRecords DEF Poll
<1>6. QED  BY <1>1, <1>2, <1>3, <1>4, <1>5 DEF Next

-----------------------------------------------------------------------------
(* What a step does to the job, and to what it waits for.                  *)

Calls == {"resume", "interrupt", "deliver", "stop", "stopwait", "archive", "endturn"}

LEMMA GenStays ==
  ASSUME IInv, Next, w'.pc \in Calls, Bound
  PROVE  Bound' /\ rec'.gen = rec.gen
<1>1. NoRec \notin GenRecord /\ rec \in GenRecord
  BY RecFacts DEF IInv, Bound
<1>2. ~Begins /\ ~Ends
  BY DEF Begins, Ends, Calls
<1>3. CASE rec' = rec /\ lastGen' = lastGen
  BY <1>3 DEF Bound, Current
<1>4. CASE Stays
  BY <1>1, <1>4 DEF Stays, Bound, Current
<1>5. QED  BY <1>2, <1>3, <1>4, RecKinds

LEMMA JobTypes ==
  /\ Rest \in Job /\ Rest.pc = "idle"
  /\ \A pc \in Steps, m \in Msgs \union {NoMessage} :
       On(pc, m) \in Job /\ On(pc, m).pc = pc /\ On(pc, m).msg = m
  /\ \A pc \in Steps, m \in Msgs \union {NoMessage}, t \in Turns :
       LET x == [On(pc, m) EXCEPT !.turn = t] IN x \in Job /\ x.pc = pc /\ x.msg = m
<1>1. Rest \in Job
  BY DEF Rest, Job, Steps, Turns, NoTurn
<1>2. QED  BY <1>1 DEF On, Rest, Job

LEMMA GuardTypes ==
  ASSUME TypeOK, GenInv, NEW t \in Turns, NEW m \in Message
  PROVE  FactTurn(t, m) \in Turns
BY DEF FactTurn, Message

(* A job that begins a call, or one that ends.                             *)
LEMMA PassJobs ==
  ASSUME IInv, Next, Pass
  PROVE  w' \in Job /\ JobInv'
<1> USE DEF IInv
<1>0. /\ At("pass") /\ w \in Job
      /\ Observed => /\ Head \in Msgs /\ Head \in Pendings /\ H \in Message /\ Bound
                     /\ ActiveTurn(rec.gen) \in Turns
      /\ PassCreate => Head \in Msgs /\ Head \in Pendings
  <2>1. At("pass")
    BY ObservedFacts DEF Pass, PassArchived, PassDone, PassUnknown, PassCreate, PassUnbound, PassHeld,
         PassReplace, PassBlocked, PassRetire, PassResume, PassInterrupting, PassInterrupt,
         PassWait, PassDeliver, Ordinary, Proceeds, Ready, Working
  <2>2. QED  BY <2>1, ObservedFacts, WorkingFacts DEF TypeOK, PassCreate
<1>1. CASE w'.pc \in {"idle", "pass"} /\ w' \in Job
  BY <1>1 DEF JobInv
<1>2. CASE PassArchived \/ PassDone \/ PassUnknown \/ PassUnbound \/ PassHeld \/ PassReplace
           \/ PassBlocked \/ PassRetire \/ PassWait
  <2>1. w' = Rest \/ w' = w
    BY <1>2 DEF PassArchived, PassDone, PassUnknown, PassUnbound, PassHeld, PassReplace,
         PassBlocked, PassRetire, PassWait, Go
  <2>2. QED  BY <1>0, <1>1, <2>1, JobTypes DEF At
<1>3. CASE PassCreate
  <2>1. w' = On("create", Head) /\ lastGen + 1 \in Gens /\ rec' = NewRecord(lastGen + 1)
        /\ UNCHANGED mail
    BY <1>3 DEF PassCreate, StartCreate, Go
  <2>2. w' \in Job /\ w'.pc = "create" /\ w'.msg = Head /\ mail[Head].status \in PendingStatuses
    BY <1>0, <1>3, <2>1, JobTypes DEF Steps, Pendings
  <2>3. Current'
    <3>1. rec' \in GenRecord /\ NoRec \notin GenRecord
      BY <2>1, NewRecordType, RecFacts
    <3>2. QED  BY <3>1 DEF Current
  <2>4. QED  BY <2>1, <2>2, <2>3 DEF JobInv
<1>4. CASE PassResume
  <2>1. w' = [On("resume", Head) EXCEPT !.turn = FactTurn(NoTurn, H)] /\ UNCHANGED mail /\ Observed
    BY <1>4 DEF PassResume, Go
  <2>2. w' \in Job /\ w'.pc = "resume" /\ w'.msg = Head
    BY <1>0, <2>1, JobTypes, GuardTypes, TurnTypes DEF Steps
  <2>3. Bound' /\ Current'
    BY <1>0, <2>1, <2>2, GenStays DEF Calls, Bound
  <2>4. QED  BY <1>0, <2>1, <2>2, <2>3 DEF JobInv, Pendings
<1>5. CASE PassInterrupting \/ PassInterrupt
  <2>1. Observed /\ (w' = Guarded("interrupt") \/ w' = Rest \/ w' = w)
    BY <1>5 DEF PassInterrupting, PassInterrupt, Go, Proceeds
  <2>2. CASE w' = Guarded("interrupt")
    <3>1. w' \in Job /\ w'.pc = "interrupt"
      BY <1>0, <2>1, <2>2, JobTypes, GuardTypes DEF Steps, Guarded
    <3>2. Bound' /\ Current'
      BY <1>0, <2>1, <3>1, GenStays DEF Calls, Bound
    <3>3. QED  BY <3>1, <3>2 DEF JobInv
  <2>3. QED  BY <1>0, <1>1, <2>1, <2>2, JobTypes DEF At
<1>6. CASE PassDeliver
  <2>1. /\ Observed /\ w' = Guarded("deliver")
        /\ Put(Head, [Resolved EXCEPT !.status = "delivering", !.gen = rec.gen,
                                !.turn = ActiveTurn(rec.gen)])
    BY <1>6 DEF PassDeliver, Go, Proceeds, Ordinary
  <2>2. w' \in Job /\ w'.pc = "deliver" /\ w'.msg = Head
    BY <1>0, <2>1, JobTypes, GuardTypes DEF Steps, Guarded
  <2>3. Bound' /\ Current' /\ rec'.gen = rec.gen
    BY <1>0, <2>1, <2>2, GenStays DEF Calls, Bound
  <2>4. mail'[Head].status = "delivering" /\ mail'[Head].gen = rec.gen
    <3>1. Resolved \in Message
      <4>1. Resolved = H \/ \E a \in {"steer", "enqueue"} : Resolved = [H EXCEPT !.frozen = TRUE, !.actual = a]
        BY Zenon DEF Resolved
      <4>2. \A a \in {"steer", "enqueue"} : [H EXCEPT !.frozen = TRUE, !.actual = a] \in Message
        BY <1>0, <2>1 DEF Message, Modes
      <4>3. QED  BY <1>0, <2>1, <4>1, <4>2
    <3>2. mail'[Head] = [Resolved EXCEPT !.status = "delivering", !.gen = rec.gen,
                                !.turn = ActiveTurn(rec.gen)]
      BY <1>0, <2>1 DEF Put, TypeOK
    <3>3. QED  BY <3>1, <3>2 DEF Message
  <2>5. QED  BY <1>0, <2>1, <2>2, <2>3, <2>4 DEF JobInv
<1>7. QED  BY <1>2, <1>3, <1>4, <1>5, <1>6 DEF Pass

LEMMA EffectJobs ==
  ASSUME IInv, Next, Effects
  PROVE  w' \in Job /\ JobInv'
<1> USE DEF IInv
<1>1. CASE w' = Rest \/ w' = On("pass", NoMessage)
  BY <1>1, JobTypes DEF JobInv, Steps
<1>2. ASSUME NEW pc \in {"archive", "stopwait"}, w' = On(pc, NoMessage), Bound
      PROVE  w' \in Job /\ JobInv'
  <2>1. w' \in Job /\ w'.pc = pc
    BY <1>2, JobTypes DEF Steps
  <2>2. Bound' /\ Current'
    BY <1>2, <2>1, GenStays DEF Calls, Bound
  <2>3. QED  BY <2>1, <2>2 DEF JobInv
<1>3. ASSUME w' = On("create", NoMessage), Begins \/ (rec' = rec /\ Current) PROVE w' \in Job /\ JobInv'
  <2>1. w' \in Job /\ w'.pc = "create" /\ w'.msg = NoMessage
    BY <1>3, JobTypes DEF Steps
  <2>2. rec' \in GenRecord /\ NoRec \notin GenRecord
    BY <1>3, NewRecordType, RecFacts DEF Begins
  <2>3. Current'
    BY <2>2 DEF Current
  <2>4. QED  BY <2>1, <2>3 DEF JobInv
<1>4. CASE EndTurnInterrupts \/ EndTurnFails \/ CreateOk \/ CreateFails
           \/ DeliverOk \/ DeliverRefused \/ DeliverLost \/ InterruptOk \/ InterruptFails
           \/ ResumeOk \/ ResumeFails \/ StopFails \/ StopArchived \/ StopUnconfirmed \/ ArchiveFails
  BY <1>1, <1>4 DEF EndTurnInterrupts, EndTurnFails, CreateOk, CreateFails, DeliverOk, DeliverRefused,
       DeliverLost, InterruptOk, InterruptFails, ResumeOk, ResumeFails, StopFails, StopArchived,
       StopUnconfirmed, ArchiveFails, Go
<1>5. CASE ResumeImpossible
  <2>1. w' = On("pass", NoMessage) \/ (w' = On("archive", NoMessage) /\ Bound)
    BY <1>5 DEF ResumeImpossible, Go, JobInv, At
  <2>2. QED  BY <1>1, <1>2, <2>1
<1>6. CASE StopOk \/ StopConfirmed
  <2>1. Bound /\ (w' = Rest \/ \E pc \in {"archive", "stopwait"} : w' = On(pc, NoMessage))
    BY <1>6 DEF StopOk, StopConfirmed, Go, JobInv, At
  <2>2. QED  BY <1>1, <1>2, <2>1
<1>7. CASE ArchiveOk
  <2>1. w' = Rest \/ (w' = On("create", NoMessage) /\ StartCreate(NoMessage))
    BY <1>7 DEF ArchiveOk, StartCreate, Go
  <2>2. StartCreate(NoMessage) => Begins
    BY DEF StartCreate, Begins, Go, On, Rest
  <2>3. QED  BY <1>1, <1>3, <2>1, <2>2
<1>8. CASE Recover
  <2>1. w' = Rest \/ (w' = On("create", NoMessage) /\ rec' = rec /\ Current)
    BY <1>8 DEF Recover, Go
  <2>2. QED  BY <1>1, <1>3, <2>1
<1>9. QED  BY <1>4, <1>5, <1>6, <1>7, <1>8 DEF Effects

LEMMA JobSteps ==
  ASSUME IInv, Next
  PROVE  w' \in Job /\ JobInv'
<1> USE DEF IInv
<1>1. CASE Pass
  BY <1>1, PassJobs
<1>2. CASE Effects
  BY <1>2, EffectJobs
<1>3. CASE Sends \/ ArchiveResource \/ AgentHub
  <2>1. w' = w /\ rec' = rec /\ (mail' = mail \/ \E m \in Msgs, mode \in SendModes : Accept(m, mode))
    BY <1>3 DEF Sends, Accept, ArchiveResource, AgentHub, TurnEnds, ProviderExit, HubStopped,
         ExternalArchive, ReplyTurn, LateArrives
  <2>2. \A m \in Msgs : mail[m].status \in PendingStatuses => mail'[m] = mail[m]
    BY <2>1 DEF Accept, Put, TypeOK, PendingStatuses
  <2>3. w' \in Job
    BY <2>1 DEF TypeOK
  <2>4. \A m \in Msgs \union {NoMessage} : m # NoMessage => m \in Msgs
    OBVIOUS
  <2>5. w.msg \in Msgs \union {NoMessage}
    BY DEF TypeOK, Job
  <2>6. QED  BY <2>1, <2>2, <2>3, <2>4, <2>5 DEF JobInv, Current, Bound, PendingStatuses
<1>4. CASE Promotions \/ StartPass \/ PollCreates \/ Crash \/ EndTurn
  <2>1. \/ w' \in {On("pass", NoMessage), On("recover", NoMessage)}
        \/ w' = On("create", NoMessage) /\ rec' = rec /\ Current
        \/ w' = On("endturn", NoMessage) /\ rec' = rec /\ Bound
    BY <1>4 DEF Promotions, Promote, StartPass, PollCreates, Crash, EndTurn, Go
  <2>2. QED  BY <2>1, JobTypes DEF JobInv, Steps, Bound, Current
<1>5. CASE RequestReplacement \/ RetryDue \/ Poll
  <2>1. w' = w /\ At("idle")
    BY <1>5 DEF RequestReplacement, RetryDue, Poll
  <2>2. QED  BY <2>1 DEF JobInv, At, TypeOK
<1>6. CASE Retirement
  <2>1. \/ w' = w /\ At("idle")
        \/ \E pc \in {"stop", "stopwait", "archive"} : w' = On(pc, NoMessage) /\ Bound
    BY <1>6 DEF Retirement, RetireNothing, RetireAsleep, RetireActive, RetireArchived, RetireStop,
         RetireContinue, Undisturbed, Retiring, Go
  <2>2. CASE w' = w /\ At("idle")
    BY <2>2 DEF JobInv, At, TypeOK
  <2>3. ASSUME NEW pc \in {"stop", "stopwait", "archive"}, w' = On(pc, NoMessage), Bound
        PROVE  w' \in Job /\ JobInv'
    <3>1. w' \in Job /\ w'.pc = pc
      BY <2>3, JobTypes DEF Steps
    <3>2. Bound' /\ Current'
      BY <2>3, <3>1, GenStays DEF Calls, Bound
    <3>3. QED  BY <3>1, <3>2 DEF JobInv
  <2>4. QED  BY <2>1, <2>2, <2>3
<1>7. QED  BY <1>1, <1>2, <1>3, <1>4, <1>5, <1>6 DEF Next, Users

-----------------------------------------------------------------------------
(* The rest of the state.                                                  *)

LEMMA RetireTypes == \A r, s : RetireAfter(r, s) \in BOOLEAN
BY DEF RetireAfter

LEMMA RetireSteps ==
  ASSUME IInv, Next
  PROVE  retireQ' \in BOOLEAN
<1> USE DEF IInv
<1>0. retireQ \in BOOLEAN
  BY DEF TypeOK
<1>1. CASE Users \/ StartPass \/ PollCreates \/ RetryDue \/ Crash \/ AgentHub
  BY <1>0, <1>1 DEF Users, Sends, Accept, Promotions, Promote, ArchiveResource, RequestReplacement,
       EndTurn, StartPass, PollCreates, RetryDue, Crash, AgentHub, TurnEnds, ProviderExit, HubStopped,
       ExternalArchive, ReplyTurn, LateArrives
<1>2. CASE Pass
  <2>1. retireQ' \in {retireQ, TRUE, FALSE} \/ retireQ' = RetireAfter(Seen, S)
    BY <1>2 DEF Pass, PassArchived, PassDone, PassUnknown, PassCreate, StartCreate, PassUnbound, PassHeld,
         PassReplace, PassBlocked, PassRetire, PassResume, PassInterrupting, PassInterrupt, PassWait,
         PassDeliver, Ordinary, Project, Retired
  <2>2. QED  BY <1>0, <2>1, RetireTypes
<1>3. ASSUME NEW r, Reconciled(r) PROVE retireQ' \in BOOLEAN
  <2>1. \/ retireQ' = retireQ \/ retireQ' = FALSE
        \/ \E due \in BOOLEAN : retireQ' = (RetireAfter(r, S) \/ GoesToSleep(r, due))
    BY <1>3 DEF Reconciled, Retired, Watch
  <2>2. \A due : (RetireAfter(r, S) \/ GoesToSleep(r, due)) \in BOOLEAN
    OBVIOUS
  <2>3. QED  BY <1>0, <2>1, <2>2
<1>4. CASE Recover \/ Poll
  <2>1. retireQ' = retireQ \/ Reconciled(Applied(rec, S)) \/ Reconciled(Projected(rec, S))
    BY <1>4 DEF Recover, Poll
  <2>2. QED  BY <1>0, <1>3, <2>1
<1>5. CASE Retirement
  BY <1>0, <1>5 DEF Retirement, RetireNothing, RetireAsleep, RetireActive, RetireArchived, RetireStop,
       RetireContinue, Retired
<1>6. CASE Effects /\ ~Recover
  <2>1. \/ retireQ' \in {retireQ, FALSE}
        \/ retireQ' = RetireAfter(rec', [S EXCEPT !.st = "ready"])
        \/ retireQ' = RetireAfter(rec', Taken(rec.gen, w.msg))
    BY <1>6 DEF Effects, EndTurnInterrupts, EndTurnFails, CreateOk, CreateFails, DeliverOk, DeliverRefused,
         DeliverLost, InterruptOk, InterruptFails, ResumeOk, ResumeFails, ResumeImpossible, StopOk,
         StopFails, StopConfirmed, StopArchived, StopUnconfirmed, ArchiveOk, ArchiveFails, StartCreate, Retired
  <2>2. QED  BY <1>0, <2>1, RetireTypes
<1>7. QED  BY <1>1, <1>2, <1>4, <1>5, <1>6 DEF Next

LEMMA FaultSteps ==
  ASSUME IInv, Next
  PROVE  /\ faults' \in 0 .. MaxFaults
         /\ archived' \in BOOLEAN /\ (archived => archived')
<1> USE DEF IInv
<1>1. (faults' = faults \/ Spend) /\ archived' \in {archived, TRUE}
  <2>1. CASE Users \/ StartPass \/ PollCreates \/ RetryDue \/ Crash \/ AgentHub \/ Poll
    BY <2>1 DEF Users, Sends, Accept, Promotions, Promote, ArchiveResource, RequestReplacement,
         EndTurn, StartPass, PollCreates, RetryDue, Crash, AgentHub, TurnEnds, ProviderExit, HubStopped,
         ExternalArchive, ReplyTurn, LateArrives, Poll
  <2>2. CASE Pass
    BY <2>2 DEF Pass, PassArchived, PassDone, PassUnknown, PassCreate, PassUnbound, PassHeld,
         PassReplace, PassBlocked, PassRetire, PassResume, PassInterrupting, PassInterrupt, PassWait,
         PassDeliver
  <2>3. CASE Retirement
    BY <2>3 DEF Retirement, RetireNothing, RetireAsleep, RetireActive, RetireArchived, RetireStop,
         RetireContinue
  <2>4. CASE Effects
    BY <2>4 DEF Effects, EndTurnInterrupts, EndTurnFails, CreateOk, CreateFails, DeliverOk, DeliverRefused,
         DeliverLost, InterruptOk, InterruptFails, ResumeOk, ResumeFails, ResumeImpossible, StopOk,
         StopFails, StopConfirmed, StopArchived, StopUnconfirmed, ArchiveOk, ArchiveFails, Recover
  <2>5. QED  BY <2>1, <2>2, <2>3, <2>4 DEF Next
<1>2. archived' \in BOOLEAN /\ (archived => archived')
  <2>1. archived \in BOOLEAN
    BY DEF TypeOK
  <2>2. archived' = archived \/ archived' = TRUE
    BY <1>1
  <2>3. archived' \in BOOLEAN
    BY <2>1, <2>2
  <2>4. archived => archived'
    BY <2>2, Zenon
  <2>5. QED  BY <2>3, <2>4
<1>3. faults' \in 0 .. MaxFaults
  BY <1>1 DEF Spend, TypeOK
<1>4. QED  BY <1>2, <1>3

(* A request PUA gave up on is one it had begun.                           *)
LEMMA LateSteps ==
  ASSUME IInv, Next
  PROVE  /\ late' \subseteq [gen : Gens, msg : Msgs, steer : BOOLEAN]
         /\ \A q \in late' :
              q \in late \/ (At("deliver") /\ DeliverLost /\ q.msg = w.msg /\ q.gen = rec.gen)
<1> USE DEF IInv
<1>1. CASE \E q \in late : LateArrives(q)
  BY <1>1 DEF LateArrives, TypeOK
<1>2. CASE DeliverLost
  <2>1. /\ At("deliver") /\ w.msg \in Msgs /\ rec.gen \in Gens /\ Steers \in BOOLEAN
        /\ late' = late \/ late' = late \union {[gen |-> rec.gen, msg |-> w.msg, steer |-> Steers]}
    BY <1>2, RecFacts DEF DeliverLost, JobInv, At, Steers
  <2>2. QED  BY <1>2, <2>1 DEF TypeOK
<1>3. CASE late' = late
  BY <1>3 DEF TypeOK
<1>4. CASE Users \/ StartPass \/ PollCreates \/ RetryDue \/ Crash \/ Poll \/ Pass \/ Retirement
  <2>1. late' = late
    BY <1>4 DEF Users, Sends, Accept, Promotions, Promote, ArchiveResource, RequestReplacement,
         EndTurn, StartPass, PollCreates, RetryDue, Crash, Poll,
         Pass, PassArchived, PassDone, PassUnknown, PassCreate, PassUnbound, PassHeld,
         PassReplace, PassBlocked, PassRetire, PassResume, PassInterrupting, PassInterrupt, PassWait,
         PassDeliver, Retirement, RetireNothing, RetireAsleep, RetireActive, RetireArchived, RetireStop,
         RetireContinue
  <2>2. QED  BY <1>3, <2>1
<1>5. CASE Effects
  <2>1. late' = late \/ DeliverLost
    BY <1>5 DEF Effects, EndTurnInterrupts, EndTurnFails, CreateOk, CreateFails, DeliverOk, DeliverRefused,
         InterruptOk, InterruptFails, ResumeOk, ResumeFails, ResumeImpossible, StopOk,
         StopFails, StopConfirmed, StopArchived, StopUnconfirmed, ArchiveOk, ArchiveFails, Recover
  <2>2. QED  BY <1>2, <1>3, <2>1
<1>6. CASE AgentHub
  <2>1. late' = late \/ \E q \in late : LateArrives(q)
    BY <1>6 DEF AgentHub, TurnEnds, ProviderExit, HubStopped, ExternalArchive, ReplyTurn
  <2>2. QED  BY <1>1, <1>3, <2>1
<1>7. QED  BY <1>4, <1>5, <1>6 DEF Next

-----------------------------------------------------------------------------
(* The invariant.                                                          *)

LEMMA AcceptMail ==
  ASSUME IInv, NEW m \in Msgs, NEW mode \in SendModes, Accept(m, mode)
  PROVE  /\ mail[m].status = "none"
         /\ \A o \in Msgs : o # m => mail'[o] = mail[o]
         /\ mail'[m] \in Message /\ mail'[m].status = "queued" /\ mail'[m].requested = mode
         /\ mail'[m].actual = mode /\ mail'[m].gen = mail[m].gen
         /\ mail'[m].promoted = mail[m].promoted /\ mail'[m].fails = mail[m].fails
         /\ mail'[m].seq = 1 + Cardinality(Accepted)
         /\ Accepted' = Accepted \union {m}
         /\ Cardinality(Accepted) \in Nat /\ Cardinality(Accepted') = Cardinality(Accepted) + 1
<1> USE DEF IInv
<1>1. mail[m] \in Message /\ mail[m].status = "none" /\ mail[m].seq = 0 /\ m \notin Accepted
  BY DEF Accept, TypeOK, MailInv, Accepted
<1>2. IsFiniteSet(Accepted) /\ Cardinality(Accepted) \in Nat /\ Cardinality(Msgs) \in Nat
  BY FS_Subset, FS_CardinalityType DEF Accepted
<1>3. /\ Cardinality(Accepted \union {m}) = Cardinality(Accepted) + 1
      /\ Cardinality(Accepted \union {m}) <= Cardinality(Msgs)
  <2>1. Accepted \union {m} \subseteq Msgs
    BY DEF Accepted
  <2>2. QED  BY <1>1, <1>2, <2>1, FS_AddElement, FS_Subset
<1> DEFINE x == [mail[m] EXCEPT !.status = "queued", !.requested = mode, !.actual = mode,
                   !.seq = 1 + Cardinality(Accepted)]
<1>4. mail' = [mail EXCEPT ![m] = x]
  BY DEF Accept, Put, Accepted
<1>5. mode \in Modes
  OBVIOUS
<1>6. /\ x \in Message /\ x.status = "queued" /\ x.requested = mode /\ x.actual = mode
      /\ x.gen = mail[m].gen /\ x.promoted = mail[m].promoted /\ x.fails = mail[m].fails
      /\ x.seq = 1 + Cardinality(Accepted)
  <2>1. 1 + Cardinality(Accepted) \in 0 .. Cardinality(Msgs) /\ "queued" \in Statuses
    BY <1>2, <1>3 DEF Statuses, PendingStatuses
  <2>2. QED  BY <1>1, <1>5, <2>1 DEF Message
<1> HIDE DEF x
<1>7. mail'[m] = x /\ \A o \in Msgs : o # m => mail'[o] = mail[o]
  BY <1>4 DEF TypeOK
<1>8. Accepted' = Accepted \union {m}
  BY <1>2, <1>6, <1>7 DEF Accepted
<1>9. QED  BY <1>1, <1>2, <1>3, <1>6, <1>7, <1>8

LEMMA AcceptFrame ==
  ASSUME NEW m, NEW mode, Accept(m, mode)
  PROVE  UNCHANGED <<rec, lastGen, hub, archived, w, retireQ, late, faults>> /\ ~archived
BY DEF Accept

LEMMA AcceptInv ==
  ASSUME IInv, NEW m \in Msgs, NEW mode \in SendModes, Accept(m, mode)
  PROVE  mail' \in [Msgs -> Message] /\ MailInv' /\ InputInv'
<1> USE DEF IInv
<1>1. /\ mail[m].status = "none" /\ mail[m].gen <= lastGen /\ mail[m].fails < MaxStartFailures
      /\ \A o \in Msgs : o # m => mail'[o] = mail[o]
      /\ mail'[m] \in Message /\ mail'[m].status = "queued" /\ mail'[m].gen = mail[m].gen
      /\ mail'[m].fails = mail[m].fails /\ mail'[m].seq = 1 + Cardinality(Accepted)
      /\ Cardinality(Accepted) \in Nat /\ Cardinality(Accepted') = Cardinality(Accepted) + 1
  BY AcceptMail DEF MailInv
<1>2. mail' \in [Msgs -> Message]
  BY <1>1 DEF Accept, Put, TypeOK
<1>3. \A o \in Msgs : mail[o].seq \in Nat /\ mail[o].seq <= Cardinality(Accepted)
  BY MailTypes DEF MailInv
<1>4. MailInv'
  BY <1>1, <1>3, AcceptFrame DEF MailInv, Flown, PendingStatuses
<1>5. InputInv'
  BY <1>1, AcceptFrame DEF InputInv, Flown, TypeOK
<1>6. QED  BY <1>2, <1>4, <1>5

LEMMA MailShape ==
  ASSUME IInv, Next
  PROVE  mail' = [m \in Msgs |-> mail'[m]]
<1>0. mail = [m \in Msgs |-> mail[m]]
  BY DEF IInv, TypeOK
<1>1. CASE Users \/ StartPass \/ PollCreates \/ RetryDue \/ Crash \/ AgentHub \/ Poll
  BY <1>0, <1>1 DEF Users, Sends, Accept, Promotions, Promote, ArchiveResource, RequestReplacement,
       EndTurn, StartPass, PollCreates, RetryDue, Crash, AgentHub, TurnEnds, ProviderExit, HubStopped,
       ExternalArchive, ReplyTurn, LateArrives, Poll, Put
<1>2. CASE Pass
  <2>1. mail' = mail \/ PassArchived \/ \E x : Put(Head, x)
    BY <1>2, Zenon DEF Pass, PassDone, PassUnknown, PassCreate, PassUnbound, PassHeld,
         PassReplace, PassBlocked, PassRetire, PassResume, PassInterrupting, PassInterrupt, PassWait,
         PassDeliver
  <2>2. QED  BY <1>0, <2>1 DEF Put, PassArchived
<1>3. CASE Retirement
  BY <1>0, <1>3 DEF Retirement, RetireNothing, RetireAsleep, RetireActive, RetireArchived, RetireStop,
       RetireContinue
<1>4. CASE Effects
  <2>1. \/ mail' = mail \/ mail' = SteersCancelled \/ mail' = CountFailure(w.msg)
        \/ \E x : Put(w.msg, x)
    BY <1>4, Zenon DEF Effects, EndTurnInterrupts, EndTurnFails, CreateOk, CreateFails, DeliverOk,
         DeliverRefused, DeliverLost, InterruptOk, InterruptFails, ResumeOk, ResumeFails,
         ResumeImpossible, StopOk, StopFails, StopConfirmed, StopArchived, StopUnconfirmed, ArchiveOk,
         ArchiveFails, Recover
  <2>2. QED  BY <1>0, <2>1 DEF Put, SteersCancelled, CountFailure
<1>5. QED  BY <1>1, <1>2, <1>3, <1>4 DEF Next

LEMMA MovesMail ==
  ASSUME IInv, Next, \A m \in Msgs : Moves(m)
  PROVE  mail' \in [Msgs -> Message] /\ MailInv'
<1> USE DEF IInv
<1>1. mail' \in [Msgs -> Message]
  <2>1. mail' = [m \in Msgs |-> mail'[m]]
    BY MailShape
  <2>2. QED  BY <2>1 DEF Moves
<1>2. Accepted' = Accepted
  BY DEF Accepted, Moves
<1>3. /\ lastGen \in Nat /\ lastGen' \in Nat /\ lastGen <= lastGen'
      /\ Current => rec.gen = lastGen
  BY RecKinds, RecFacts DEF Stays, Begins, Ends, GenInv
<1>4. \A m \in Msgs :
        /\ mail[m].seq \in Nat /\ mail[m].gen \in Nat /\ Moves(m)
        /\ mail[m].status = "none" <=> mail[m].seq = 0
        /\ mail[m].seq <= Cardinality(Accepted)
        /\ mail[m].status = "interrupting" \/ Flown(m) => mail[m].gen # 0
        /\ mail[m].status = "interrupting" => mail[m].requested = "interrupt"
        /\ mail[m].gen <= lastGen
  BY MailTypes DEF MailInv
<1>5. Current => rec.gen # 0
  BY RecFacts DEF Gens
<1>6. MailInv'
  <2>1. ASSUME NEW m \in Msgs
        PROVE  /\ (mail[m].status = "none" <=> mail[m].seq = 0)'
               /\ (mail[m].seq <= Cardinality(Accepted))'
               /\ (mail[m].status \in PendingStatuses \union {"none"} => mail[m].fails < MaxStartFailures)'
    BY <1>2, <1>4 DEF Moves
  <2>2. ASSUME NEW m \in Msgs
        PROVE  /\ (mail[m].status = "interrupting" \/ Flown(m) => mail[m].gen # 0)'
               /\ (mail[m].status = "interrupting" => mail[m].requested = "interrupt")'
               /\ (mail[m].gen <= lastGen)'
    BY <1>3, <1>4, <1>5 DEF Moves, Flown
  <2>3. \A a, b \in Msgs : mail'[a].seq = mail'[b].seq /\ mail'[a].seq # 0 => a = b
    BY <1>4 DEF Moves, MailInv
  <2>4. QED  BY <2>1, <2>2, <2>3 DEF MailInv
<1>7. QED  BY <1>1, <1>6

(* A message that was handed over stays so, for the same generation.       *)
LEMMA FlownStays ==
  ASSUME IInv, NEW m \in Msgs, Moves(m), Flown(m)
  PROVE  Flown(m)' /\ mail'[m].gen = mail[m].gen
BY DEF Moves, Flown

LEMMA MovesInput ==
  ASSUME IInv, Next, \A m \in Msgs : Moves(m)
  PROVE  InputInv'
<1> USE DEF IInv
<1>1. Enters
  BY HubSteps
<1>2. ASSUME NEW m \in Msgs, NEW g \in Gens, hub'[g].acc[m] # 0
      PROVE  Flown(m)' /\ g = mail'[m].gen
  <2>1. Flown(m) /\ g = mail[m].gen
    BY <1>1, <1>2 DEF Enters, InputInv
  <2>2. QED  BY <2>1, FlownStays
<1>3. ASSUME NEW m \in Msgs, mail'[m].status = "delivered"
      PROVE  hub'[mail'[m].gen].acc[m] # 0
  <2>1. /\ mail'[m].gen = mail[m].gen
        /\ \/ mail[m].status = "delivered"
           \/ mail[m].status = "delivering" /\ hub'[mail[m].gen].acc[m] # 0
    BY <1>3 DEF Moves
  <2>2. CASE mail[m].status = "delivered"
    <3>1. hub[mail[m].gen].acc[m] # 0 /\ mail[m].gen \in Gens
      BY <2>2, MailTypes DEF InputInv, MailInv, Flown
    <3>2. QED  BY <1>1, <2>1, <3>1 DEF Enters
  <2>3. QED  BY <2>1, <2>2
<1>4. ASSUME NEW q \in late' PROVE (Flown(q.msg) /\ q.gen = mail[q.msg].gen)'
  <2>1. q.msg \in Msgs /\ Flown(q.msg) /\ q.gen = mail[q.msg].gen
    <3>1. CASE q \in late
      BY <3>1 DEF InputInv, TypeOK
    <3>2. CASE At("deliver") /\ q.msg = w.msg /\ q.gen = rec.gen
      BY <3>2 DEF JobInv, At, Flown
    <3>3. QED  BY <3>1, <3>2, LateSteps
  <2>2. PICK m \in Msgs : m = q.msg
    BY <2>1
  <2>3. Flown(m)' /\ mail'[m].gen = mail[m].gen
    BY <2>1, <2>2, FlownStays
  <2>4. QED  BY <2>1, <2>2, <2>3
<1>5. QED  BY <1>2, <1>3, <1>4 DEF InputInv

LEMMA GenSteps ==
  ASSUME IInv, Next
  PROVE  GenInv' /\ rec' \in GenRecord \union {NoRec} /\ lastGen' \in 0 .. MaxFaults + 1
<1> USE DEF IInv
<1>1. Enters
  BY HubSteps
<1>2. \A g \in Gens : hub'[g].st = "running" => hub'[g].last # 0
  BY <1>1 DEF Enters
<1>3. lastGen \in 0 .. MaxFaults + 1
  BY DEF TypeOK
<1>4. CASE rec' = rec /\ lastGen' = lastGen
  BY <1>1, <1>2, <1>3, <1>4, RecFacts DEF GenInv, Enters, Current, Bound, S, TypeOK
<1>5. CASE Stays
  <2>1. /\ Current /\ rec' \in GenRecord /\ rec'.gen = rec.gen /\ lastGen' = lastGen /\ rec.gen = lastGen
        /\ rec.gen \in Gens
    BY <1>5, RecFacts DEF Stays, GenInv
  <2>2. rec'.bound => hub'[rec.gen].st # "none"
    <3>1. CASE rec.bound
      BY <1>1, <2>1, <3>1 DEF Enters, GenInv, Bound, S
    <3>2. CASE ~rec.bound
      BY <1>5, <3>2 DEF Stays
    <3>3. QED  BY <3>1, <3>2
  <2>3. QED  BY <1>2, <1>3, <2>1, <2>2 DEF GenInv, Current, Bound, S
<1>6. CASE Begins
  <2>1. /\ lastGen' = lastGen + 1 /\ lastGen + 1 \in Gens /\ rec' \in GenRecord
        /\ rec'.gen = lastGen + 1 /\ ~rec'.bound
    BY <1>6, NewRecordType DEF Begins
  <2>2. QED  BY <1>2, <2>1 DEF GenInv, Bound, S, Gens
<1>7. CASE Ends
  BY <1>2, <1>3, <1>7 DEF Ends, GenInv, Bound, Current
<1>8. QED  BY <1>4, <1>5, <1>6, <1>7, RecKinds

LEMMA InitInv == Init => IInv
<1> SUFFICES ASSUME Init PROVE IInv
  OBVIOUS
<1> USE DEF Init
<1>1. 0 \in 0 .. MaxStartFailures /\ 0 \in 0 .. MaxTurns /\ Cardinality(Msgs) \in Nat
  BY FS_CardinalityType
<1>2. \A m \in Msgs : mail[m] \in Message
  <2>1. [status |-> "none", requested |-> "enqueue", actual |-> "enqueue",
         frozen |-> FALSE, seq |-> 0, gen |-> 0, turn |-> NoTurn,
         intTurn |-> NoTurn, cut |-> FALSE, promoted |-> FALSE, fails |-> 0] \in Message
    BY <1>1 DEF Message, Statuses, Modes, Turns, NoTurn
  <2>2. QED  BY <2>1
<1>3. \A g \in Gens : hub[g] \in Session
  BY <1>1 DEF Session, HubStates
<1>4. TypeOK
  <2>1. mail \in [Msgs -> Message] /\ hub \in [Gens -> Session]
    BY <1>2, <1>3
  <2>2. w \in Job /\ 0 \in 0 .. MaxFaults /\ 0 \in 0 .. MaxFaults + 1
    BY JobTypes
  <2>3. QED  BY <2>1, <2>2 DEF TypeOK
<1>5. Accepted = {} /\ Cardinality(Accepted) = 0
  BY FS_EmptySet DEF Accepted
<1>6. MailInv
  BY <1>5 DEF MailInv, Flown, PendingStatuses
<1>7. InputInv /\ JobInv /\ GenInv
  BY DEF InputInv, JobInv, GenInv, Flown, Rest, Current, Bound
<1>8. QED  BY <1>4, <1>6, <1>7 DEF IInv

LEMMA NextInv == IInv /\ Next => IInv'
<1> SUFFICES ASSUME IInv, Next PROVE IInv'
  OBVIOUS
<1>1. mail' \in [Msgs -> Message] /\ MailInv' /\ InputInv'
  BY MailKinds, AcceptInv, MovesMail, MovesInput
<1>2. /\ GenInv' /\ rec' \in GenRecord \union {NoRec} /\ lastGen' \in 0 .. MaxFaults + 1
      /\ hub' \in [Gens -> Session] /\ w' \in Job /\ JobInv' /\ retireQ' \in BOOLEAN
      /\ faults' \in 0 .. MaxFaults /\ archived' \in BOOLEAN
      /\ late' \subseteq [gen : Gens, msg : Msgs, steer : BOOLEAN]
  BY GenSteps, HubSteps, JobSteps, RetireSteps, FaultSteps, LateSteps DEF Enters
<1>3. QED  BY <1>1, <1>2 DEF IInv, TypeOK

LEMMA StutterInv == IInv /\ UNCHANGED vars => IInv'
<1> SUFFICES ASSUME IInv, UNCHANGED vars PROVE IInv'
  OBVIOUS
<1>1. UNCHANGED <<mail, rec, lastGen, hub, archived, w, retireQ, late, faults>>
  BY DEF vars
<1>2. TypeOK' /\ MailInv'
  BY <1>1 DEF IInv, TypeOK, MailInv, Accepted, Flown
<1>3. InputInv' /\ JobInv' /\ GenInv'
  BY <1>1 DEF IInv, InputInv, JobInv, GenInv, Flown, Current, Bound, S
<1>4. QED  BY <1>2, <1>3 DEF IInv

(* The mailbox, the record, AgentHub and the controller stay well formed,  *)
(* whatever is sent, lost, late, crashed or replaced.                      *)
THEOREM SpecTypeOK == Spec => []TypeOK
<1>1. IInv => TypeOK
  BY DEF IInv
<1>2. QED  BY <1>1, InitInv, NextInv, StutterInv, PTL DEF Spec

-----------------------------------------------------------------------------
(* A final status tells the sender the truth (HonestStatus): what is       *)
(* delivered was taken by a Session, what was cancelled or given up never  *)
(* entered one and is not on its way into one.                             *)
THEOREM SpecHonestStatus == Spec => []HonestStatus
<1>1. IInv => HonestStatus
  <2> SUFFICES ASSUME IInv, NEW m \in Msgs
      PROVE  /\ mail[m].status = "delivered" => Taker(m) # {}
             /\ mail[m].status \in {"cancelled", "undeliverable"} =>
                  Taker(m) = {} /\ \A q \in late : q.msg # m
    BY DEF HonestStatus
  <2> USE DEF IInv
  <2>1. mail[m].status = "delivered" => Taker(m) # {}
    <3>1. ASSUME mail[m].status = "delivered" PROVE Taker(m) # {}
      <4>1. mail[m].gen \in Gens
        BY <3>1, MailTypes DEF MailInv, Flown
      <4>2. QED  BY <3>1, <4>1 DEF InputInv, Taker
    <3>2. QED  BY <3>1
  <2>2. ASSUME mail[m].status \in {"cancelled", "undeliverable"}
        PROVE  Taker(m) = {} /\ \A q \in late : q.msg # m
    <3>1. ~Flown(m)
      BY <2>2 DEF Flown
    <3>2. QED  BY <3>1 DEF InputInv, Taker
  <2>3. QED  BY <2>1, <2>2
<1>2. QED  BY <1>1, InitInv, NextInv, StutterInv, PTL DEF Spec

-----------------------------------------------------------------------------
(* Order.                                                                  *)

LEMMA OrderMoves ==
  ASSUME IInv, Next, OrderInv, \A m \in Msgs : Moves(m)
  PROVE  OrderInv'
<1> USE DEF IInv
<1>1. SUFFICES ASSUME NEW a \in Msgs, NEW b \in Msgs,
                      (/\ Enqueued(a) /\ Enqueued(b)
                       /\ 0 < mail[a].seq /\ mail[a].seq < mail[b].seq /\ Flown(b))'
               PROVE  mail'[a].status \in Terminal
  BY Zenon DEF OrderInv
<1>2. /\ Moves(a) /\ Moves(b) /\ Enqueued(a) /\ Enqueued(b)
      /\ 0 < mail[a].seq /\ mail[a].seq < mail[b].seq
  BY <1>1 DEF Moves, Enqueued
<1>3. mail[a].status \in Terminal => mail'[a].status \in Terminal
  BY <1>2 DEF Moves, Terminal
<1>4. mail[a].status \in Terminal
  <2>1. CASE Flown(b)
    BY <1>2, <2>1 DEF OrderInv
  <2>2. CASE ~Flown(b)
    <3>1. b = Head /\ mail[b].status = "queued"
      BY <1>1, <1>2, <2>2 DEF Moves, Flown, Enqueued, MailInv
    <3>2. b \in Pendings /\ Head # NoMessage /\ \A o \in Pendings \ {b} : Precedes(b, o)
      BY <3>1, HeadPrecedes DEF Pendings, PendingStatuses
    <3>3. mail[a].seq \in Nat /\ mail[b].seq \in Nat /\ mail[a] \in Message
          /\ mail[a].status # "none"
      BY <1>2, MailTypes DEF MailInv
    <3>4. Priority(mail[b]) = 5 /\ Priority(mail[a]) \in 0 .. 5
      BY <1>2, <3>1, PriorityType DEF Priority, Enqueued
    <3>5. a \notin Pendings
      <4>1. ~Precedes(b, a)
        BY <1>2, <3>3, <3>4 DEF Precedes
      <4>2. QED  BY <1>2, <3>2, <3>3, <4>1
    <3>6. QED  BY <3>3, <3>5 DEF Pendings, Message, Statuses, Terminal
  <2>3. QED  BY <2>1, <2>2
<1>5. QED  BY <1>3, <1>4

LEMMA OrderSteps == IInv /\ OrderInv /\ Next => OrderInv'
<1> SUFFICES ASSUME IInv, OrderInv, Next PROVE OrderInv'
  OBVIOUS
<1>1. CASE \E m \in Msgs, mode \in SendModes : Accept(m, mode)
  <2>1. PICK m \in Msgs, mode \in SendModes : Accept(m, mode)
    BY <1>1
  <2>2. /\ \A o \in Msgs : o # m => mail'[o] = mail[o]
        /\ ~Flown(m)' /\ mail'[m].seq = 1 + Cardinality(Accepted) /\ Cardinality(Accepted) \in Nat
        /\ \A o \in Msgs : mail[o].seq \in Nat /\ mail[o].seq <= Cardinality(Accepted)
    BY <2>1, AcceptMail, MailTypes DEF IInv, Flown, MailInv
  <2>3. QED  BY <2>2 DEF OrderInv, Enqueued, Flown
<1>2. QED  BY <1>1, MailKinds, OrderMoves

(* Two enqueued messages nobody promoted reach AgentHub in the order they  *)
(* were accepted (InOrder), whatever is lost, retried or replaced: what    *)
(* selectPendingMailboxMessage and the attempt's fixed generation promise. *)
THEOREM SpecInOrder == Spec => []InOrder
<1>1. Init => OrderInv
  BY DEF Init, OrderInv
<1>2. OrderInv /\ UNCHANGED vars => OrderInv'
  BY DEF OrderInv, Enqueued, Flown, vars
<1>3. IInv /\ OrderInv => InOrder
  <2>1. ASSUME IInv, NEW m \in Msgs, Taker(m) # {} PROVE Flown(m)
    BY <2>1 DEF IInv, InputInv, Taker
  <2>2. QED  BY <2>1 DEF OrderInv, InOrder, Enqueued
<1>4. QED  BY <1>1, <1>2, <1>3, InitInv, NextInv, StutterInv, OrderSteps, PTL DEF Spec

-----------------------------------------------------------------------------
(* The promise to the sender.                                              *)

LEMMA Few == \A T, x : T \subseteq {x} => Cardinality(T) = IF T = {} THEN 0 ELSE 1
<1>1. SUFFICES ASSUME NEW T, NEW x, T \subseteq {x} PROVE Cardinality(T) = IF T = {} THEN 0 ELSE 1
  OBVIOUS
<1>2. T = {} \/ T = {x}
  <2>1. ASSUME NEW y \in T PROVE T = {x}
    <3>1. x \in T
      BY <1>1, <2>1
    <3>2. QED  BY <1>1, <3>1
  <2>2. QED  BY <2>1
<1>3. QED  BY <1>2, FS_EmptySet, FS_Singleton

FateOf(st) == CASE st = "none" -> "unsent"
                [] st \in PendingStatuses -> "open"
                [] st = "delivered" -> "delivered"
                [] st = "delivery_unknown" -> "unknown"
                [] OTHER -> "dropped"

LEMMA Fates ==
  /\ FateOf("none") = "unsent" /\ FateOf("delivered") = "delivered"
  /\ FateOf("delivery_unknown") = "unknown"
  /\ \A st \in {"queued", "delivering", "interrupting"} : FateOf(st) = "open"
  /\ \A st \in {"cancelled", "undeliverable"} : FateOf(st) = "dropped"
  /\ \A m \in Msgs : Fate[m] = FateOf(mail[m].status) /\ Fate'[m] = FateOf(mail'[m].status)
BY DEF FateOf, Fate, PendingStatuses

LEMMA PromiseMoves ==
  ASSUME IInv, Next, IInv', NEW m \in Msgs, Moves(m),
         NEW x, x = Cardinality(Taker(m)), NEW y, y = Cardinality(Taker(m)')
  PROVE  LET f == Fate[m]  h == Fate'[m] IN
         \/ h = f /\ y = x
         \/ /\ f \in {"open", "unknown"} /\ x = 0 /\ y = 1
            /\ \/ h = f
               \/ f = "open" /\ h = "delivered"
         \/ f = "open" /\ x = 1 /\ h = "delivered" /\ y = 1
         \/ f = "open" /\ x = 0 /\ h = "dropped" /\ y = 0
         \/ f = "open" /\ h = "unknown" /\ y = x
<1> USE DEF IInv
<1>1. /\ Fate[m] = FateOf(mail[m].status) /\ Fate'[m] = FateOf(mail'[m].status)
      /\ mail[m].status \in Statuses
  BY Fates DEF TypeOK, Message
<1>2. /\ x = IF Taker(m) = {} THEN 0 ELSE 1
      /\ y = IF Taker(m)' = {} THEN 0 ELSE 1
  <2>1. Taker(m) \subseteq {mail[m].gen}
    BY DEF Taker, InputInv
  <2>2. Taker(m)' \subseteq {mail'[m].gen}
    BY DEF Taker, InputInv
  <2>3. QED  BY <2>1, <2>2, Few
<1>3. ~Flown(m) => Taker(m) = {} /\ Taker(m)' = {}
  BY HubSteps DEF Enters, Taker, InputInv
<1>4. Taker(m) # {} => Taker(m)' # {}
  BY HubSteps DEF Enters, Taker
<1>5. CASE ~Flown(m)
  <2>1. x = 0 /\ y = 0
    BY <1>2, <1>3, <1>5
  <2>2. \/ mail'[m].status = mail[m].status
        \/ mail[m].status = "queued" /\ mail'[m].status \in {"cancelled", "undeliverable"}
        \/ mail[m].status = "interrupting" /\ mail'[m].status \in {"queued", "undeliverable"}
        \/ mail[m].status = "interrupting" /\ mail'[m].status = "delivery_unknown"
        \/ mail[m].status = "queued" /\ mail'[m].status \in {"interrupting", "delivering"}
    BY <1>5 DEF Moves, Flown
  <2>3. QED  BY <1>1, <2>1, <2>2, Fates
<1>6. CASE Flown(m)
  <2>1. mail[m].status = "delivered" => x = 1
    <3>1. ASSUME mail[m].status = "delivered" PROVE Taker(m) # {}
      <4>1. mail[m].gen \in Gens
        BY <1>6, MailTypes DEF MailInv
      <4>2. QED  BY <3>1, <4>1 DEF InputInv, Taker
    <3>2. QED  BY <1>2, <3>1
  <2>2. (x = 0 \/ x = 1) /\ (y = 0 \/ y = 1) /\ (x = 1 => y = 1)
    BY <1>2, <1>4
  <2>3. mail[m].status = "delivering" /\ mail'[m].status = "delivered" => y = 1
    <3>1. ASSUME mail[m].status = "delivering", mail'[m].status = "delivered" PROVE y = 1
      <4>1. mail[m].gen \in Gens /\ hub'[mail[m].gen].acc[m] # 0
        BY <1>6, <3>1, MailTypes DEF MailInv, Moves
      <4>2. Taker(m)' # {}
        BY <4>1 DEF Taker
      <4>3. QED  BY <1>2, <4>2
    <3>2. QED  BY <3>1
  <2>4. mail[m].status = "delivering" /\ mail'[m].status = "delivery_unknown" => y = x
    <3>1. UNCHANGED hub => Taker(m)' = Taker(m)
      BY DEF Taker
    <3>2. QED  BY <1>2, <3>1 DEF Moves
  <2>5. \/ mail[m].status = "delivering" /\ mail'[m].status \in {"delivering", "delivered", "delivery_unknown"}
        \/ mail[m].status \in {"delivered", "delivery_unknown"} /\ mail'[m].status = mail[m].status
    BY <1>6 DEF Moves, Flown
  <2>6. QED  BY <1>1, <2>1, <2>2, <2>3, <2>4, <2>5, Fates
<1>7. QED  BY <1>5, <1>6

LEMMA PromiseNext == IInv /\ IInv' /\ Next => Promise!Next
<1> SUFFICES ASSUME IInv, IInv', Next, NEW m \in Msgs
    PROVE  \/ Promise!Same(m) \/ Promise!Send(m) \/ Promise!Enter(m) \/ Promise!Confirm(m)
           \/ Promise!Drop(m) \/ Promise!LoseSight(m)
  BY DEF Promise!Next
<1> DEFINE In == [k \in Msgs |-> Cardinality(Taker(k))]
<1>1. In[m] = Cardinality(Taker(m)) /\ In'[m] = Cardinality(Taker(m)')
  OBVIOUS
<1>2. CASE Moves(m)
  BY <1>1, <1>2, PromiseMoves DEF Promise!Same, Promise!Enter, Promise!Confirm, Promise!Drop, Promise!LoseSight
<1>3. CASE \E k \in Msgs, mode \in SendModes : Accept(k, mode)
  <2>1. PICK k \in Msgs, mode \in SendModes : Accept(k, mode)
    BY <1>3
  <2>2. /\ mail[k].status = "none" /\ mail'[k].status = "queued"
        /\ \A o \in Msgs : o # k => mail'[o] = mail[o]
    BY <2>1, AcceptMail
  <2>3. Cardinality(Taker(m)') = Cardinality(Taker(m))
    BY <2>1, AcceptFrame DEF Taker
  <2>4. CASE m = k
    BY <1>1, <2>2, <2>3, <2>4, Fates DEF Promise!Send
  <2>5. CASE m # k
    BY <1>1, <2>2, <2>3, <2>5, Fates DEF Promise!Same
  <2>6. QED  BY <2>4, <2>5
<1>4. QED  BY <1>2, <1>3, MailKinds

(* The mailbox implements MailboxPromise: whatever is lost, late, retried, *)
(* replaced or restarted, a message becomes the input of at most one       *)
(* Session, a verdict is final, and the verdict is true.                   *)
THEOREM SpecPromise == Spec => PromiseKept
<1>1. Init => Promise!Init
  <2>1. ASSUME Init, NEW m \in Msgs PROVE Fate[m] = "unsent" /\ Cardinality(Taker(m)) = 0
    <3>1. Taker(m) = {}
      BY <2>1 DEF Init, Taker
    <3>2. mail[m].status = "none"
      BY <2>1 DEF Init
    <3>3. QED  BY <3>1, <3>2, Fates, FS_EmptySet
  <2>2. QED  BY <2>1 DEF Promise!Init, Fate
<1>2. IInv /\ IInv' /\ [Next]_vars => [Promise!Next]_(Promise!vars)
  <2>1. UNCHANGED vars => UNCHANGED Promise!vars
    BY DEF vars, Promise!vars, Fate, Taker
  <2>2. QED  BY <2>1, PromiseNext
<1>3. QED  BY <1>1, <1>2, InitInv, NextInv, StutterInv, PTL DEF Spec, PromiseKept, Promise!Spec

-----------------------------------------------------------------------------
(* Replacement.                                                            *)

LEMMA HoldSteps == IInv /\ HoldInv /\ Next => HoldInv'
<1> SUFFICES ASSUME IInv, HoldInv, Next PROVE HoldInv'
  OBVIOUS
<1>1. CASE \E m \in Msgs, mode \in SendModes : Accept(m, mode)
  <2>1. PICK m \in Msgs, mode \in SendModes : Accept(m, mode)
    BY <1>1
  <2>2. /\ \A o \in Msgs : o # m => mail'[o] = mail[o]
        /\ mail'[m].requested = mode /\ mail'[m].actual = mode
    BY <2>1, AcceptMail
  <2>3. QED  BY <2>2 DEF HoldInv
<1>2. CASE \A m \in Msgs : Moves(m)
  BY <1>2 DEF HoldInv, Moves
<1>3. QED  BY <1>1, <1>2, MailKinds

(* Only a pass that reaches the Session hands a waiting message over.      *)
LEMMA HandedOver ==
  ASSUME IInv, Next, NEW m \in Msgs, mail[m].status = "queued", mail'[m].status = "delivering"
  PROVE  PassDeliver /\ m = Head
<1> USE DEF IInv
<1>1. mail'[m] # mail[m] /\ mail[m] \in Message /\ mail' # mail
  BY DEF TypeOK
<1>2. ASSUME NEW h, NEW x, Put(h, x) PROVE h = m /\ x.status = "delivering"
  <2>1. mail'[m] = IF h = m THEN x ELSE mail[m]
    BY <1>2 DEF Put, TypeOK
  <2>2. QED  BY <1>1, <2>1
<1>4. ~Sends /\ ~Promotions
  <2>1. ASSUME NEW k \in Msgs, NEW mode \in SendModes, Accept(k, mode) PROVE FALSE
    <3>1. mail'[k].status = "queued" /\ \A o \in Msgs : o # k => mail'[o] = mail[o]
      BY <2>1, AcceptMail
    <3>2. QED  BY <1>1, <3>1
  <2>2. ASSUME NEW k \in Msgs, Promote(k) PROVE FALSE
    <3>1. Put(k, [mail[k] EXCEPT !.actual = "steer", !.frozen = TRUE, !.promoted = TRUE])
          /\ mail[k] \in Message /\ mail[k].status = "queued"
      BY <2>2 DEF Promote, TypeOK
    <3>2. [mail[k] EXCEPT !.actual = "steer", !.frozen = TRUE, !.promoted = TRUE].status = "queued"
      BY <3>1 DEF Message
    <3>3. QED  BY <1>2, <3>1, <3>2
  <2>3. QED  BY <2>1, <2>2 DEF Sends, Promotions
<1>5. mail' # SteersCancelled
  <2>1. SteersCancelled[m] = [mail[m] EXCEPT !.status = "cancelled"] \/ SteersCancelled[m] = mail[m]
    BY DEF SteersCancelled
  <2>2. [mail[m] EXCEPT !.status = "cancelled"].status = "cancelled"
    BY <1>1 DEF Message
  <2>3. QED  BY <1>1, <2>1, <2>2
<1>6. ~PassArchived
  <2>1. PassArchived => mail'[m] = [mail[m] EXCEPT !.status = "undeliverable"] \/ mail'[m] = mail[m]
    BY DEF PassArchived
  <2>2. [mail[m] EXCEPT !.status = "undeliverable"].status = "undeliverable"
    BY <1>1 DEF Message
  <2>3. QED  BY <1>1, <2>1, <2>2
<1>7. ~CreateFails /\ ~ResumeImpossible
  <2>1. mail' # CountFailure(w.msg)
    <3>1. CASE w.msg = NoMessage \/ mail[w.msg].gen # 0
      BY <1>1, <3>1 DEF CountFailure
    <3>2. CASE ~(w.msg = NoMessage \/ mail[w.msg].gen # 0)
      <4>1. PICK st \in {"undeliverable", mail[w.msg].status}, n \in {mail[w.msg].fails + 1} :
              CountFailure(w.msg) = [mail EXCEPT ![w.msg].fails = n, ![w.msg].status = st]
        BY <3>2 DEF CountFailure
      <4>2. CountFailure(w.msg)[m].status \in {"undeliverable", "queued"}
        BY <1>1, <4>1 DEF TypeOK, Message
      <4>3. QED  BY <4>2
    <3>3. QED  BY <3>1, <3>2
  <2>2. QED  BY <2>1 DEF CreateFails, ResumeImpossible
<1>8. ~DeliverOk
  <2>1. DeliverOk => w.msg \in Msgs /\ M \in Message
    BY DEF DeliverOk, JobInv, At, M, TypeOK
  <2>2. \A t : DeliverOk => [M EXCEPT !.status = "delivered", !.turn = t].status = "delivered"
    BY <2>1 DEF Message
  <2>3. DeliverOk => \E t : Put(w.msg, [M EXCEPT !.status = "delivered", !.turn = t])
    BY <1>1, Zenon DEF DeliverOk
  <2>4. QED  BY <1>2, <2>2, <2>3
<1>9. CASE Pass
  <2>1. Working => H \in Message
    BY WorkingFacts
  <2>2. ~PassUnknown
    <3>1. PassUnknown => Working /\ Put(Head, [H EXCEPT !.status = "delivery_unknown"])
      BY DEF PassUnknown
    <3>2. Working => [H EXCEPT !.status = "delivery_unknown"].status = "delivery_unknown"
      BY <2>1 DEF Message
    <3>3. QED  BY <1>2, <3>1, <3>2
  <2>3. ~PassHeld
    <3>1. PassHeld => Working /\ (mail' = mail \/ Put(Head, [H EXCEPT !.actual = "enqueue", !.frozen = TRUE]))
      BY DEF PassHeld, Ready
    <3>2. Working => [H EXCEPT !.actual = "enqueue", !.frozen = TRUE].status = H.status
      BY <2>1 DEF Message
    <3>3. QED  BY <1>1, <1>2, <3>1, <3>2 DEF H
  <2>4. ~PassInterrupting
    <3>1. PassInterrupting => Working /\ (mail' = mail \/ Put(Head, [H EXCEPT !.status = "queued", !.cut = TRUE]))
      BY ObservedFacts DEF PassInterrupting, Proceeds
    <3>2. Working => [H EXCEPT !.status = "queued", !.cut = TRUE].status = "queued"
      BY <2>1 DEF Message
    <3>3. QED  BY <1>1, <1>2, <3>1, <3>2
  <2>5. ~PassInterrupt
    <3>1. PassInterrupt => Working /\ Put(Head, [H EXCEPT !.actual = "interrupt", !.frozen = TRUE,
                  !.status = "interrupting", !.gen = rec.gen, !.intTurn = ActiveTurn(rec.gen)])
      BY ObservedFacts DEF PassInterrupt, Proceeds
    <3>2. Working => [H EXCEPT !.actual = "interrupt", !.frozen = TRUE,
                  !.status = "interrupting", !.gen = rec.gen, !.intTurn = ActiveTurn(rec.gen)].status = "interrupting"
      BY <2>1 DEF Message
    <3>3. QED  BY <1>2, <3>1, <3>2
  <2>6. ~PassWait
    <3>1. PassWait => Working /\ Put(Head, Resolved)
      BY ObservedFacts DEF PassWait, Ordinary, Proceeds
    <3>2. \/ Resolved = H
          \/ \E a \in {"steer", "enqueue"} : Resolved = [H EXCEPT !.frozen = TRUE, !.actual = a]
      BY Zenon DEF Resolved
    <3>3. Working => \A a : [H EXCEPT !.frozen = TRUE, !.actual = a].status = H.status
      BY <2>1 DEF Message
    <3>4. PassWait => Resolved.status = H.status
      BY <3>1, <3>2, <3>3
    <3>5. QED  BY <1>1, <1>2, <3>1, <3>4 DEF H
  <2>7. PassDeliver
    BY <1>1, <1>6, <1>9, <2>2, <2>3, <2>4, <2>5, <2>6 DEF Pass, PassDone, PassCreate, PassUnbound,
       PassReplace, PassBlocked, PassRetire, PassResume
  <2>8. Head = m
    BY <1>2, <2>7 DEF PassDeliver
  <2>9. QED  BY <2>7, <2>8
<1>10. CASE Effects
  BY <1>1, <1>5, <1>7, <1>8, <1>10 DEF Effects, EndTurnInterrupts, EndTurnFails, CreateOk, DeliverRefused,
     DeliverLost, InterruptOk, InterruptFails, ResumeOk, ResumeFails, StopOk,
     StopFails, StopConfirmed, StopArchived, StopUnconfirmed, ArchiveOk, ArchiveFails, Recover
<1>11. CASE Users \/ StartPass \/ Retirement \/ Poll \/ PollCreates \/ RetryDue \/ Crash \/ AgentHub
  BY <1>1, <1>4, <1>11 DEF Users, ArchiveResource, RequestReplacement, EndTurn, StartPass,
     Retirement, RetireNothing, RetireAsleep, RetireActive, RetireArchived, RetireStop, RetireContinue,
     Poll, PollCreates, RetryDue, Crash, AgentHub, TurnEnds, ProviderExit, HubStopped,
     ExternalArchive, ReplyTurn, LateArrives
<1>12. QED  BY <1>9, <1>10, <1>11 DEF Next

(* A ready Session of a generation that is to be replaced is stopped.      *)
LEMMA ReplacementStops ==
  ASSUME NEW r, r.replacement = TRUE, S.st = "ready", Head # NoMessage, H.status = "queued",
         NEW due, NEW backoff
  PROVE  PlanGeneration(Adapt(r, S, due, backoff)) = "StopSession"
<1> DEFINE f == Adapt(r, S, due, backoff)
<1>1. /\ f.resourceArchived = FALSE /\ f.current = TRUE /\ f.bindingChanged = FALSE
      /\ f.intent = "replacement" /\ f.known = TRUE /\ f.session = "ready"
      /\ ~f.turnActive /\ f.approval = FALSE /\ f.head = HeadFacts
  BY DEF Adapt, LegacyIntent
<1>2. HeadFacts.status = "queued"
  BY DEF HeadFacts, H
<1> HIDE DEF f
<1>3. ~InFlight(f) /\ ~Busy(f) /\ Phase(f) = "ready"
  BY <1>1, <1>2 DEF InFlight, Busy, Phase, PhaseOf, SessionStates
<1>4. Intent(f) = "replacement"
  BY <1>1 DEF Intent
<1>5. PlanIntent(f, "replacement") = "StopSession"
  BY <1>1, <1>3 DEF PlanIntent, InterruptsReplaced
<1>6. PlanGeneration(f) = "StopSession"
  BY <1>1, <1>3, <1>4, <1>5 DEF PlanGeneration
<1>7. QED  BY <1>6 DEF f

(* While a replacement is pending no waiting message is handed to the old  *)
(* generation, except an interrupt its user promoted                       *)
(* (ReplacementHoldsMail): the guards of the mailbox pass and the          *)
(* planner's StopSession close every way there is.                         *)
THEOREM SpecReplacementHolds == Spec => ReplacementHoldsMail
<1>1. Init => HoldInv
  BY DEF Init, HoldInv
<1>2. HoldInv /\ UNCHANGED vars => HoldInv'
  BY DEF HoldInv, vars
<1>3. IInv /\ HoldInv /\ Next =>
        \A m \in Msgs :
          /\ mail[m].status = "queued" /\ mail'[m].status = "delivering"
          /\ ~(mail[m].promoted /\ mail[m].requested = "interrupt")
          => ~rec'.replacement
  <2> SUFFICES ASSUME IInv, HoldInv, Next, NEW m \in Msgs,
                      mail[m].status = "queued", mail'[m].status = "delivering",
                      ~(mail[m].promoted /\ mail[m].requested = "interrupt"),
                      rec'.replacement
               PROVE  FALSE
    OBVIOUS
  <2> USE DEF IInv
  <2>1. PassDeliver /\ m = Head /\ H = mail[m]
    BY HandedOver DEF H
  <2>2. Observed /\ rec' = Seen /\ Like(Seen, rec) /\ Seen \in GenRecord /\ Head # NoMessage
    BY <2>1, ObservedFacts DEF PassDeliver, Ordinary, Proceeds, Project, Like, Working
  <2>3. rec.replacement /\ Seen.replacement = TRUE
    BY <2>2 DEF Like, GenRecord
  <2>4. H.requested = "interrupt" /\ ~H.cut /\ ~H.promoted
    BY <2>1, <2>2, <2>3 DEF Observed, HeldBack
  <2>5. H.frozen
    BY <2>1, <2>3, <2>4 DEF PassDeliver, FreshInterrupt
  <2>6. H.actual # "steer" /\ Resolved = H
    BY <2>1, <2>4, <2>5 DEF HoldInv, Resolved
  <2>7. S.st = "ready"
    BY <2>1, <2>6 DEF PassDeliver, Delivers
  <2>8. Plan = "StopSession"
    BY <2>1, <2>2, <2>3, <2>7, ReplacementStops DEF Plan
  <2>9. QED  BY <2>1, <2>8 DEF PassDeliver, Ordinary, Proceeds, Blocked
<1>4. IInv /\ HoldInv /\ [Next]_vars =>
        [\A m \in Msgs :
          /\ mail[m].status = "queued" /\ mail'[m].status = "delivering"
          /\ ~(mail[m].promoted /\ mail[m].requested = "interrupt")
          => ~rec'.replacement]_vars
  BY <1>3
<1>5. QED  BY <1>1, <1>2, <1>4, InitInv, NextInv, StutterInv, HoldSteps, PTL DEF Spec, ReplacementHoldsMail

-----------------------------------------------------------------------------
(* Stopping.                                                               *)

LEMMA SpareSteps ==
  ASSUME IInv, Next, StopInv, ~archived'
  PROVE  Current' => \A m \in Msgs : mail'[m].status = "delivery_unknown" => mail'[m].gen # rec'.gen
<1> USE DEF IInv
<1>0. ~archived
  BY FaultSteps
<1>1. SUFFICES ASSUME Current', NEW m \in Msgs, mail'[m].status = "delivery_unknown"
               PROVE  mail'[m].gen # rec'.gen
  OBVIOUS
<1>2. /\ mail'[m].gen = mail[m].gen /\ mail[m].gen \in Nat /\ mail[m].gen <= lastGen
      /\ Current => mail[m].gen # rec.gen
  <2>1. CASE \E k \in Msgs, mode \in SendModes : Accept(k, mode)
    <3>1. PICK k \in Msgs, mode \in SendModes : Accept(k, mode)
      BY <2>1
    <3>2. mail'[m] = mail[m]
      BY <1>1, <3>1, AcceptMail
    <3>3. QED  BY <1>0, <1>1, <3>2, MailTypes DEF StopInv, MailInv
  <2>2. CASE Moves(m)
    BY <1>0, <1>1, <2>2, MailTypes DEF Moves, StopInv, MailInv
  <2>3. QED  BY <2>1, <2>2, MailKinds
<1>3. CASE rec' = rec
  BY <1>1, <1>2, <1>3 DEF Current
<1>4. CASE Stays
  BY <1>2, <1>4 DEF Stays
<1>5. CASE Begins
  <2>1. rec'.gen = lastGen + 1 /\ lastGen \in Nat
    BY <1>5, NewRecordType, RecFacts DEF Begins
  <2>2. QED  BY <1>2, <2>1
<1>6. CASE Ends
  BY <1>1, <1>6 DEF Ends, Current
<1>7. QED  BY <1>3, <1>4, <1>5, <1>6, RecKinds

(* An attempt of unknown outcome keeps its Session up.                     *)
LEMMA AttemptSpares ==
  ASSUME IInv, StopInv, ~archived, RetireStop, NEW q \in late, q.gen = rec.gen
  PROVE  S.acc[q.msg] # 0
<1> USE DEF IInv
<1>1. /\ Current /\ q.msg \in Msgs /\ Flown(q.msg) /\ mail[q.msg].gen = rec.gen
  BY DEF RetireStop, Undisturbed, Retiring, Bound, InputInv, TypeOK
<1>2. mail[q.msg].status # "delivery_unknown"
  BY <1>1 DEF StopInv
<1>3. mail[q.msg].status # "delivering"
  <2>1. SUFFICES ASSUME mail[q.msg].status = "delivering" PROVE FALSE
    OBVIOUS
  <2>2. q.msg \in Pendings /\ Priority(mail[q.msg]) = 0
    <3>1. q.msg \in Pendings
      BY <1>1, <2>1 DEF Pendings, PendingStatuses
    <3>2. Priority(mail[q.msg]) = 0
      BY <2>1 DEF Priority
    <3>3. QED  BY <3>1, <3>2
  <2>3. /\ Head \in Msgs /\ Head # NoMessage
        /\ \A o \in Pendings \ {Head} : Precedes(Head, o)
    BY <2>2, HeadPrecedes
  <2>4. Priority(mail[Head]) = 0
    <3>1. CASE Head = q.msg
      BY <2>2, <3>1
    <3>2. CASE Head # q.msg
      <4>1. Precedes(Head, q.msg) /\ Priority(mail[Head]) \in 0 .. 5
        BY <2>2, <2>3, <3>2, PriorityType
      <4>2. QED  BY <2>2, <4>1 DEF Precedes
    <3>3. QED  BY <3>1, <3>2
  <2>5. mail[Head].status = "delivering"
    BY <2>4 DEF Priority
  <2> DEFINE f == Adapt(rec, S, FALSE, FALSE)
  <2>6. /\ f.resourceArchived = FALSE /\ f.current = TRUE /\ f.head = HeadFacts
        /\ HeadFacts.status = "delivering"
    BY <2>3, <2>5 DEF Adapt, HeadFacts
  <2>7. HeadFacts # NoMessage
    <3>1. HeadFacts \in Heads
      <4>1. mail[Head] \in Message
        BY <2>3 DEF TypeOK
      <4>2. QED  BY <2>3, <2>5, <4>1 DEF HeadFacts, Heads, Message, PendingStatuses
    <3>2. QED  BY <3>1
  <2> HIDE DEF f
  <2>8. PlanGeneration(f) = "WaitForMessageReceipt"
    BY <2>6, <2>7 DEF PlanGeneration, InFlight, Pending
  <2>9. QED  BY <2>8 DEF f, RetireStop, Undisturbed, RetirePlan, Spared
<1>4. mail[q.msg].status = "delivered"
  BY <1>1, <1>2, <1>3 DEF Flown
<1>5. QED  BY <1>1, <1>4 DEF InputInv, S

LEMMA JobPc ==
  /\ Rest.pc = "idle" /\ \A pc, m : On(pc, m).pc = pc
  /\ \A pc, m, t : [On(pc, m) EXCEPT !.turn = t].pc = pc
BY DEF On, Rest

(* While a Stop is on its way the job and the record wait.                 *)
LEMMA StopWaits ==
  ASSUME IInv, Next, At("stop")', ~RetireStop
  PROVE  At("stop") /\ rec' = rec /\ late' \subseteq late
         /\ \/ UNCHANGED hub
            \/ \E g \in Gens : TurnEnds(g) \/ ProviderExit(g) \/ HubStopped(g) \/ ExternalArchive(g)
                               \/ ReplyTurn(g)
            \/ \E q \in late : LateArrives(q)
<1> USE DEF IInv
<1>1. CASE Pass
  <2>1. w' = w \/ w' = Rest \/ w' \in {On("create", Head)} \/ w' \in {Guarded("interrupt"), Guarded("deliver")}
        \/ w' = [On("resume", Head) EXCEPT !.turn = FactTurn(NoTurn, H)]
    BY <1>1, Zenon DEF Pass, PassArchived, PassDone, PassUnknown, PassCreate, StartCreate, PassUnbound, PassHeld,
         PassReplace, PassBlocked, PassRetire, PassResume, PassInterrupting, PassInterrupt, PassWait,
         PassDeliver, Go
  <2>2. At("pass")
    BY <1>1, ObservedFacts DEF Pass, PassArchived, PassDone, PassUnknown, PassCreate, PassUnbound, PassHeld,
         PassReplace, PassBlocked, PassRetire, PassResume, PassInterrupting, PassInterrupt,
         PassWait, PassDeliver, Ordinary, Proceeds, Ready, Working
  <2>3. w'.pc # "stop"
    <3>1. w' = w => w'.pc = "pass"
      BY <2>2 DEF At
    <3>2. Guarded("interrupt").pc = "interrupt" /\ Guarded("deliver").pc = "deliver"
      BY JobPc DEF Guarded
    <3>3. On("create", Head).pc = "create" /\ Rest.pc = "idle"
          /\ [On("resume", Head) EXCEPT !.turn = FactTurn(NoTurn, H)].pc = "resume"
      BY JobPc
    <3>4. QED  BY <2>1, <3>1, <3>2, <3>3
  <2>4. QED  BY <2>3 DEF At
<1>2. CASE Effects
  <2>1. w' = Rest \/ w' = On("pass", NoMessage) \/ w' = On("archive", NoMessage)
        \/ w' = On("stopwait", NoMessage) \/ w' = On("create", NoMessage)
    BY <1>2, Zenon DEF Effects, EndTurnInterrupts, EndTurnFails, CreateOk, CreateFails, DeliverOk, DeliverRefused,
         DeliverLost, InterruptOk, InterruptFails, ResumeOk, ResumeFails, ResumeImpossible, StopOk,
         StopFails, StopConfirmed, StopArchived, StopUnconfirmed, ArchiveOk, ArchiveFails, Recover, StartCreate, Go
  <2>2. QED  BY <2>1, JobPc DEF At
<1>3. CASE Sends \/ ArchiveResource
  BY <1>3 DEF Sends, Accept, ArchiveResource, At
<1>4. CASE AgentHub
  <2>1. w' = w /\ rec' = rec /\ late' \subseteq late
    BY <1>4 DEF AgentHub, TurnEnds, ProviderExit, HubStopped, ExternalArchive, ReplyTurn, LateArrives
  <2>2. QED  BY <1>4, <2>1 DEF AgentHub, At
<1>5. CASE Promotions \/ RequestReplacement \/ EndTurn \/ StartPass \/ Poll \/ PollCreates
           \/ RetryDue \/ Crash \/ Retirement
  <2>1. \/ w' \in {On("pass", NoMessage), On("endturn", NoMessage), On("create", NoMessage),
                   On("recover", NoMessage), On("stopwait", NoMessage), On("archive", NoMessage)}
        \/ w' = w /\ At("idle")
    BY <1>5 DEF Promotions, Promote, RequestReplacement, EndTurn, StartPass, Poll, PollCreates, RetryDue,
         Crash, Retirement, RetireNothing, RetireAsleep, RetireActive, RetireArchived, RetireContinue,
         Undisturbed, Retiring, Go
  <2>2. QED  BY <2>1, JobPc DEF At
<1>6. QED  BY <1>1, <1>2, <1>3, <1>4, <1>5 DEF Next, Users

LEMMA StopSteps == IInv /\ StopInv /\ Next => StopInv'
<1> SUFFICES ASSUME IInv, StopInv, Next, ~archived'
    PROVE  /\ At("stop")' => /\ S'.st # "running"
                             /\ \A q \in late' : q.gen = rec'.gen => S'.acc[q.msg] # 0
           /\ Current' => \A m \in Msgs : mail'[m].status = "delivery_unknown" => mail'[m].gen # rec'.gen
  BY DEF StopInv
<1> USE DEF IInv
<1>0. ~archived
  BY FaultSteps
<1>1. CASE RetireStop
  <2>1. /\ Current /\ S.st = "ready" /\ UNCHANGED <<hub, late>> /\ rec'.gen = rec.gen
    BY <1>1, RecFacts DEF RetireStop, Undisturbed, Retiring, Bound, GenRecord
  <2>2. S' = S
    BY <2>1 DEF S
  <2>3. QED  BY <1>0, <1>1, <2>1, <2>2, AttemptSpares, SpareSteps
<1>2. CASE At("stop")' /\ ~RetireStop
  <2>1. /\ At("stop") /\ rec' = rec /\ late' \subseteq late /\ Current /\ rec.gen \in Gens
        /\ S.st # "running" /\ \A q \in late : q.gen = rec.gen => S.acc[q.msg] # 0
    BY <1>0, <1>2, StopWaits, RecFacts DEF StopInv, JobInv, At
  <2>2. \A q \in late' : q.gen = rec'.gen => S'.acc[q.msg] # 0
    <3>1. \A m \in Msgs : S.acc[m] # 0 => S'.acc[m] # 0
      BY <2>1, HubSteps DEF Enters, S
    <3>2. QED  BY <2>1, <3>1 DEF TypeOK
  <2>3. S'.st # "running"
    <3>1. CASE UNCHANGED hub
      BY <2>1, <3>1 DEF S
    <3>2. ASSUME NEW g \in Gens, NEW st \in {"ready", "stopped", "archived"}, HubTo(g, st)
          PROVE  S'.st # "running"
      BY <2>1, <3>2, HubToFacts DEF S, HubStates
    <3>3. ASSUME NEW g \in Gens, ReplyTurn(g) PROVE S'.st # "running"
      BY <2>1, <3>3, ReplyFacts DEF S
    <3>4. ASSUME NEW q \in late, LateArrives(q) PROVE S'.st # "running"
      <4>1. q.gen \in Gens /\ q.msg \in Msgs
        BY DEF TypeOK
      <4>2. CASE q.gen = rec.gen
        <5>1. Taken(q.gen, q.msg) = hub[q.gen]
          BY <2>1, <4>2 DEF Taken, S
        <5>2. hub' = hub
          BY <3>4, <4>1, <5>1 DEF LateArrives, TypeOK
        <5>3. QED  BY <3>1, <5>2
      <4>3. CASE q.gen # rec.gen
        <5>1. hub'[rec.gen] = hub[rec.gen]
          BY <2>1, <3>4, <4>1, <4>3 DEF LateArrives, TypeOK
        <5>2. QED  BY <2>1, <5>1 DEF S
      <4>4. QED  BY <4>2, <4>3
    <3>5. \A g \in Gens : TurnEnds(g) \/ ProviderExit(g) \/ HubStopped(g) \/ ExternalArchive(g) =>
            \E st \in {"ready", "stopped", "archived"} : HubTo(g, st)
      BY DEF TurnEnds, ProviderExit, HubStopped, ExternalArchive
    <3>6. QED  BY <1>2, <3>1, <3>2, <3>3, <3>4, <3>5, StopWaits
  <2>4. QED  BY <2>2, <2>3, SpareSteps
<1>3. CASE ~At("stop")' /\ ~RetireStop
  BY <1>3, SpareSteps
<1>4. QED  BY <1>1, <1>2, <1>3

(* A Stop never lands on a Turn, unless the resource itself was archived   *)
(* (StopSparesTurn): the planner keeps a Session up whose attempt may      *)
(* still become a Turn.                                                    *)
THEOREM SpecStopSpares == Spec => StopSparesTurn
<1>1. Init => StopInv
  BY DEF Init, StopInv, At, Rest, Current
<1>2. StopInv /\ UNCHANGED vars => StopInv'
  BY DEF StopInv, vars, At, S, Current
<1>3. StopInv /\ [Next]_vars => [At("stop") /\ ~At("stop")' /\ ~archived => S.st # "running"]_vars
  BY DEF StopInv
<1>4. QED  BY <1>1, <1>2, <1>3, InitInv, NextInv, StutterInv, StopSteps, PTL DEF Spec, StopSparesTurn

-----------------------------------------------------------------------------
(* Idle sleep.                                                             *)

(* A Stop that was asked for and not seen to succeed; a generation that    *)
(* such a Stop puts to sleep; an archived resource that has no mail left.  *)
StopOpen(r) == r.receipt.op = "stop" /\ r.receipt.state \in {"requested", "unknown"}
Dozes == rec.idleSleep /\ StopOpen(rec)
Ended == archived /\ Pendings = {}

ReceiptOK(r) ==
  /\ r.receipt.op \in {"none", "stop", "resume"}
  /\ r.receipt.op = "stop" => r.receipt.state \in {"requested", "unknown", "succeeded"}
  /\ r.unavailable => r.replacement
  /\ ~r.bound => r.receipt.op = "none"

(* A retirement is only queued for a generation that is to be replaced, or *)
(* that goes to sleep.                                                     *)
QueueInv ==
  Current => /\ ReceiptOK(rec)
             /\ retireQ => rec.bound /\ (rec.replacement \/ Dozes)

(* So is a Stop only sent to such a generation, and an Archive to one that *)
(* is to be replaced.                                                      *)
WaitInv ==
  /\ At("recover") => ~retireQ
  /\ At("create") => ~rec.bound
  /\ At("resume") => rec.receipt.op = "resume"
  /\ w.pc \in {"stop", "stopwait"} => ~retireQ /\ (rec.replacement \/ Dozes)
  /\ At("archive") => rec.replacement

(* A Session that is stopping was told to.                                 *)
StoppingInv ==
  \A g \in Gens : hub[g].st = "stopping" =>
    g <= lastGen /\ (Current /\ g = rec.gen => rec.bound /\ (rec.replacement \/ Dozes))

(* While a Stop is open nothing runs or is handed over, and no mail that   *)
(* waits was promised to a Turn.                                           *)
Dozing == Bound /\ ~rec.replacement /\ StopOpen(rec) /\ ~Ended
DozeInv ==
  /\ Dozing =>
       /\ rec.idleSleep /\ S.st # "running"
       /\ \A m \in Msgs :
            /\ mail[m].status \notin {"delivering", "interrupting"}
            /\ mail[m].status = "queued" => ~(mail[m].frozen /\ mail[m].actual = "steer")
  /\ Current => \A m \in Msgs : mail[m].status = "delivery_unknown" /\ mail[m].gen = rec.gen => Ended
  /\ \A m \in Msgs : mail[m].status = "none" => ~mail[m].frozen

SleepInv == QueueInv /\ WaitInv /\ StoppingInv /\ DozeInv

-----------------------------------------------------------------------------
(* What the record says of sleep once a Session was looked at.             *)
Sees(x, r, s) ==
  /\ Like(x, r) /\ x.unavailable = r.unavailable
  /\ x.receipt = r.receipt \/ (r.receipt.op = "resume" /\ x.receipt.op = "resume")
  /\ x.idleSleep => r.idleSleep
  /\ r.idleSleep /\ r.receipt.op # "resume" /\ s.st # "running" => x.idleSleep
  /\ s.st = "ready" /\ x.status = "idle" => ~x.idleSleep

LEMMA ProjectedSees ==
  ASSUME NEW r \in GenRecord, NEW s, s.st \in HubStates \ {"none"}
  PROVE  /\ Sees(Projected(r, s), r, s)
         /\ Projected(r, s).receipt = r.receipt
<1>1. PICK a \in BOOLEAN, st \in RecordStatuses :
        /\ Projected(r, s) = [r EXCEPT !.idleSleep = a, !.status = st]
        /\ a => r.idleSleep
        /\ r.idleSleep /\ r.receipt.op # "resume" /\ s.st # "running" => a
        /\ s.st = "ready" /\ a => st = "stopping"
  <2>1. r.idleSleep \in BOOLEAN
    BY DEF GenRecord
  <2>2. PICK a \in BOOLEAN :
           /\ a = (CASE s.st = "running" -> FALSE
                  [] s.st = "ready" -> r.idleSleep /\ ~Resuming(r)
                  [] OTHER -> r.idleSleep)
           /\ a => r.idleSleep
           /\ r.idleSleep /\ r.receipt.op # "resume" /\ s.st # "running" => a
    BY <2>1 DEF Resuming
  <2>3. PuaStatus(s.st) \in RecordStatuses
    BY DEF PuaStatus, RecordStatuses, HubStates
  <2>4. PICK st \in RecordStatuses :
          /\ st = (IF s.st = "ready" /\ a THEN "stopping"
                ELSE IF s.st = "stopped" /\ a /\ ~r.replacement
                  THEN "idle-suspended"
                ELSE PuaStatus(s.st))
          /\ s.st = "ready" /\ a => st = "stopping"
    BY <2>3 DEF RecordStatuses
  <2>5. QED  BY <2>2, <2>4, Zenon DEF Projected
<1>2. QED  BY <1>1 DEF Sees, Like, GenRecord

LEMMA AppliedSees ==
  ASSUME NEW r \in GenRecord, NEW s, s.st \in HubStates \ {"none"}
  PROVE  Sees(Applied(r, s), r, s)
<1> DEFINE live == s.st \in {"ready", "running"}
           closed == IF live /\ r.receipt.op = "resume" THEN SetReceipt(r, "succeeded") ELSE r
           open == [closed EXCEPT !.backoff = @ /\ ~live]
<1>1. /\ closed \in GenRecord /\ closed.gen = r.gen /\ closed.bound = r.bound
      /\ closed.replacement = r.replacement /\ closed.unavailable = r.unavailable
      /\ closed.idleSleep = r.idleSleep
      /\ closed.receipt = r.receipt \/ (r.receipt.op = "resume" /\ closed.receipt.op = "resume")
  <2>1. Like(closed, r)
    BY ReceiptLike DEF Like
  <2>2. LET x == SetReceipt(r, "succeeded")
        IN x.unavailable = r.unavailable /\ x.idleSleep = r.idleSleep /\ x.receipt.op = r.receipt.op
    BY DEF SetReceipt, GenRecord
  <2>3. QED  BY <2>1, <2>2 DEF Like
<1>2. PICK b \in BOOLEAN : open = [closed EXCEPT !.backoff = b]
  <2> HIDE DEF closed, live
  <2>1. (closed.backoff /\ ~live) \in BOOLEAN
    OBVIOUS
  <2>2. QED  BY <2>1
<1> HIDE DEF closed, open, live
<1>3. /\ open \in GenRecord /\ open.gen = closed.gen /\ open.bound = closed.bound
      /\ open.replacement = closed.replacement /\ open.unavailable = closed.unavailable
      /\ open.idleSleep = closed.idleSleep /\ open.receipt = closed.receipt
  BY <1>1, <1>2 DEF GenRecord
<1>4. Sees(Projected(open, s), open, s)
  BY <1>3, ProjectedSees
<1>5. Applied(r, s) = Projected(open, s)
  BY DEF Applied, open, closed, live
<1>6. QED  BY <1>1, <1>3, <1>4, <1>5 DEF Sees, Like

LEMMA SeesReceipt ==
  ASSUME NEW x, NEW r \in GenRecord, NEW s, Sees(x, r, s)
  PROVE  /\ ReceiptOK(r) => ReceiptOK(x)
         /\ StopOpen(x) <=> StopOpen(r)
         /\ StopOpen(r) /\ r.idleSleep /\ s.st # "running" => x.idleSleep
BY DEF Sees, Like, ReceiptOK, StopOpen

-----------------------------------------------------------------------------
(* The planner, about a generation that goes to sleep.                     *)

LEMMA PhaseValues ==
  /\ PhaseOf["running"] = "active"
  /\ \A s \in {"ready", "stopping", "stopped", "archived"} : PhaseOf[s] = s
<1>1. PhaseOf["running"] = "active"
  BY DEF PhaseOf, SessionStates
<1>2. ASSUME NEW s \in {"ready", "stopping", "stopped", "archived"} PROVE PhaseOf[s] = s
  BY <1>2 DEF PhaseOf, SessionStates
<1>3. QED  BY <1>1, <1>2

LEMMA AdaptPhase ==
  ASSUME NEW f, f.known = TRUE, f.session \in HubStates \ {"none"}, f.approval = FALSE,
         f.turnActive <=> f.session = "running"
  PROVE  /\ Phase(f) = IF f.session = "running" THEN "active" ELSE f.session
         /\ Busy(f) <=> f.session = "running"
BY PhaseValues DEF Phase, Busy, HubStates

LEMMA HeadKinds ==
  ASSUME IInv
  PROVE  /\ Pendings = {} <=> HeadFacts = NoMessage
         /\ Pendings # {} => /\ HeadFacts # NoMessage /\ HeadFacts.status = H.status
                             /\ HeadFacts.requested = H.requested /\ HeadFacts.actual = H.actual
                             /\ Head \in Msgs /\ Head \in Pendings /\ H = mail[Head]
<1>1. CASE Pendings = {}
  BY <1>1, HeadPrecedes DEF IInv, HeadFacts
<1>2. CASE Pendings # {}
  <2>1. /\ Head \in Pendings /\ Head \in Msgs /\ Head # NoMessage
    BY <1>2, HeadPrecedes DEF IInv
  <2>2. H \in Message /\ H = mail[Head] /\ H.status \in PendingStatuses
    BY <2>1 DEF IInv, TypeOK, H, Pendings
  <2>3. HeadFacts = [status |-> H.status, requested |-> H.requested, actual |-> H.actual]
    BY <2>1 DEF HeadFacts, H
  <2>4. HeadFacts \in Heads
    BY <2>2, <2>3 DEF Heads, Message
  <2>5. HeadFacts # NoMessage
    BY <2>4
  <2>6. QED  BY <1>2, <2>1, <2>2, <2>3, <2>5
<1>3. QED  BY <1>1, <1>2

(* With a Stop open, mail that waits does not change what is planned.      *)
LEMMA DozePlan ==
  ASSUME IInv, NEW r, NEW s, NEW due, NEW backoff, s.st \in {"ready", "stopping", "stopped", "archived"},
         r.idleSleep, ~r.replacement, ~r.unavailable, StopOpen(r),
         Pendings # {}, H.status = "queued"
  PROVE  LET plan == PlanGeneration(Adapt(r, s, due, backoff)) IN
         /\ s.st = "ready" => plan = "StopSession"
         /\ s.st = "stopping" => plan = "WaitForStopped"
         /\ s.st = "stopped" => plan = "None"
         /\ s.st = "archived" => plan = "RetireGeneration"
<1> DEFINE f == Adapt(r, s, due, backoff)
<1>1. /\ f.resourceArchived = FALSE /\ f.current = TRUE /\ f.bindingChanged = FALSE
      /\ f.intent = "idle" /\ f.known = TRUE /\ f.session = s.st /\ ~f.turnActive
      /\ f.approval = FALSE /\ f.head = HeadFacts /\ f.receipt = r.receipt
      /\ f.resumeUnavailable = r.unavailable
  BY DEF Adapt, LegacyIntent
<1> HIDE DEF f
<1>2. ~Busy(f) /\ Phase(f) = s.st
  BY <1>1, AdaptPhase DEF HubStates
<1>3. Pending(f) /\ ~InFlight(f)
  BY <1>1, HeadKinds DEF Pending, InFlight
<1>4. Intent(f) = "none"
  BY <1>1, <1>3, <1>2 DEF Intent
<1>5. PlanReceipt(f) = PlanIntent(f, "idle")
  BY <1>1 DEF PlanReceipt, StopOpen
<1>6. /\ s.st = "ready" => PlanIntent(f, "idle") = "StopSession"
      /\ s.st = "stopping" => PlanIntent(f, "idle") = "WaitForStopped"
      /\ s.st = "stopped" => PlanIntent(f, "idle") = "None"
      /\ s.st = "archived" => PlanIntent(f, "idle") = "RetireGeneration"
  BY <1>1, <1>2 DEF PlanIntent, InterruptsReplaced
<1>7. PlanGeneration(f) = PlanIntent(f, "idle")
  BY <1>1, <1>3, <1>4, <1>5, <1>6 DEF PlanGeneration
<1>8. QED  BY <1>6, <1>7 DEF f

(* Only a stopped Session is resumed.                                      *)
LEMMA ResumePlan ==
  ASSUME NEW r, NEW s, NEW due, NEW backoff, s.st \in HubStates \ {"none"},
         PlanGeneration(Adapt(r, s, due, backoff)) = "ResumeSession"
  PROVE  s.st = "stopped"
<1> DEFINE f == Adapt(r, s, due, backoff)
<1>1. /\ f.current = TRUE /\ f.resourceArchived = FALSE /\ PlanGeneration(f) = "ResumeSession"
      /\ f.known = TRUE /\ f.session = s.st /\ f.approval = FALSE
      /\ f.turnActive <=> s.st = "running"
  BY DEF Adapt
<1> HIDE DEF f
<1>2. Phase(f) = (IF s.st = "running" THEN "active" ELSE s.st)
  BY <1>1, AdaptPhase
<1>3. SUFFICES ASSUME Phase(f) # "stopped" PROVE FALSE
  BY <1>2
<1>4. PlanMessage(f) # "ResumeSession"
  BY <1>3 DEF PlanMessage
<1>5. \A i : PlanIntent(f, i) # "ResumeSession"
  BY <1>3, <1>4 DEF PlanIntent
<1>6. PlanReceipt(f) # "ResumeSession"
  BY <1>3, <1>5 DEF PlanReceipt
<1>7. PlanQuiet(f) # "ResumeSession"
  BY <1>3, <1>4 DEF PlanQuiet
<1>8. QED  BY <1>1, <1>5, <1>6, <1>7 DEF PlanGeneration

LEMMA SleepFields ==
  ASSUME NEW r \in GenRecord, NEW due, NEW plan, NEW intent,
         plan = PlanGeneration(Adapt(r, S, due, r.backoff)), intent = Intent(Adapt(r, S, due, r.backoff))
  PROVE  LET x == SleepRequested(r, due) IN
         /\ x \in GenRecord /\ x.gen = r.gen /\ x.bound = r.bound
         /\ x.unavailable = r.unavailable /\ (r.replacement => x.replacement)
         /\ r.idleSleep \/ intent = "idle" => x.idleSleep
         /\ x.receipt = IF plan = "StopSession" THEN [op |-> "stop", state |-> "requested"] ELSE r.receipt
<1> DEFINE planned == IF plan = "StopSession" THEN StopPlanned(r, intent) ELSE r
<1>1. SleepRequested(r, due) = [planned EXCEPT !.status = "stopping",
                                  !.idleSleep = planned.idleSleep \/ intent = "idle"]
  BY DEF SleepRequested
<1>2. /\ planned \in GenRecord /\ planned.gen = r.gen /\ planned.bound = r.bound
      /\ planned.unavailable = r.unavailable
      /\ r.replacement => planned.replacement
      /\ r.idleSleep => planned.idleSleep
      /\ planned.receipt = IF plan = "StopSession" THEN [op |-> "stop", state |-> "requested"] ELSE r.receipt
  <2>1. [op |-> "stop", state |-> "requested"] \in Receipts
    BY DEF Receipts
  <2>2. PICK a \in BOOLEAN, b \in BOOLEAN :
          /\ StopPlanned(r, intent) = [r EXCEPT !.replacement = a, !.idleSleep = b,
                                     !.status = "stopping",
                                     !.receipt = [op |-> "stop", state |-> "requested"]]
          /\ r.replacement => a
          /\ r.idleSleep => b
    <3>1. r.replacement \in BOOLEAN /\ r.idleSleep \in BOOLEAN
      BY DEF GenRecord
    <3>2. (r.replacement \/ intent = "replacement") \in BOOLEAN
          /\ (r.idleSleep \/ intent = "idle") \in BOOLEAN
      OBVIOUS
    <3>3. QED  BY <3>2, Zenon DEF StopPlanned
  <2>3. LET p == StopPlanned(r, intent) IN
        /\ p \in GenRecord /\ p.gen = r.gen /\ p.bound = r.bound /\ p.unavailable = r.unavailable
        /\ r.replacement => p.replacement
        /\ r.idleSleep => p.idleSleep
        /\ p.receipt = [op |-> "stop", state |-> "requested"]
    BY <2>1, <2>2 DEF GenRecord, RecordStatuses
  <2>4. QED  BY <2>3
<1>3. PICK b \in BOOLEAN : /\ b = (planned.idleSleep \/ intent = "idle")
                           /\ planned.idleSleep \/ intent = "idle" => b
  OBVIOUS
<1> HIDE DEF planned
<1>4. SleepRequested(r, due) = [planned EXCEPT !.status = "stopping", !.idleSleep = b]
  BY <1>1, <1>3
<1>5. LET x == [planned EXCEPT !.status = "stopping", !.idleSleep = b] IN
      /\ x \in GenRecord /\ x.gen = planned.gen /\ x.bound = planned.bound
      /\ x.unavailable = planned.unavailable /\ (planned.replacement => x.replacement)
      /\ b => x.idleSleep
      /\ x.receipt = planned.receipt
  BY <1>2 DEF GenRecord, RecordStatuses
<1>6. QED  BY <1>2, <1>3, <1>4, <1>5

(* A generation goes to sleep with no mail, or because its Stop is open.   *)
LEMMA SleepPlan ==
  ASSUME IInv, QueueInv, StoppingInv, DozeInv, Bound, S.st # "archived",
         NEW r, Sees(r, rec, S), NEW due, GoesToSleep(r, due), ~r.replacement,
         NEW plan, NEW intent,
         plan = PlanGeneration(Adapt(r, S, due, r.backoff)), intent = Intent(Adapt(r, S, due, r.backoff))
  PROVE  /\ S.st # "running" /\ (StopOpen(rec) \/ Pendings = {})
         /\ r.idleSleep \/ intent = "idle"
         /\ plan = "StopSession" \/ StopOpen(r)
<1>1. /\ Current /\ rec \in GenRecord /\ S.st \in HubStates \ {"none", "archived"}
      /\ ReceiptOK(rec) /\ ~rec.replacement /\ rec.bound /\ rec.gen \in Gens
  BY RecFacts DEF IInv, GenInv, QueueInv, Sees, Like, Bound
<1>2. /\ ReceiptOK(r) /\ ~r.unavailable /\ (StopOpen(r) <=> StopOpen(rec))
      /\ r.idleSleep \in BOOLEAN
  BY ZenonT(30), <1>1, SeesReceipt DEF ReceiptOK, Sees, Like, GenRecord
<1> DEFINE f == Adapt(r, S, due, r.backoff)
<1>3. /\ f.resourceArchived = FALSE /\ f.current = TRUE /\ f.bindingChanged = FALSE
      /\ f.intent = IF r.idleSleep THEN "idle" ELSE "none"
      /\ f.known = TRUE /\ f.session = S.st /\ (f.turnActive <=> S.st = "running")
      /\ f.approval = FALSE /\ f.head = HeadFacts /\ f.receipt = r.receipt
      /\ ~f.resumeUnavailable /\ f.idleDue = due
  BY <1>2 DEF Adapt, LegacyIntent
<1>4. plan = PlanGeneration(f) /\ intent = Intent(f)
  OBVIOUS
<1>5. /\ plan \notin NoIdleStart
      /\ \/ r.idleSleep /\ S.st \in {"ready", "stopping", "stopped"}
         \/ due /\ ~r.idleSleep /\ S.st = "ready"
  BY <1>2 DEF GoesToSleep, Sees
<1> HIDE DEF f
<1>6. S.st # "running" /\ Phase(f) = S.st /\ ~Busy(f)
  BY <1>1, <1>3, <1>5, AdaptPhase
<1>7. ~InFlight(f)
  BY <1>3, <1>4, <1>5 DEF PlanGeneration, NoIdleStart
<1>8. CASE Pendings = {}
  <2>1. ~Pending(f)
    BY <1>3, <1>8, HeadKinds DEF Pending
  <2>2. intent = "idle"
    BY <1>3, <1>4, <1>5, <1>6, <2>1 DEF Intent
  <2>3. plan = PlanIntent(f, "idle")
    BY <1>3, <1>4, <1>7, <2>1, <2>2 DEF PlanGeneration
  <2>4. /\ S.st = "ready" => plan = "StopSession"
        /\ S.st = "stopped" => plan = "None"
    BY <1>3, <1>6, <2>1, <2>3 DEF PlanIntent, InterruptsReplaced
  <2>5. S.st = "stopping" => StopOpen(rec)
    BY <1>1 DEF StoppingInv, S, Dozes
  <2>6. QED  BY <1>2, <1>5, <1>6, <1>8, <2>2, <2>4, <2>5 DEF NoIdleStart
<1>9. CASE Pendings # {}
  <2>1. Pending(f) /\ f.head.status = "queued" /\ H.status = "queued"
    <3>1. H.status \in PendingStatuses
      BY <1>9, HeadKinds DEF Pendings
    <3>2. QED  BY <1>3, <1>7, <1>9, <3>1, HeadKinds DEF Pending, InFlight, PendingStatuses
  <2>2. intent = "none"
    BY <1>3, <1>4, <1>6, <2>1 DEF Intent
  <2>3. CASE r.idleSleep /\ StopOpen(r)
    <3>1. S.st = "stopped" => plan = "None"
      BY <1>2, <1>9, <2>1, <2>3, DozePlan DEF Sees
    <3>2. S.st = "ready" => plan = "StopSession"
      BY <1>2, <1>9, <2>1, <2>3, DozePlan DEF Sees
    <3>3. QED  BY <1>2, <1>6, <2>3, <3>2
  <2>4. CASE ~(r.idleSleep /\ StopOpen(r))
    <3>1. ~StopOpen(r)
      <4>1. ~Ended
        BY <1>9 DEF Ended
      <4>2. StopOpen(rec) => rec.idleSleep /\ S.st # "running"
        BY <1>1, <4>1 DEF DozeInv, Dozing, Bound
      <4>3. QED  BY <1>1, <1>2, <2>4, <4>2, SeesReceipt
    <3>2. S.st # "stopping"
      BY <1>1, <1>2, <3>1 DEF StoppingInv, S, Dozes
    <3>3. PlanReceipt(f) \in {"skip", "ResumeSession", "WaitForSession"}
      BY <1>2, <1>3, <1>6, <3>1 DEF PlanReceipt, ReceiptOK, StopOpen, ResumeOrWait
    <3>4. PlanReceipt(f) = "skip" /\ plan = PlanQuiet(f)
      BY <1>3, <1>4, <1>5, <1>7, <2>1, <2>2, <3>3 DEF PlanGeneration, NoIdleStart
    <3>5. plan \in {"DeliverMessage", "ResumeSession", "WaitForSession"}
      BY <1>3, <1>5, <1>6, <1>7, <2>1, <3>2, <3>4 DEF PlanQuiet, PlanMessage, ResumeOrWait, Resumable
    <3>6. QED  BY <1>5, <3>5 DEF NoIdleStart
  <2>5. QED  BY <2>3, <2>4
<1>10. QED  BY <1>8, <1>9

-----------------------------------------------------------------------------
(* What a step does to the record, as far as sleep is concerned.           *)

(* A doze ends where the Session runs again or the Stop is confirmed.      *)
Woken == ~retireQ' /\ (S.st = "running" \/ (S.st = "stopped" /\ ~StopOpen(rec')))
FallsAsleep == Pendings = {} /\ rec'.idleSleep /\ S.st # "running" /\ UNCHANGED <<mail, hub, archived>>
Lulls ==
  /\ Stays /\ ReceiptOK(rec') /\ (rec.replacement => rec'.replacement)
  /\ retireQ' => retireQ \/ (rec'.bound /\ (rec'.replacement \/ Dozes'))
  /\ Dozes => rec'.replacement \/ Dozes' \/ Woken
  /\ StopOpen(rec') => rec'.replacement \/ StopOpen(rec) \/ FallsAsleep
Steady == rec' = rec /\ lastGen' = lastGen /\ (retireQ' => retireQ)

LEMMA SeenLulls ==
  ASSUME IInv, SleepInv, Current, NEW s, Sees(rec', rec, s), lastGen' = lastGen,
         s.st = "running" => ~Dozes \/ rec.replacement,
         retireQ' => retireQ \/ (rec.replacement /\ rec.bound)
  PROVE  Lulls
<1>1. rec \in GenRecord /\ ReceiptOK(rec)
  BY RecFacts DEF IInv, SleepInv, QueueInv
<1>2. Stays /\ rec'.bound = rec.bound /\ rec'.replacement = rec.replacement
  BY StaysFacts DEF IInv, Sees, Like
<1>3. /\ ReceiptOK(rec') /\ (StopOpen(rec') <=> StopOpen(rec))
      /\ StopOpen(rec) /\ rec.idleSleep /\ s.st # "running" => rec'.idleSleep
  BY <1>1, SeesReceipt
<1>4. Dozes => rec'.replacement \/ Dozes'
  BY <1>2, <1>3 DEF Dozes
<1>5. QED  BY <1>2, <1>3, <1>4 DEF Lulls

LEMMA FailingLulls ==
  ASSUME IInv, SleepInv, Current, lastGen' = lastGen, retireQ' = retireQ,
         NEW r \in {rec, SetReceipt(rec, "unknown")}, rec' = Failing(r),
         r # rec => rec.receipt.op = "stop" /\ (rec.replacement \/ Dozes)
  PROVE  Lulls
<1>1. rec \in GenRecord /\ ReceiptOK(rec)
  BY RecFacts DEF IInv, SleepInv, QueueInv
<1>2. /\ Like(r, rec) /\ r.unavailable = rec.unavailable /\ r.idleSleep = rec.idleSleep
      /\ r.receipt = rec.receipt \/ (rec.receipt.op = "stop" /\ r.receipt = [op |-> "stop", state |-> "unknown"])
  <2>1. CASE r = rec
    BY <1>1, <2>1 DEF Like
  <2>2. CASE r # rec
    <3>1. r = [rec EXCEPT !.receipt = [op |-> rec.receipt.op, state |-> "unknown"]]
      BY <2>2 DEF SetReceipt
    <3>2. Like(r, rec)
      BY <1>1, <2>2, ReceiptLike
    <3>3. QED  BY <1>1, <2>2, <3>1, <3>2 DEF GenRecord
  <2>3. QED  BY <2>1, <2>2
<1>3. /\ rec'.gen = r.gen /\ rec'.bound = r.bound /\ rec'.replacement = r.replacement
      /\ rec'.unavailable = r.unavailable /\ rec'.idleSleep = r.idleSleep /\ rec'.receipt = r.receipt
      /\ rec' \in GenRecord
  <2>1. r \in GenRecord
    BY <1>2 DEF Like
  <2>2. PICK st \in RecordStatuses : rec' = [r EXCEPT !.status = st]
    BY <2>1 DEF Failing, GenRecord, RecordStatuses
  <2>3. QED  BY <2>1, <2>2 DEF GenRecord
<1>4. Stays
  BY <1>2, <1>3, StaysFacts DEF IInv, Like
<1>5. ReceiptOK(rec') /\ (Dozes => Dozes') /\ (StopOpen(rec') => StopOpen(rec) \/ rec.replacement)
  BY <1>1, <1>2, <1>3 DEF ReceiptOK, Dozes, StopOpen, Like
<1>6. QED  BY <1>1, <1>2, <1>3, <1>4, <1>5 DEF Lulls, Like

LEMMA PassLulls ==
  ASSUME IInv, SleepInv, Pass
  PROVE  Steady \/ Lulls \/ (Begins /\ ~retireQ') \/ Ends
<1> USE DEF IInv, SleepInv
<1>1. CASE PassArchived \/ PassDone \/ PassUnknown \/ PassHeld
  BY <1>1 DEF PassArchived, PassDone, PassUnknown, PassHeld, Steady
<1>2. CASE PassCreate
  BY <1>2 DEF PassCreate, StartCreate, Begins, Go, On, Rest
<1>3. CASE PassUnbound \/ PassRetire
  BY <1>3, ObservedFacts DEF PassUnbound, PassRetire, Retired, Ends, Ready, Working, At
<1>0. Observed =>
        /\ Current /\ rec.bound /\ rec \in GenRecord /\ Sees(Seen, rec, S) /\ S.st \in HubStates \ {"none"}
        /\ Pendings # {} /\ H.status \in PendingStatuses /\ ~archived
        /\ StopOpen(rec) => rec.replacement \/ (S.st # "running" /\ H.status = "queued" /\ rec.idleSleep)
  <2> SUFFICES ASSUME Observed PROVE
        /\ Current /\ rec.bound /\ rec \in GenRecord /\ Sees(Seen, rec, S) /\ S.st \in HubStates \ {"none"}
        /\ Pendings # {} /\ H.status \in PendingStatuses /\ ~archived
        /\ StopOpen(rec) => rec.replacement \/ (S.st # "running" /\ H.status = "queued" /\ rec.idleSleep)
    OBVIOUS
  <2>1. Working /\ Bound /\ rec \in GenRecord
    BY ObservedFacts
  <2>2. /\ Current /\ rec.bound /\ S.st \in HubStates \ {"none"}
        /\ Head \in Msgs /\ Pendings # {} /\ H.status \in PendingStatuses /\ H = mail[Head] /\ ~archived
    BY <2>1, WorkingFacts, RecFacts DEF Working, Bound, GenInv, H
  <2>3. Sees(Seen, rec, S)
    BY <2>1, <2>2, AppliedSees DEF Seen
  <2>4. StopOpen(rec) => rec.replacement \/ (S.st # "running" /\ H.status = "queued" /\ rec.idleSleep)
    BY <2>1, <2>2 DEF DozeInv, Dozing, Ended, PendingStatuses
  <2>5. QED  BY <2>1, <2>2, <2>3, <2>4
<1>4. CASE PassBlocked \/ PassInterrupting \/ PassInterrupt \/ PassWait \/ PassDeliver
  <2>1. Observed /\ rec' = Seen /\ lastGen' = lastGen /\ retireQ' = RetireAfter(Seen, S)
    BY <1>4 DEF PassBlocked, PassInterrupting, PassInterrupt, PassWait, PassDeliver, Ordinary,
         Proceeds, Project
  <2>2. Sees(rec', rec, S) /\ (retireQ' => retireQ \/ (rec.replacement /\ rec.bound))
    BY <1>0, <2>1 DEF RetireAfter, Sees, Like
  <2>3. S.st = "running" => ~Dozes \/ rec.replacement
    BY <1>0, <2>1 DEF Dozes
  <2>4. QED  BY <1>0, <2>1, <2>2, <2>3, SeenLulls
<1>5. CASE PassReplace
  <2>1. Observed /\ lastGen' = lastGen /\ rec' = [Seen EXCEPT !.replacement = TRUE]
    BY <1>5 DEF PassReplace
  <2>2. /\ rec' \in GenRecord /\ rec'.gen = Seen.gen /\ rec'.bound = Seen.bound /\ rec'.replacement
        /\ rec'.receipt = Seen.receipt
    BY <1>0, <2>1 DEF Sees, Like, GenRecord
  <2>3. ReceiptOK(Seen) /\ Seen.gen = rec.gen /\ Seen.bound = rec.bound
    BY <1>0, <2>1, SeesReceipt DEF QueueInv, Sees, Like
  <2>4. Stays
    BY <1>0, <2>1, <2>2, <2>3 DEF Stays
  <2>5. ReceiptOK(rec')
    BY <2>2, <2>3 DEF ReceiptOK
  <2>6. QED  BY <1>0, <2>1, <2>2, <2>3, <2>4, <2>5 DEF Lulls
<1>6. CASE PassResume
  <2>1. /\ Observed /\ lastGen' = lastGen /\ Plan = "ResumeSession"
        /\ rec' = [Seen EXCEPT !.status = "starting", !.receipt = [op |-> "resume", state |-> "requested"]]
        /\ retireQ' = RetireAfter(Seen, S)
    BY <1>6 DEF PassResume
  <2>2. [op |-> "resume", state |-> "requested"] \in Receipts
    BY ReceiptTypes
  <2>3. /\ rec' \in GenRecord /\ rec'.gen = Seen.gen /\ rec'.bound = Seen.bound
        /\ rec'.replacement = Seen.replacement /\ rec'.unavailable = Seen.unavailable
        /\ rec'.receipt = [op |-> "resume", state |-> "requested"]
    BY <1>0, <2>1, <2>2 DEF Sees, Like, GenRecord, RecordStatuses
  <2>4. /\ ReceiptOK(Seen) /\ Seen.gen = rec.gen /\ Seen.bound = rec.bound
        /\ Seen.replacement = rec.replacement
    BY <1>0, <2>1, SeesReceipt DEF QueueInv, Sees, Like
  <2>5. Stays /\ ReceiptOK(rec') /\ ~StopOpen(rec')
    BY <1>0, <2>1, <2>3, <2>4 DEF Stays, ReceiptOK, StopOpen
  <2>6. Dozes => rec.replacement
    <3>1. SUFFICES ASSUME Dozes, ~rec.replacement PROVE FALSE
      OBVIOUS
    <3>2. /\ S.st = "stopped" /\ H.status = "queued" /\ Seen.idleSleep /\ StopOpen(Seen)
          /\ ~Seen.replacement /\ ~Seen.unavailable /\ Pendings # {}
      BY ZenonT(30), <1>0, <2>1, <2>4, <3>1, ResumePlan, SeesReceipt DEF Plan, Dozes, ReceiptOK
    <3>3. S.st \in {"ready", "stopping", "stopped", "archived"}
      BY <3>2
    <3>4. PICK due : due = FALSE
      OBVIOUS
    <3>5. PlanGeneration(Adapt(Seen, S, due, Seen.backoff)) = "None"
      BY <3>2, <3>3, DozePlan
    <3>6. QED  BY <2>1, <3>4, <3>5 DEF Plan
  <2>7. retireQ' => retireQ \/ (rec'.bound /\ rec'.replacement)
    BY <1>0, <2>1, <2>3, <2>4 DEF RetireAfter
  <2>8. QED  BY <1>0, <2>3, <2>4, <2>5, <2>6, <2>7 DEF Lulls
<1>7. QED  BY <1>1, <1>2, <1>3, <1>4, <1>5, <1>6 DEF Pass

LEMMA ReconciledLulls ==
  ASSUME IInv, SleepInv, NEW r, Reconciled(r), UNCHANGED <<mail, hub, archived, lastGen>>,
         w'.pc \in {"idle", "pass", "recover"},
         At("recover") \/ ~archived,
         Current /\ S.st # "none" => Sees(r, rec, S)
  PROVE  Lulls \/ Ends
<1> USE DEF IInv, SleepInv
<1>1. CASE Bound /\ S.st # "archived" /\ \E due \in BOOLEAN : Watch(r, due)
  <2>1. PICK due \in BOOLEAN : Watch(r, due)
    BY <1>1
  <2>2. /\ Current /\ rec.bound /\ S.st \in HubStates \ {"none"} /\ rec \in GenRecord
        /\ Sees(r, rec, S) /\ r \in GenRecord /\ ReceiptOK(r)
        /\ r.gen = rec.gen /\ r.bound = rec.bound /\ r.replacement = rec.replacement
    BY <1>1, RecFacts, SeesReceipt DEF GenInv, Bound, Sees, Like, QueueInv
  <2>3. CASE ~GoesToSleep(r, due)
    <3>1. rec' = r /\ retireQ' = RetireAfter(r, S)
      BY <2>1, <2>3, RetireTypes DEF Watch
    <3>2. retireQ' => retireQ \/ (rec.replacement /\ rec.bound)
      BY <2>2, <3>1 DEF RetireAfter
    <3>3. CASE S.st = "running" /\ Dozes /\ ~rec.replacement
      <4>1. Ended
        BY <2>2, <3>3 DEF DozeInv, Dozing, Dozes, Bound
      <4>2. ~retireQ /\ ~retireQ'
        BY <2>2, <3>1, <3>3, <4>1 DEF Ended, WaitInv, RetireAfter
      <4>3. Stays /\ ReceiptOK(rec') /\ (StopOpen(rec') => StopOpen(rec))
        BY <2>2, <3>1, SeesReceipt DEF Stays
      <4>4. QED  BY <2>2, <3>1, <3>3, <4>2, <4>3 DEF Lulls, Woken
    <3>4. CASE ~(S.st = "running" /\ Dozes /\ ~rec.replacement)
      BY <2>2, <3>1, <3>2, <3>4, SeenLulls
    <3>5. QED  BY <3>3, <3>4
  <2>4. CASE GoesToSleep(r, due)
    <3>1. rec' = SleepRequested(r, due)
      BY <2>1, <2>4 DEF Watch
    <3>2. PICK plan : plan = PlanGeneration(Adapt(r, S, due, r.backoff))
      OBVIOUS
    <3>3. PICK intent : intent = Intent(Adapt(r, S, due, r.backoff))
      OBVIOUS
    <3>4. /\ rec' \in GenRecord /\ rec'.gen = r.gen /\ rec'.bound = r.bound
          /\ rec'.unavailable = r.unavailable /\ (r.replacement => rec'.replacement)
          /\ r.idleSleep \/ intent = "idle" => rec'.idleSleep
          /\ rec'.receipt = IF plan = "StopSession" THEN [op |-> "stop", state |-> "requested"]
                            ELSE r.receipt
      BY <2>2, <3>1, <3>2, <3>3, SleepFields
    <3>5. Stays /\ ReceiptOK(rec')
      BY <2>2, <3>4 DEF Stays, ReceiptOK
    <3>6. ~r.replacement => Dozes' /\ (StopOpen(rec) \/ FallsAsleep)
      <4>1. ASSUME ~r.replacement PROVE
              /\ S.st # "running" /\ (StopOpen(rec) \/ Pendings = {})
              /\ r.idleSleep \/ intent = "idle"
              /\ plan = "StopSession" \/ StopOpen(r)
        BY <1>1, <2>2, <2>4, <3>2, <3>3, <4>1, SleepPlan
      <4>2. ASSUME ~r.replacement PROVE rec'.idleSleep /\ StopOpen(rec')
        BY <3>4, <4>1, <4>2 DEF StopOpen
      <4>3. QED  BY <4>1, <4>2 DEF Dozes, FallsAsleep
    <3>7. QED  BY <2>2, <3>4, <3>5, <3>6 DEF Lulls
  <2>5. QED  BY <2>3, <2>4
<1>2. CASE Bound /\ S.st = "archived" /\ Retired
  BY <1>2 DEF Retired, Ends
<1>3. CASE Current /\ ~rec.bound /\ S.st # "none" /\ UNCHANGED retireQ /\ rec' = [r EXCEPT !.bound = TRUE]
  <2>1. /\ r \in GenRecord /\ r.gen = rec.gen /\ ReceiptOK(rec) /\ ReceiptOK(r)
        /\ r.replacement = rec.replacement /\ rec.receipt.op = "none" /\ r.receipt.op = "none"
    BY <1>3, RecFacts, SeesReceipt DEF Sees, Like, QueueInv, ReceiptOK
  <2>2. /\ rec' \in GenRecord /\ rec'.gen = r.gen /\ rec'.bound /\ rec'.replacement = r.replacement
        /\ rec'.receipt = r.receipt /\ rec'.unavailable = r.unavailable
    BY <1>3, <2>1 DEF GenRecord
  <2>3. Stays
    BY <1>3, <2>1, <2>2 DEF Stays, S
  <2>4. ReceiptOK(rec') /\ ~Dozes /\ ~StopOpen(rec')
    BY <2>1, <2>2 DEF ReceiptOK, Dozes, StopOpen
  <2>5. QED  BY <1>3, <2>1, <2>2, <2>3, <2>4 DEF Lulls
<1>4. QED  BY <1>1, <1>2, <1>3 DEF Reconciled

LEMMA EffectLulls ==
  ASSUME IInv, SleepInv, Next, Effects
  PROVE  Steady \/ Lulls \/ (Begins /\ ~retireQ') \/ Ends
<1> USE DEF IInv, SleepInv
<1>0. /\ w.pc \notin {"idle", "recover", "pass"} =>
           Current /\ rec \in GenRecord /\ Like(rec, rec) /\ rec.gen \in Gens /\ S \in Session /\ ReceiptOK(rec)
      /\ w.pc \notin {"idle", "recover", "pass", "create"} => S.st \in HubStates \ {"none"} /\ rec.bound
  BY RecFacts DEF JobInv, Like, GenInv, TypeOK, QueueInv, Bound
<1>1. CASE EndTurnInterrupts \/ InterruptOk
  <2> DEFINE s == [S EXCEPT !.st = "ready"]
  <2>1. /\ Current /\ rec' = Applied(rec, s) /\ lastGen' = lastGen /\ S \in Session
        /\ rec \in GenRecord /\ rec.bound /\ retireQ' = RetireAfter(rec', s)
    BY <1>0, <1>1 DEF EndTurnInterrupts, InterruptOk, At
  <2>2. s.st = "ready"
    BY <2>1 DEF Session
  <2> HIDE DEF s
  <2>3. Sees(rec', rec, s)
    BY <2>1, <2>2, AppliedSees DEF HubStates
  <2>4. retireQ' => retireQ \/ (rec.replacement /\ rec.bound)
    BY <2>1, <2>3 DEF RetireAfter, Sees, Like
  <2>5. QED  BY <2>1, <2>2, <2>3, <2>4, SeenLulls
<1>2. CASE EndTurnFails \/ CreateFails \/ ArchiveFails
  <2>1. Current /\ rec' = Failing(rec) /\ lastGen' = lastGen /\ retireQ' = retireQ
    BY <1>0, <1>2 DEF EndTurnFails, CreateFails, ArchiveFails, At
  <2>2. QED  BY <2>1, FailingLulls
<1>3. CASE CreateOk
  <2> DEFINE r == [rec EXCEPT !.bound = TRUE]
  <2>1. /\ Current /\ rec \in GenRecord /\ rec.gen \in Gens /\ S \in Session /\ ReceiptOK(rec)
        /\ ~rec.bound /\ retireQ' = retireQ
    BY <1>0, <1>3 DEF CreateOk, At, WaitInv
  <2>2. /\ r \in GenRecord /\ r.gen = rec.gen /\ r.bound /\ r.replacement = rec.replacement
        /\ r.receipt = rec.receipt /\ r.unavailable = rec.unavailable
    BY <2>1 DEF GenRecord
  <2>3. FoundOrCreated.st \in HubStates \ {"none"}
    BY <2>1 DEF FoundOrCreated, Session, HubStates
  <2>4. hub'[rec.gen] = FoundOrCreated
    BY <1>3, <2>1 DEF CreateOk, TypeOK
  <2>5. rec' = Applied(r, FoundOrCreated) /\ lastGen' = lastGen
    BY <1>3 DEF CreateOk
  <2> HIDE DEF r
  <2>6. Sees(rec', r, FoundOrCreated)
    BY <2>2, <2>3, <2>5, AppliedSees
  <2>7. rec.receipt.op = "none" /\ rec'.receipt = rec.receipt
    BY <2>1, <2>2, <2>6 DEF ReceiptOK, Sees
  <2>8. ReceiptOK(rec') /\ ~Dozes /\ ~StopOpen(rec')
    BY <2>1, <2>2, <2>6, <2>7 DEF ReceiptOK, Dozes, StopOpen, Sees, Like
  <2>9. Stays /\ rec'.replacement = rec.replacement
    BY <2>1, <2>2, <2>3, <2>4, <2>5, <2>6 DEF Stays, Sees, Like
  <2>10. QED  BY <2>1, <2>8, <2>9 DEF Lulls
<1>4. CASE DeliverOk
  <2>1. CASE UNCHANGED <<rec, retireQ>>
    BY <1>4, <2>1 DEF DeliverOk, Steady
  <2>2. CASE ~UNCHANGED <<rec, retireQ>>
    <3> DEFINE s == Taken(rec.gen, w.msg)
    <3>1. /\ Current /\ rec' = Applied(rec, s) /\ lastGen' = lastGen /\ retireQ' = RetireAfter(rec', s)
          /\ CanTake(rec.gen, w.msg, Steers) /\ w.msg \in Msgs /\ rec.gen \in Gens
          /\ mail[w.msg].status = "delivering" /\ rec \in GenRecord /\ rec.bound
      BY <1>0, <1>4, <2>2 DEF DeliverOk, JobInv, At
    <3>2. s.st \in HubStates \ {"none"}
      BY <3>1, TakenFacts DEF HubStates
    <3> HIDE DEF s
    <3>3. Sees(rec', rec, s)
      BY <3>1, <3>2, AppliedSees
    <3>4. Dozes => rec.replacement
      BY <3>1 DEF DozeInv, Dozing, Dozes, Ended, Pendings, PendingStatuses, Bound
    <3>5. retireQ' => retireQ \/ (rec.replacement /\ rec.bound)
      BY <3>1, <3>3 DEF RetireAfter, Sees, Like
    <3>6. QED  BY <3>1, <3>3, <3>4, <3>5, SeenLulls
  <2>3. QED  BY <2>1, <2>2
<1>5. CASE ResumeOk
  <2> DEFINE s == IF S.st = "stopped" THEN [S EXCEPT !.st = "ready"] ELSE S
  <2>1. CASE UNCHANGED rec
    BY <1>5, <2>1 DEF ResumeOk, Steady
  <2>2. CASE ~UNCHANGED rec
    <3>1. /\ Current /\ lastGen' = lastGen /\ rec \in GenRecord /\ S \in Session /\ ReceiptOK(rec)
          /\ S.st \in HubStates \ {"none"} /\ retireQ' = retireQ /\ rec.receipt.op = "resume" /\ rec.bound
      BY <1>0, <1>5 DEF ResumeOk, At, WaitInv
    <3>2. s.st \in HubStates \ {"none"}
      BY <3>1 DEF Session, HubStates
    <3>3. rec' = [Applied(rec, s) EXCEPT
                            !.receipt = [op |-> "resume", state |-> "succeeded"],
                            !.unavailable = FALSE, !.backoff = FALSE]
      BY <1>5, <2>2 DEF ResumeOk
    <3> HIDE DEF s
    <3>4. Sees(Applied(rec, s), rec, s)
      BY <3>1, <3>2, AppliedSees
    <3>5. [op |-> "resume", state |-> "succeeded"] \in Receipts
      BY ReceiptTypes
    <3>6. /\ rec' \in GenRecord /\ rec'.gen = rec.gen /\ rec'.bound /\ rec'.replacement = rec.replacement
          /\ rec'.receipt = [op |-> "resume", state |-> "succeeded"] /\ ~rec'.unavailable
      BY <3>1, <3>3, <3>4, <3>5 DEF Sees, Like, GenRecord
    <3>7. Stays /\ ReceiptOK(rec') /\ ~Dozes /\ ~StopOpen(rec')
      BY <3>1, <3>6 DEF Stays, ReceiptOK, Dozes, StopOpen
    <3>8. QED  BY <3>1, <3>6, <3>7 DEF Lulls
  <2>3. QED  BY <2>1, <2>2
<1>6. ASSUME NEW state \in {"unknown", "terminal"}, NEW st \in RecordStatuses, NEW u \in BOOLEAN,
             NEW rp \in BOOLEAN, NEW b \in BOOLEAN,
             At("resume"), lastGen' = lastGen, retireQ' => retireQ, u => rp, rec.replacement => rp,
             ~u => ~rec.unavailable \/ rp,
             rec' = [SetReceipt(rec, state) EXCEPT !.status = st, !.unavailable = u, !.replacement = rp, !.backoff = b]
      PROVE  Lulls
  <2>1. /\ Current /\ rec \in GenRecord /\ ReceiptOK(rec) /\ rec.receipt.op = "resume" /\ rec.bound
    BY <1>0, <1>6 DEF At, WaitInv
  <2>2. SetReceipt(rec, state) = [rec EXCEPT !.receipt = [op |-> "resume", state |-> state]]
    BY <2>1 DEF SetReceipt
  <2>3. [op |-> "resume", state |-> state] \in Receipts
    BY DEF Receipts
  <2>4. /\ rec' \in GenRecord /\ rec'.gen = rec.gen /\ rec'.bound /\ rec'.replacement = rp
        /\ rec'.receipt = [op |-> "resume", state |-> state] /\ rec'.unavailable = u
    BY <1>6, <2>1, <2>2, <2>3 DEF GenRecord
  <2>5. Stays /\ ReceiptOK(rec') /\ ~Dozes /\ ~StopOpen(rec') /\ (rec.replacement => rec'.replacement)
    BY <1>6, <2>1, <2>4 DEF Stays, ReceiptOK, Dozes, StopOpen
  <2>6. QED  BY <1>6, <2>1, <2>4, <2>5 DEF Lulls
<1>7. CASE ResumeFails
  <2>1. /\ At("resume") /\ lastGen' = lastGen /\ retireQ' = retireQ /\ rec \in GenRecord /\ ReceiptOK(rec)
        /\ rec' = [SetReceipt(rec, "unknown") EXCEPT !.status = Asleep(rec), !.backoff = TRUE]
    BY <1>0, <1>7 DEF ResumeFails, At
  <2>2. Asleep(rec) \in RecordStatuses
    BY DEF Asleep, RecordStatuses
  <2>3. rec' = [SetReceipt(rec, "unknown") EXCEPT !.status = Asleep(rec), !.unavailable = rec.unavailable,
                   !.replacement = rec.replacement, !.backoff = TRUE]
    <3>1. LET x == SetReceipt(rec, "unknown") IN
          x \in GenRecord /\ x.unavailable = rec.unavailable /\ x.replacement = rec.replacement
      <4>1. SetReceipt(rec, "unknown") \in GenRecord
        BY <2>1, ReceiptLike DEF Like
      <4>2. QED  BY <2>1, <4>1 DEF SetReceipt, GenRecord
    <3>2. QED  BY <2>1, <3>1 DEF GenRecord
  <2>4. rec.unavailable \in BOOLEAN /\ rec.replacement \in BOOLEAN /\ (rec.unavailable => rec.replacement)
    BY <2>1 DEF GenRecord, ReceiptOK
  <2>5. QED  BY <1>6, <2>1, <2>2, <2>3, <2>4
<1>8. CASE ResumeImpossible
  <2>1. CASE rec' = NoRec /\ Go(On("pass", NoMessage))
    BY <1>8, <2>1 DEF ResumeImpossible, Ends, Go, On, Rest
  <2>2. CASE ~(rec' = NoRec /\ Go(On("pass", NoMessage)))
    <3>1. /\ At("resume") /\ lastGen' = lastGen /\ retireQ' = FALSE
        /\ rec' = [SetReceipt(rec, "terminal") EXCEPT !.status = Asleep(rec),
                     !.unavailable = TRUE, !.replacement = TRUE, !.backoff = FALSE]
      BY <1>8, <2>2 DEF ResumeImpossible
    <3>2. Asleep(rec) \in RecordStatuses
      BY DEF Asleep, RecordStatuses
    <3>3. QED  BY <1>6, <3>1, <3>2
  <2>3. QED  BY <2>1, <2>2
<1>9. CASE StopFails
  <2>1. /\ Current /\ lastGen' = lastGen /\ retireQ' = retireQ /\ (rec.replacement \/ Dozes)
    BY <1>0, <1>9 DEF StopFails, At, WaitInv
  <2>2. QED  BY <1>9, <2>1, FailingLulls DEF StopFails
<1>10. ASSUME S.st = "stopped", Current, rec.bound, lastGen' = lastGen, ~retireQ',
              rec' = Confirmed(Applied(rec, S))
       PROVE  Lulls
  <2> DEFINE r == Applied(rec, S)
  <2>1. rec \in GenRecord /\ ReceiptOK(rec) /\ Sees(r, rec, S) /\ r \in GenRecord
    BY <1>10, RecFacts, AppliedSees DEF QueueInv, HubStates, Sees, Like
  <2> HIDE DEF r
  <2>2. ReceiptOK(r) /\ rec' = Confirmed(r)
    BY <1>10, <2>1, SeesReceipt DEF r
  <2>3. Like(rec', r)
    BY <2>1, <2>2, ConfirmedLike
  <2>4. /\ rec'.unavailable = r.unavailable
        /\ rec'.receipt = IF r.receipt.op = "stop" THEN [op |-> "stop", state |-> "succeeded"] ELSE r.receipt
    BY <2>1, <2>2 DEF Confirmed, SetReceipt, GenRecord
  <2>5. /\ Stays /\ rec'.replacement = rec.replacement
    BY <1>10, <2>1, <2>3, StaysFacts DEF Sees, Like
  <2>6. ReceiptOK(rec') /\ ~StopOpen(rec')
    BY <2>2, <2>3, <2>4 DEF ReceiptOK, StopOpen, Like
  <2>7. QED  BY <1>10, <2>5, <2>6 DEF Lulls, Woken
<1>11. CASE StopConfirmed \/ StopUnconfirmed
  <2>1. Current /\ rec.bound /\ lastGen' = lastGen /\ retireQ' = retireQ /\ ~retireQ
    BY <1>0, <1>11 DEF StopConfirmed, StopUnconfirmed, At, WaitInv
  <2>2. rec' = rec \/ rec' = Failing(rec) \/ (S.st = "stopped" /\ rec' = Confirmed(Applied(rec, S)))
    BY <1>11 DEF StopConfirmed, StopUnconfirmed
  <2>3. QED  BY <1>10, <2>1, <2>2, FailingLulls DEF Steady
<1>12. CASE StopArchived
  BY <1>12 DEF StopArchived, Retired, Ends, Go, Rest
<1>13. CASE ArchiveOk
  <2>1. \/ StartCreate(NoMessage)
        \/ rec' = NoRec /\ lastGen' = lastGen /\ w' = Rest
    BY <1>13 DEF ArchiveOk, Retired, Go
  <2>2. StartCreate(NoMessage) => Begins /\ ~retireQ'
    BY DEF StartCreate, Begins, Go, On, Rest
  <2>3. QED  BY <2>1, <2>2 DEF Ends, Rest
<1>14. CASE Recover
  <2>1. CASE Reconciled(Applied(rec, S)) /\ Go(Rest)
    <3>1. Current /\ S.st # "none" => Sees(Applied(rec, S), rec, S)
      BY AppliedSees, RecFacts
    <3>2. UNCHANGED <<mail, hub, archived, lastGen>> /\ w'.pc = "idle" /\ At("recover")
      BY <1>14, <2>1 DEF Recover, Go, Rest
    <3>3. QED  BY <2>1, <3>1, <3>2, ReconciledLulls
  <2>2. CASE ~(Reconciled(Applied(rec, S)) /\ Go(Rest))
    BY <1>14, <2>2 DEF Recover, Steady
  <2>3. QED  BY <2>1, <2>2
<1>15. CASE DeliverRefused \/ DeliverLost \/ InterruptFails \/ StopOk
  BY <1>15 DEF DeliverRefused, DeliverLost, InterruptFails, StopOk, Steady
<1>16. QED
  BY <1>1, <1>2, <1>3, <1>4, <1>5, <1>7, <1>8, <1>9, <1>11, <1>12, <1>13, <1>14, <1>15 DEF Effects

LEMMA SleepKinds ==
  ASSUME IInv, SleepInv, Next
  PROVE  Steady \/ Lulls \/ (Begins /\ ~retireQ') \/ Ends
<1> USE DEF IInv, SleepInv
<1>1. CASE Pass
  BY <1>1, PassLulls
<1>2. CASE Effects
  BY <1>2, EffectLulls
<1>3. CASE Users \/ StartPass \/ PollCreates \/ Crash \/ AgentHub \/ RetryDue
  <2>1. UNCHANGED lastGen /\ ((rec' = rec /\ retireQ' \in {retireQ, FALSE}) \/ RequestReplacement \/ RetryDue)
    BY <1>3 DEF Users, Sends, Accept, Promotions, Promote, ArchiveResource, RequestReplacement, EndTurn,
         StartPass, PollCreates, Crash, RetryDue, AgentHub, TurnEnds, ProviderExit, HubStopped,
         ExternalArchive, ReplyTurn, LateArrives
  <2>2. CASE RequestReplacement \/ RetryDue
    <3>1. Current /\ rec \in GenRecord /\ ReceiptOK(rec)
      BY <2>2, RecFacts DEF RequestReplacement, RetryDue, Bound, QueueInv
    <3>2. \/ rec' = [rec EXCEPT !.replacement = TRUE] /\ rec.bound
          \/ rec' = [rec EXCEPT !.backoff = FALSE] /\ retireQ' = retireQ
      BY <2>2 DEF RequestReplacement, RetryDue, Bound
    <3>3. /\ rec' \in GenRecord /\ rec'.gen = rec.gen /\ rec'.bound = rec.bound
          /\ rec'.receipt = rec.receipt /\ rec'.idleSleep = rec.idleSleep
          /\ rec'.unavailable = rec.unavailable
          /\ (rec'.replacement /\ rec.bound) \/ (rec'.replacement = rec.replacement /\ retireQ' = retireQ)
      BY <3>1, <3>2 DEF GenRecord
    <3>4. Stays /\ ReceiptOK(rec') /\ (Dozes => Dozes') /\ (StopOpen(rec') => StopOpen(rec))
      BY <2>1, <3>1, <3>3 DEF Stays, ReceiptOK, Dozes, StopOpen
    <3>5. QED  BY <3>3, <3>4 DEF Lulls
  <2>3. QED  BY <2>1, <2>2 DEF Steady
<1>4. CASE Retirement
  <2>1. /\ Current /\ rec \in GenRecord /\ Bound /\ S.st \in HubStates \ {"none"} /\ At("idle")
        /\ ReceiptOK(rec) /\ rec.bound /\ retireQ /\ (rec.replacement \/ Dozes)
    BY <1>4, RecFacts DEF Retirement, RetireNothing, RetireAsleep, RetireActive, RetireArchived,
         RetireStop, RetireContinue, Undisturbed, Retiring, GenInv, Bound, QueueInv
  <2>2. CASE RetireNothing \/ RetireContinue
    BY <2>2 DEF RetireNothing, RetireContinue, Steady
  <2>3. CASE RetireAsleep
    <3> DEFINE r == Applied(rec, S)
    <3>1. /\ S.st = "stopped" /\ lastGen' = lastGen /\ ~retireQ' /\ rec' = Confirmed(r)
          /\ Sees(r, rec, S) /\ r \in GenRecord
      BY <2>1, <2>3, AppliedSees DEF RetireAsleep, Slept, Sees, Like
    <3> HIDE DEF r
    <3>2. ReceiptOK(r) /\ Like(rec', r)
      BY <2>1, <3>1, SeesReceipt, ConfirmedLike
    <3>3. /\ rec'.unavailable = r.unavailable
          /\ rec'.receipt = IF r.receipt.op = "stop" THEN [op |-> "stop", state |-> "succeeded"] ELSE r.receipt
      BY <3>1 DEF Confirmed, SetReceipt, GenRecord
    <3>4. Stays /\ rec'.replacement = rec.replacement
      BY <2>1, <3>1, <3>2, StaysFacts DEF Sees, Like
    <3>5. ReceiptOK(rec') /\ ~StopOpen(rec')
      BY <3>2, <3>3 DEF ReceiptOK, StopOpen, Like
    <3>6. QED  BY <3>1, <3>4, <3>5 DEF Lulls, Woken
  <2>4. CASE RetireActive
    <3>1. rec' = [rec EXCEPT !.status = "running", !.idleSleep = FALSE] /\ lastGen' = lastGen
          /\ S.st = "running" /\ ~retireQ'
      BY <2>4 DEF RetireActive
    <3>2. /\ rec' \in GenRecord /\ rec'.gen = rec.gen /\ rec'.bound = rec.bound
          /\ rec'.receipt = rec.receipt /\ rec'.replacement = rec.replacement
          /\ rec'.unavailable = rec.unavailable
      BY <2>1, <3>1 DEF GenRecord, RecordStatuses
    <3>3. Stays /\ ReceiptOK(rec') /\ (StopOpen(rec') => StopOpen(rec))
      BY <2>1, <3>1, <3>2 DEF Stays, ReceiptOK, StopOpen
    <3>4. QED  BY <3>1, <3>2, <3>3 DEF Lulls, Woken
  <2>5. CASE RetireArchived
    BY <2>1, <2>5 DEF RetireArchived, Retired, Ends, At
  <2>6. CASE RetireStop
    <3>1. /\ lastGen' = lastGen /\ ~retireQ' /\ (Automatic => Dozes)
          /\ rec' = [rec EXCEPT !.status = "stopping",
               !.receipt = IF Automatic THEN [op |-> "stop", state |-> "requested"] ELSE @]
      BY <2>1, <2>6 DEF RetireStop, Automatic
    <3>2. PICK rc \in Receipts :
            /\ rec' = [rec EXCEPT !.status = "stopping", !.receipt = rc]
            /\ rc = rec.receipt \/ (Dozes /\ rc = [op |-> "stop", state |-> "requested"])
      <4>1. [op |-> "stop", state |-> "requested"] \in Receipts /\ rec.receipt \in Receipts
        BY <2>1, ReceiptTypes, FieldTypes
      <4>2. QED  BY <3>1, <4>1
    <3>3. /\ rec' \in GenRecord /\ rec'.gen = rec.gen /\ rec'.bound = rec.bound
          /\ rec'.receipt = rc /\ rec'.replacement = rec.replacement
          /\ rec'.unavailable = rec.unavailable /\ rec'.idleSleep = rec.idleSleep
      BY <2>1, <3>2 DEF GenRecord, RecordStatuses
    <3>4. Stays /\ ReceiptOK(rec') /\ (Dozes => Dozes') /\ (StopOpen(rec') => StopOpen(rec))
      BY <2>1, <3>1, <3>2, <3>3 DEF Stays, ReceiptOK, StopOpen, Dozes
    <3>5. QED  BY <3>1, <3>3, <3>4 DEF Lulls
  <2>7. QED  BY <1>4, <2>2, <2>3, <2>4, <2>5, <2>6 DEF Retirement
<1>5. CASE Poll
  <2>1. Current /\ S.st # "none" => Sees(Projected(rec, S), rec, S)
    BY ProjectedSees, RecFacts
  <2>2. UNCHANGED <<mail, hub, archived, lastGen>> /\ w'.pc = "idle" /\ ~archived
    BY <1>5 DEF Poll, At
  <2>3. QED  BY <1>5, <2>1, <2>2, ReconciledLulls DEF Poll
<1>6. QED  BY <1>1, <1>2, <1>3, <1>4, <1>5 DEF Next

(* Nothing but Stop makes a Session stop.                                  *)
LEMMA StoppingSteps ==
  ASSUME IInv, Next, NEW g \in Gens, hub'[g].st = "stopping", hub[g].st # "stopping"
  PROVE  StopOk /\ g = rec.gen
<1> USE DEF IInv
<1>1. CASE UNCHANGED hub
  BY <1>1
<1>2. CASE HubMoves
  <2>1. PICK h \in Gens, st \in HubStates \ {"none", "running"} :
          HubTo(h, st) /\ (st = "stopping" => StopOk /\ h = rec.gen)
    BY <1>2 DEF HubMoves
  <2>2. QED  BY <2>1, HubToFacts
<1>3. CASE \E h \in Gens : ReplyTurn(h)
  BY <1>3, ReplyFacts
<1>4. CASE Takes
  <2>1. PICK m \in Msgs, steer \in BOOLEAN :
          /\ Flown(m) /\ mail[m].gen \in Gens /\ CanTake(mail[m].gen, m, steer)
          /\ hub' = [hub EXCEPT ![mail[m].gen] = Taken(mail[m].gen, m)]
    BY <1>4 DEF Takes
  <2>2. PICK h \in Gens : h = mail[m].gen
    BY <2>1
  <2>3. Taken(h, m).st \in {"ready", "running", "stopped"}
    BY <2>1, <2>2, TakenFacts
  <2>4. hub'[g] = IF g = h THEN Taken(h, m) ELSE hub[g]
    BY <2>1, <2>2 DEF TypeOK
  <2>5. QED  BY <2>3, <2>4
<1>5. QED  BY <1>1, <1>2, <1>3, <1>4, HubKinds

-----------------------------------------------------------------------------
(* The parts of the invariant, one by one.                                 *)

LEMMA QueueSteps ==
  ASSUME IInv, SleepInv, Next
  PROVE  QueueInv'
<1> USE DEF SleepInv
<1>1. CASE Steady
  BY <1>1 DEF Steady, QueueInv, Current, Dozes
<1>2. CASE Lulls
  <2>1. Current /\ (rec.bound => rec'.bound) /\ ReceiptOK(rec')
    BY <1>2 DEF Lulls, Stays
  <2>2. CASE retireQ /\ retireQ'
    <3>1. rec.bound /\ (rec.replacement \/ Dozes)
      BY <2>1, <2>2 DEF QueueInv
    <3>2. ~Woken
      BY <2>2 DEF Woken
    <3>3. QED  BY <1>2, <2>1, <3>1, <3>2 DEF Lulls, QueueInv
  <2>3. CASE ~(retireQ /\ retireQ')
    BY <1>2, <2>1, <2>3 DEF Lulls, QueueInv
  <2>4. QED  BY <2>2, <2>3
<1>3. CASE Begins /\ ~retireQ'
  <2>1. ReceiptOK(rec')
    BY <1>3 DEF Begins, NewRecord, ReceiptOK, NoReceipt
  <2>2. QED  BY <1>3, <2>1 DEF QueueInv
<1>4. CASE Ends
  BY <1>4 DEF Ends, QueueInv, Current
<1>5. QED  BY <1>1, <1>2, <1>3, <1>4, SleepKinds

(* How a call begins.                                                      *)
Held == rec' = rec /\ retireQ' = retireQ /\ w' = w
Calling ==
  \/ Held
  \/ Crash /\ w'.pc = "recover"
  \/ w'.pc = "create" /\ (Begins \/ (rec' = rec /\ Current /\ ~rec.bound))
  \/ w'.pc = "resume" /\ PassResume
  \/ w'.pc = "stop" /\ RetireStop
  \/ w'.pc \in {"stopwait", "archive"} /\ RetireContinue /\ (w'.pc = "archive" => S.st = "stopped")
  \/ w'.pc = "stopwait" /\ StopOk
  \/ w'.pc = "archive" /\ StopConfirmed /\ rec' = rec /\ ~Automatic
  \/ w'.pc = "archive" /\ ResumeImpossible /\ rec' # NoRec

LEMMA CallKinds ==
  ASSUME IInv, Next, w'.pc \in {"recover", "create", "resume", "stop", "stopwait", "archive"}
  PROVE  Calling
<1> USE DEF IInv
<1>1. CASE Pass
  <2>1. \/ w' = w \/ w' = Rest \/ PassCreate
        \/ w' \in {Guarded("interrupt"), Guarded("deliver")}
        \/ PassResume /\ w' = [On("resume", Head) EXCEPT !.turn = FactTurn(NoTurn, H)]
    BY <1>1, Zenon DEF Pass, PassArchived, PassDone, PassUnknown, PassUnbound, PassHeld,
         PassReplace, PassBlocked, PassRetire, PassResume, PassInterrupting, PassInterrupt, PassWait,
         PassDeliver, Go
  <2>2. At("pass")
    BY <1>1, ObservedFacts DEF Pass, PassArchived, PassDone, PassUnknown, PassCreate, PassUnbound, PassHeld,
         PassReplace, PassBlocked, PassRetire, PassResume, PassInterrupting, PassInterrupt,
         PassWait, PassDeliver, Ordinary, Proceeds, Ready, Working
  <2>3. Guarded("interrupt").pc = "interrupt" /\ Guarded("deliver").pc = "deliver" /\ Rest.pc = "idle"
    BY JobPc DEF Guarded
  <2>4. PassCreate => Begins /\ w'.pc = "create"
    BY JobPc DEF PassCreate, StartCreate, Begins, Go
  <2>5. [On("resume", Head) EXCEPT !.turn = FactTurn(NoTurn, H)].pc = "resume"
    BY JobPc
  <2>6. QED  BY <2>1, <2>2, <2>3, <2>4, <2>5 DEF Calling, At
<1>2. CASE Effects
  <2>1. \/ w' = Rest \/ w' = On("pass", NoMessage)
        \/ w' = On("archive", NoMessage) /\ StopConfirmed /\ rec' = rec /\ ~Automatic
        \/ w' = On("archive", NoMessage) /\ ResumeImpossible
        \/ w' = On("stopwait", NoMessage) /\ StopOk
        \/ w' = On("create", NoMessage) /\ (StartCreate(NoMessage) \/ (rec' = rec /\ Current /\ ~rec.bound))
    <3>1. CASE EndTurnInterrupts \/ EndTurnFails \/ CreateOk \/ CreateFails \/ DeliverOk \/ DeliverRefused
               \/ DeliverLost \/ InterruptOk \/ InterruptFails \/ ResumeOk \/ ResumeFails
               \/ StopFails \/ StopArchived \/ StopUnconfirmed \/ ArchiveFails
      BY <3>1, Zenon DEF EndTurnInterrupts, EndTurnFails, CreateOk, CreateFails, DeliverOk, DeliverRefused,
           DeliverLost, InterruptOk, InterruptFails, ResumeOk, ResumeFails,
           StopFails, StopArchived, StopUnconfirmed, ArchiveFails, Go
    <3>2. CASE ResumeImpossible
      BY <3>2, Zenon DEF ResumeImpossible, Go
    <3>3. CASE StopOk
      BY <3>3, Zenon DEF StopOk, Go
    <3>4. CASE StopConfirmed
      BY <3>4, Zenon DEF StopConfirmed, Go
    <3>5. CASE ArchiveOk
      BY <3>5, Zenon DEF ArchiveOk, StartCreate, Go
    <3>6. CASE Recover
      BY <3>6, Zenon DEF Recover, Go
    <3>7. QED  BY <1>2, <3>1, <3>2, <3>3, <3>4, <3>5, <3>6 DEF Effects
  <2>2. StartCreate(NoMessage) => Begins
    BY JobPc DEF StartCreate, Begins, Go
  <2>3. ResumeImpossible /\ w' = On("archive", NoMessage) => rec' # NoRec
    <3>1. SUFFICES ASSUME ResumeImpossible, w'.pc = "archive" PROVE rec' # NoRec
      BY JobPc
    <3>2. rec \in GenRecord
      BY <3>1, RecFacts DEF ResumeImpossible, JobInv, At
    <3>3. rec' = [SetReceipt(rec, "terminal") EXCEPT !.status = Asleep(rec),
                     !.unavailable = TRUE, !.replacement = TRUE, !.backoff = FALSE]
      BY <3>1, JobPc DEF ResumeImpossible, Go
    <3>4. rec'.gen = rec.gen /\ rec.gen # 0
      BY <3>2, <3>3 DEF SetReceipt, GenRecord, Gens
    <3>5. QED  BY <3>4 DEF NoRec
  <2>4. QED  BY <2>1, <2>2, <2>3, JobPc DEF Calling
<1>3. CASE Sends \/ ArchiveResource \/ AgentHub
  BY <1>3 DEF Sends, Accept, ArchiveResource, AgentHub, TurnEnds, ProviderExit, HubStopped,
       ExternalArchive, ReplyTurn, LateArrives, Calling, Held
<1>4. CASE Promotions \/ RequestReplacement \/ EndTurn \/ StartPass \/ Poll \/ PollCreates
           \/ RetryDue \/ Crash
  <2>1. \/ w' \in {On("pass", NoMessage), On("endturn", NoMessage)}
        \/ w' = On("create", NoMessage) /\ rec' = rec /\ Current /\ ~rec.bound
        \/ Crash /\ w' = On("recover", NoMessage)
        \/ w' = w /\ At("idle")
    BY <1>4 DEF Promotions, Promote, RequestReplacement, EndTurn, StartPass, Poll, PollCreates, RetryDue,
         Crash, Go
  <2>2. QED  BY <2>1, JobPc DEF At, Calling
<1>5. CASE Retirement
  <2>1. \/ w' = On("stop", NoMessage) /\ RetireStop
        \/ w' = On("stopwait", NoMessage) /\ RetireContinue
        \/ w' = On("archive", NoMessage) /\ RetireContinue /\ S.st = "stopped"
        \/ w' = w /\ At("idle")
    BY <1>5 DEF Retirement, RetireNothing, RetireAsleep, RetireActive, RetireArchived, RetireStop,
         RetireContinue, Undisturbed, Retiring, Go
  <2>2. QED  BY <2>1, JobPc DEF At, Calling
<1>6. QED  BY <1>1, <1>2, <1>3, <1>4, <1>5 DEF Next, Users

LEMMA WaitSteps ==
  ASSUME IInv, SleepInv, Next
  PROVE  WaitInv'
<1> USE DEF IInv, SleepInv
<1>1. SUFFICES ASSUME w'.pc \in {"recover", "create", "resume", "stop", "stopwait", "archive"}
               PROVE  WaitInv'
  BY DEF WaitInv, At
<1>2. Calling
  BY <1>1, CallKinds
<1>3. CASE Held
  BY <1>3 DEF Held, WaitInv, At, Dozes
<1>4. CASE Crash /\ w'.pc = "recover"
  BY <1>4 DEF Crash, WaitInv, At
<1>5. CASE w'.pc = "create" /\ (Begins \/ (rec' = rec /\ Current /\ ~rec.bound))
  <2>1. ~rec'.bound
    BY <1>5 DEF Begins, NewRecord
  <2>2. QED  BY <1>5, <2>1 DEF WaitInv, At
<1>6. CASE w'.pc = "resume" /\ PassResume
  <2>1. Seen \in GenRecord
    BY <1>6, ObservedFacts DEF PassResume, Like
  <2>2. rec' = [Seen EXCEPT !.status = "starting", !.receipt = [op |-> "resume", state |-> "requested"]]
    BY <1>6 DEF PassResume
  <2>3. rec'.receipt.op = "resume"
    BY <2>1, <2>2 DEF GenRecord
  <2>4. QED  BY <1>6, <2>3 DEF WaitInv, At
<1>7. CASE w'.pc = "stop" /\ RetireStop
  <2>1. /\ Current /\ rec \in GenRecord /\ retireQ /\ (rec.replacement \/ Dozes)
        /\ rec' = [rec EXCEPT !.status = "stopping",
               !.receipt = IF Automatic THEN [op |-> "stop", state |-> "requested"] ELSE @]
        /\ ~retireQ'
    BY <1>7, RecFacts DEF RetireStop, Undisturbed, Retiring, Bound, QueueInv
  <2>2. PICK rc : /\ rec' = [rec EXCEPT !.status = "stopping", !.receipt = rc]
                  /\ Automatic => rc = [op |-> "stop", state |-> "requested"]
    BY <2>1
  <2>3. rec'.replacement = rec.replacement /\ rec'.idleSleep = rec.idleSleep /\ rec'.receipt = rc
    BY <2>1, <2>2 DEF GenRecord
  <2>4. rec'.replacement \/ Dozes'
    BY <2>1, <2>2, <2>3 DEF Automatic, Dozes, StopOpen
  <2>5. QED  BY <1>7, <2>1, <2>4 DEF WaitInv, At
<1>8. CASE w'.pc \in {"stopwait", "archive"} /\ RetireContinue /\ (w'.pc = "archive" => S.st = "stopped")
  <2>1. /\ rec' = rec /\ ~retireQ' /\ (rec.replacement \/ Dozes)
        /\ S.st = "stopped" => rec.replacement
    BY <1>8 DEF RetireContinue, Undisturbed, Retiring, Bound, QueueInv, Slept, Automatic, Dozes
  <2>2. QED  BY <1>8, <2>1 DEF WaitInv, At, Dozes
<1>9. CASE w'.pc = "stopwait" /\ StopOk
  <2>1. rec' = rec /\ retireQ' = retireQ /\ ~retireQ /\ (rec.replacement \/ Dozes)
    BY <1>9 DEF StopOk, At, WaitInv
  <2>2. QED  BY <1>9, <2>1 DEF WaitInv, At, Dozes
<1>10. CASE w'.pc = "archive" /\ StopConfirmed /\ rec' = rec /\ ~Automatic
  BY <1>10 DEF StopConfirmed, At, WaitInv, Automatic, Dozes
<1>11. CASE w'.pc = "archive" /\ ResumeImpossible /\ rec' # NoRec
  <2>1. /\ rec \in GenRecord
        /\ rec' = [SetReceipt(rec, "terminal") EXCEPT !.status = Asleep(rec),
                     !.unavailable = TRUE, !.replacement = TRUE, !.backoff = FALSE]
    BY <1>11, RecFacts DEF ResumeImpossible, JobInv, At
  <2>2. rec'.replacement
    BY <2>1 DEF SetReceipt, GenRecord
  <2>3. QED  BY <1>11, <2>2 DEF WaitInv, At
<1>12. QED
  BY <1>2, <1>3, <1>4, <1>5, <1>6, <1>7, <1>8, <1>9, <1>10, <1>11 DEF Calling

LEMMA StoppingKept ==
  ASSUME IInv, SleepInv, Next
  PROVE  StoppingInv'
<1> USE DEF IInv, SleepInv
<1>1. SUFFICES ASSUME NEW g \in Gens, hub'[g].st = "stopping"
               PROVE  /\ g <= lastGen'
                      /\ Current' /\ g = rec'.gen => rec'.bound /\ (rec'.replacement \/ Dozes')
  BY DEF StoppingInv
<1>2. g \in Nat /\ lastGen \in Nat
  BY RecFacts DEF Gens
<1>3. CASE hub[g].st = "stopping"
  <2>1. g <= lastGen /\ (Current /\ g = rec.gen => rec.bound /\ (rec.replacement \/ Dozes))
    BY <1>3 DEF StoppingInv
  <2>2. CASE Steady
    BY <2>1, <2>2 DEF Steady, Current, Dozes
  <2>3. CASE Lulls
    <3>1. /\ Current /\ rec'.gen = rec.gen /\ lastGen' = lastGen /\ (rec.bound => rec'.bound)
          /\ rec.replacement => rec'.replacement
          /\ Dozes => rec'.replacement \/ Dozes' \/ Woken
      BY <2>3 DEF Lulls, Stays
    <3>2. g = rec.gen => ~Woken
      BY <1>3 DEF Woken, S
    <3>3. QED  BY <2>1, <3>1, <3>2
  <2>4. CASE Begins
    <3>1. lastGen' = lastGen + 1 /\ rec'.gen = lastGen + 1
      BY <2>4 DEF Begins, NewRecord
    <3>2. QED  BY <1>2, <2>1, <3>1
  <2>5. CASE Ends
    BY <2>1, <2>5 DEF Ends, Current
  <2>6. QED  BY <2>2, <2>3, <2>4, <2>5, SleepKinds
<1>4. CASE hub[g].st # "stopping"
  <2>1. /\ StopOk /\ g = rec.gen /\ rec' = rec /\ lastGen' = lastGen /\ Bound /\ g = lastGen
        /\ rec.replacement \/ Dozes
    BY <1>1, <1>4, StoppingSteps DEF StopOk, At, JobInv, GenInv, WaitInv, Bound
  <2>2. QED  BY <1>2, <2>1 DEF Bound, Dozes
<1>5. QED  BY <1>3, <1>4

-----------------------------------------------------------------------------
(* What a step does to the mail while a Stop is open.                      *)

LEMMA MailActions ==
  ASSUME IInv, Next, NEW m \in Msgs, mail'[m] # mail[m]
  PROVE  \/ \E mode \in SendModes : Accept(m, mode)
         \/ Promote(m)
         \/ mail[m].status = "queued" /\ mail'[m].status = "cancelled"
         \/ /\ mail'[m].status \in {mail[m].status, "undeliverable"}
            /\ mail'[m].actual = mail[m].actual /\ mail'[m].frozen = mail[m].frozen
         \/ PassArchived /\ m \in Pendings
         \/ /\ Working /\ m = Head
            /\ PassHeld \/ PassUnknown \/ PassInterrupting \/ PassInterrupt \/ PassWait \/ PassDeliver
         \/ DeliverOk /\ mail'[m].status = "delivered"
<1> USE DEF IInv
<1>1. mail' # mail /\ mail[m] \in Message
  BY DEF TypeOK
<1>2. ASSUME NEW h, NEW x, Put(h, x) PROVE h = m /\ mail'[m] = x
  <2>1. mail'[m] = IF h = m THEN x ELSE mail[m]
    BY <1>2 DEF Put, TypeOK
  <2>2. QED  BY <1>1, <2>1
<1>3. CASE Sends
  <2>1. PICK k \in Msgs, mode \in SendModes : Accept(k, mode)
    BY <1>3 DEF Sends
  <2>2. \E x : Put(k, x)
    BY <2>1 DEF Accept
  <2>3. QED  BY <1>2, <2>1, <2>2
<1>4. CASE Promotions
  BY <1>2, <1>4 DEF Promotions, Promote
<1>5. CASE EndTurnInterrupts
  <2>1. mail'[m] = mail[m] \/ (mail[m].status = "queued" /\ mail'[m] = [mail[m] EXCEPT !.status = "cancelled"])
    BY <1>5 DEF EndTurnInterrupts, SteersCancelled
  <2>2. [mail[m] EXCEPT !.status = "cancelled"].status = "cancelled"
    BY <1>1 DEF Message
  <2>3. QED  BY <2>1, <2>2
<1>6. CASE CreateFails \/ ResumeImpossible
  <2>1. mail' = CountFailure(w.msg)
    BY <1>6 DEF CreateFails, ResumeImpossible
  <2>2. ~(w.msg = NoMessage \/ mail[w.msg].gen # 0)
    BY <1>1, <2>1 DEF CountFailure
  <2>3. PICK st \in {"undeliverable", mail[w.msg].status}, n \in {mail[w.msg].fails + 1} :
          mail' = [mail EXCEPT ![w.msg].fails = n, ![w.msg].status = st]
    BY <2>1, <2>2 DEF CountFailure
  <2>4. w.msg = m
    BY <1>1, <2>3 DEF TypeOK
  <2>5. mail'[m] = [mail[m] EXCEPT !.fails = n, !.status = st]
    BY <2>3, <2>4 DEF TypeOK
  <2>6. LET x == [mail[m] EXCEPT !.fails = n, !.status = st]
        IN x.status = st /\ x.actual = mail[m].actual /\ x.frozen = mail[m].frozen
    BY <1>1 DEF Message
  <2>7. st \in {"undeliverable", mail[m].status}
    BY <2>4
  <2>8. QED  BY <2>5, <2>6, <2>7
<1>7. CASE DeliverOk
  <2>1. w.msg \in Msgs /\ M \in Message
    BY <1>7 DEF DeliverOk, JobInv, At, M, TypeOK
  <2>2. PICK t : Put(w.msg, [M EXCEPT !.status = "delivered", !.turn = t])
    BY <1>1, <1>7, Zenon DEF DeliverOk
  <2>3. mail'[m] = [M EXCEPT !.status = "delivered", !.turn = t]
    BY <1>2, <2>2
  <2>4. QED  BY <1>7, <2>1, <2>3 DEF Message
<1>8. CASE PassArchived
  <2>1. m \in Pendings
    BY <1>1, <1>8 DEF PassArchived
  <2>2. QED  BY <1>8, <2>1
<1>9. CASE PassHeld \/ PassUnknown \/ PassInterrupting \/ PassInterrupt \/ PassWait \/ PassDeliver
  <2>1. Working
    BY <1>9, ObservedFacts DEF PassHeld, PassUnknown, PassInterrupting, PassInterrupt, PassWait, PassDeliver,
         Proceeds, Ordinary, Ready
  <2>2. \E x : Put(Head, x)
    BY <1>1, <1>9, Zenon DEF PassHeld, PassUnknown, PassInterrupting, PassInterrupt, PassWait, PassDeliver
  <2>3. QED  BY <1>2, <1>9, <2>1, <2>2
<1>10. CASE \/ ArchiveResource \/ RequestReplacement \/ EndTurn \/ StartPass
           \/ PassDone \/ PassCreate \/ PassUnbound \/ PassReplace \/ PassBlocked \/ PassRetire
           \/ PassResume \/ EndTurnFails \/ CreateOk \/ DeliverRefused \/ DeliverLost
           \/ InterruptOk \/ InterruptFails \/ ResumeOk \/ ResumeFails
           \/ StopOk \/ StopFails \/ StopConfirmed \/ StopArchived \/ StopUnconfirmed
           \/ ArchiveOk \/ ArchiveFails \/ Recover \/ Retirement \/ Poll \/ PollCreates
           \/ RetryDue \/ Crash \/ AgentHub
  BY <1>1, <1>10 DEF ArchiveResource, RequestReplacement, EndTurn, StartPass, PassDone, PassCreate,
         PassUnbound, PassReplace, PassBlocked, PassRetire, PassResume, EndTurnFails, CreateOk,
         DeliverRefused, DeliverLost, InterruptOk, InterruptFails, ResumeOk, ResumeFails, StopOk,
         StopFails, StopConfirmed, StopArchived, StopUnconfirmed, ArchiveOk, ArchiveFails, Recover,
         Retirement, RetireNothing, RetireAsleep, RetireActive, RetireArchived, RetireStop,
         RetireContinue, Poll, PollCreates, RetryDue, Crash, AgentHub, TurnEnds, ProviderExit,
         HubStopped, ExternalArchive, ReplyTurn, LateArrives
<1>11. QED
  BY <1>3, <1>4, <1>5, <1>6, <1>7, <1>8, <1>9, <1>10 DEF Next, Users, Pass, Effects

(* Behind a Session that is not running the head of the mailbox waits.     *)
LEMMA HeadWaits ==
  ASSUME IInv, Working, H.status = "queued", S.st # "running",
         PassHeld \/ PassUnknown \/ PassInterrupting \/ PassInterrupt \/ PassWait
  PROVE  /\ mail'[Head].status = "queued"
         /\ \/ mail'[Head].actual # "steer"
            \/ mail'[Head].actual = H.actual /\ mail'[Head].frozen = H.frozen
<1> USE DEF IInv
<1>1. Head \in Msgs /\ H = mail[Head] /\ H \in Message
  BY WorkingFacts DEF H
<1>2. ASSUME NEW x, Put(Head, x) PROVE mail'[Head] = x
  BY <1>1, <1>2 DEF Put, TypeOK
<1>3. CASE PassHeld
  <2>1. mail' = mail \/ Put(Head, [H EXCEPT !.actual = "enqueue", !.frozen = TRUE])
    BY <1>3 DEF PassHeld
  <2>2. LET x == [H EXCEPT !.actual = "enqueue", !.frozen = TRUE]
        IN x.status = H.status /\ x.actual = "enqueue"
    BY <1>1 DEF Message
  <2>3. QED  BY <1>1, <1>2, <2>1, <2>2
<1>4. CASE PassWait
  <2>1. mail'[Head] = Resolved
    BY <1>2, <1>4 DEF PassWait
  <2>2. Resolved = H \/ Resolved = [H EXCEPT !.frozen = TRUE, !.actual = "enqueue"]
    BY Zenon DEF Resolved, Active
  <2>3. LET x == [H EXCEPT !.frozen = TRUE, !.actual = "enqueue"]
        IN x.status = H.status /\ x.actual = "enqueue"
    BY <1>1 DEF Message
  <2>4. QED  BY <2>1, <2>2, <2>3
<1>5. CASE PassUnknown \/ PassInterrupting \/ PassInterrupt
  BY <1>5 DEF PassUnknown, PassInterrupting, PassInterrupt, Flying, Active
<1>6. QED  BY <1>3, <1>4, <1>5

(* With a Stop open no waiting message is handed over.                     *)
LEMMA DozeHolds ==
  ASSUME IInv, SleepInv, Dozing
  PROVE  ~PassDeliver
<1> USE DEF IInv, SleepInv
<1>1. SUFFICES ASSUME PassDeliver PROVE FALSE
  OBVIOUS
<1>2. /\ Observed /\ Delivers /\ Working /\ Like(Seen, rec) /\ Seen \in GenRecord /\ Current /\ rec.bound
      /\ Plan \notin Blocked /\ Plan # "RetireGeneration"
  BY <1>1, ObservedFacts DEF PassDeliver, Ordinary, Proceeds, Like, Bound
<1>3. /\ S.st \in HubStates \ {"none"} /\ rec \in GenRecord /\ Head \in Msgs /\ H = mail[Head] /\ Pendings # {}
      /\ H.status \in PendingStatuses
  BY <1>2, RecFacts, WorkingFacts DEF Bound, GenInv, H
<1>4. /\ H.status = "queued" /\ ~(H.frozen /\ H.actual = "steer")
      /\ S.st # "running" /\ rec.idleSleep /\ ~rec.replacement /\ StopOpen(rec)
  BY <1>3 DEF Dozing, DozeInv, PendingStatuses
<1>5. Sees(Seen, rec, S)
  BY <1>3, AppliedSees DEF Seen
<1>6. /\ Seen.idleSleep /\ StopOpen(Seen) /\ ~Seen.replacement /\ ~Seen.unavailable
  BY <1>2, <1>3, <1>4, <1>5, SeesReceipt DEF QueueInv, ReceiptOK, Like
<1>7. S.st \in {"ready", "stopping", "stopped", "archived"}
  BY <1>3, <1>4 DEF HubStates
<1>8. PICK due : due = FALSE
  OBVIOUS
<1>9. LET plan == PlanGeneration(Adapt(Seen, S, due, Seen.backoff)) IN
      /\ S.st = "ready" => plan = "StopSession"
      /\ S.st = "stopping" => plan = "WaitForStopped"
      /\ S.st = "archived" => plan = "RetireGeneration"
  BY <1>3, <1>4, <1>6, <1>7, DozePlan
<1>10. S.st = "stopped"
  BY <1>2, <1>7, <1>8, <1>9 DEF Plan, Blocked
<1>11. Resolved.actual # "steer"
  <2>1. \/ Resolved = H /\ H.frozen
        \/ Resolved = [H EXCEPT !.frozen = TRUE, !.actual = "enqueue"]
    BY <1>4, Zenon DEF Resolved, Active
  <2>2. H \in Message
    BY <1>3 DEF TypeOK
  <2>3. QED  BY <1>4, <2>1, <2>2 DEF Message
<1>12. QED  BY <1>2, <1>4, <1>10, <1>11 DEF Delivers

Waits(m) ==
  /\ mail[m].status \notin {"delivering", "interrupting"}
  /\ mail[m].status = "queued" => ~(mail[m].frozen /\ mail[m].actual = "steer")

LEMMA AcceptFrozen ==
  ASSUME IInv, NEW m \in Msgs, NEW mode \in SendModes, Accept(m, mode)
  PROVE  mail'[m].status = "queued" /\ mail'[m].frozen = mail[m].frozen
<1>1. mail[m] \in Message
  BY DEF IInv, TypeOK
<1>2. PICK n : mail'[m] = [mail[m] EXCEPT !.status = "queued", !.requested = mode, !.actual = mode, !.seq = n]
  BY DEF Accept, Put, IInv, TypeOK
<1>3. QED  BY <1>1, <1>2 DEF Message

LEMMA DozeMail ==
  ASSUME IInv, SleepInv, Next, Dozing, NEW m \in Msgs
  PROVE  Waits(m)'
<1> USE DEF IInv, SleepInv
<1>1. /\ Waits(m) /\ S.st # "running" /\ mail[m] \in Message
  BY DEF DozeInv, Waits, TypeOK
<1>2. CASE mail'[m] = mail[m]
  BY <1>1, <1>2 DEF Waits
<1>3. CASE mail'[m] # mail[m]
  <2>1. ASSUME NEW mode \in SendModes, Accept(m, mode) PROVE Waits(m)'
    <3>1. mail[m].status = "none"
      BY <2>1 DEF Accept
    <3>2. ~mail[m].frozen
      BY <3>1 DEF DozeInv
    <3>3. QED  BY <2>1, <3>2, AcceptFrozen DEF Waits
  <2>2. ~Promote(m)
    BY <1>1 DEF Promote
  <2>3. CASE mail[m].status = "queued" /\ mail'[m].status = "cancelled"
    BY <2>3 DEF Waits
  <2>4. CASE /\ mail'[m].status \in {mail[m].status, "undeliverable"}
             /\ mail'[m].actual = mail[m].actual /\ mail'[m].frozen = mail[m].frozen
    BY <1>1, <2>4 DEF Waits
  <2>5. CASE PassArchived /\ m \in Pendings
    <3>1. PICK st \in {"delivery_unknown", "undeliverable"} : mail'[m] = [mail[m] EXCEPT !.status = st]
      BY <2>5 DEF PassArchived, Pendings
    <3>2. QED  BY <1>1, <3>1 DEF Waits, Message
  <2>6. CASE /\ Working /\ m = Head
             /\ PassHeld \/ PassUnknown \/ PassInterrupting \/ PassInterrupt \/ PassWait \/ PassDeliver
    <3>1. H.status \in PendingStatuses /\ H = mail[m]
      BY <2>6, WorkingFacts DEF H
    <3>2. H.status = "queued"
      BY <1>1, <3>1 DEF Waits, PendingStatuses
    <3>3. QED  BY <1>1, <2>6, <3>1, <3>2, HeadWaits, DozeHolds DEF Waits
  <2>7. CASE DeliverOk /\ mail'[m].status = "delivered"
    BY <2>7 DEF Waits
  <2>8. QED  BY <1>3, <2>1, <2>2, <2>3, <2>4, <2>5, <2>6, <2>7, MailActions
<1>4. QED  BY <1>2, <1>3

LEMMA DozeHub ==
  ASSUME IInv, SleepInv, Next, Dozing
  PROVE  hub'[rec.gen].st # "running"
<1> USE DEF IInv, SleepInv
<1>1. rec.gen \in Gens /\ hub[rec.gen].st # "running" /\ Current
  BY RecFacts DEF DozeInv, Dozing, S
<1>2. CASE UNCHANGED hub
  BY <1>1, <1>2
<1>3. CASE HubMoves
  BY <1>1, <1>3, HubToFacts DEF HubMoves
<1>4. CASE \E g \in Gens : ReplyTurn(g)
  BY <1>1, <1>4, ReplyFacts
<1>5. CASE Takes
  <2>1. PICK m \in Msgs, steer \in BOOLEAN :
          /\ Flown(m) /\ mail[m].gen \in Gens /\ CanTake(mail[m].gen, m, steer)
          /\ hub' = [hub EXCEPT ![mail[m].gen] = Taken(mail[m].gen, m)]
    BY <1>5 DEF Takes
  <2>2. PICK h \in Gens : h = mail[m].gen
    BY <2>1
  <2>3. hub'[rec.gen] = IF rec.gen = h THEN Taken(h, m) ELSE hub[rec.gen]
    BY <1>1, <2>1, <2>2 DEF TypeOK
  <2>4. CASE h = rec.gen
    <3>1. mail[m].status = "delivered"
      BY <1>1, <2>1, <2>2, <2>4 DEF DozeInv, Dozing, Flown
    <3>2. hub[h].acc[m] # 0
      BY <2>2, <3>1 DEF InputInv
    <3>3. Taken(h, m) = hub[h]
      BY <3>2 DEF Taken
    <3>4. QED  BY <1>1, <2>3, <2>4, <3>3
  <2>5. QED  BY <1>1, <2>3, <2>4
<1>6. QED  BY <1>2, <1>3, <1>4, <1>5, HubKinds

LEMMA EndedStays ==
  ASSUME IInv, Next, Ended
  PROVE  Ended'
<1> USE DEF IInv
<1>1. archived /\ archived'
  BY FaultSteps DEF Ended
<1>2. \A m \in Msgs : Moves(m)
  BY <1>1, MailKinds DEF Accept
<1>3. \A m \in Msgs : mail[m].status \notin PendingStatuses
  BY DEF Ended, Pendings
<1>4. \A m \in Msgs : mail'[m].status \notin PendingStatuses
  BY <1>2, <1>3 DEF Moves, PendingStatuses
<1>5. QED  BY <1>1, <1>4 DEF Ended, Pendings

(* A Stop that is open was open before, or its generation just fell asleep.*)
LEMMA DozeKinds ==
  ASSUME IInv, SleepInv, Next, Dozing'
  PROVE  /\ rec'.gen = rec.gen
         /\ \/ Dozing /\ rec'.idleSleep
            \/ FallsAsleep
<1> USE DEF IInv, SleepInv
<1>1. /\ Current' /\ rec'.bound /\ ~rec'.replacement /\ StopOpen(rec') /\ ~Ended
  BY EndedStays DEF Dozing, Bound, StopOpen
<1>2. CASE Steady
  BY <1>1, <1>2 DEF Steady, Dozing, Bound, Current, DozeInv
<1>3. CASE Lulls
  <2>1. /\ Current /\ rec'.gen = rec.gen /\ ~rec.replacement
        /\ StopOpen(rec) \/ FallsAsleep
        /\ Dozes => Dozes' \/ Woken
    BY <1>1, <1>3 DEF Lulls, Stays
  <2>2. CASE StopOpen(rec)
    <3>1. Bound
      BY <2>1, <2>2 DEF QueueInv, ReceiptOK, StopOpen, Bound
    <3>2. Dozing
      BY <1>1, <2>1, <2>2, <3>1 DEF Dozing
    <3>3. rec.idleSleep /\ S.st # "running"
      BY <3>2 DEF DozeInv
    <3>4. Dozes'
      BY <1>1, <2>1, <2>2, <3>3 DEF Dozes, Woken
    <3>5. QED  BY <2>1, <3>2, <3>4 DEF Dozes
  <2>3. QED  BY <2>1, <2>2
<1>4. CASE Begins \/ Ends
  BY <1>1, <1>4 DEF Begins, Ends, NewRecord, Current
<1>5. QED  BY <1>2, <1>3, <1>4, SleepKinds

LEMMA UnknownSteps ==
  ASSUME IInv, SleepInv, Next, Current', NEW m \in Msgs,
         mail'[m].status = "delivery_unknown", mail'[m].gen = rec'.gen
  PROVE  Ended'
<1> USE DEF IInv, SleepInv
<1>1. CASE \E k \in Msgs, mode \in SendModes : Accept(k, mode)
  <2>1. PICK k \in Msgs, mode \in SendModes : Accept(k, mode)
    BY <1>1
  <2>2. mail'[m] = mail[m] /\ rec' = rec /\ ~archived
    BY <2>1, AcceptMail, AcceptFrame
  <2>3. QED  BY <2>2 DEF DozeInv, Current, Ended
<1>2. CASE \A k \in Msgs : Moves(k)
  <2>1. /\ mail'[m].gen = mail[m].gen /\ mail[m].gen \in Nat /\ mail[m].gen <= lastGen /\ lastGen \in Nat
        /\ \/ mail[m].status = "delivery_unknown"
           \/ mail'[m] # mail[m] /\ mail[m].status \in PendingStatuses
              /\ (archived \/ ~(Current /\ mail[m].gen = rec.gen))
    BY <1>2, MailTypes, RecFacts DEF Moves, MailInv, PendingStatuses
  <2>2. Current /\ rec'.gen = rec.gen
    <3>1. ~Begins
      <4>1. Begins => rec'.gen = lastGen + 1
        BY DEF Begins, NewRecord
      <4>2. QED  BY <2>1, <4>1
    <3>2. ~Ends
      BY DEF Ends, Current
    <3>3. QED  BY <3>1, <3>2, RecKinds DEF Stays, Current
  <2>3. CASE mail[m].status = "delivery_unknown"
    <3>1. Ended
      BY <2>1, <2>2, <2>3 DEF DozeInv
    <3>2. QED  BY <3>1, EndedStays
  <2>4. CASE mail[m].status # "delivery_unknown"
    <3>1. archived /\ archived' /\ mail'[m] # mail[m] /\ mail[m].status \in PendingStatuses
      BY <2>1, <2>2, <2>4, FaultSteps
    <3>2. PassArchived
      BY <3>1, MailActions DEF Accept, Promote, Working, PendingStatuses
    <3>3. Pendings' = {}
      <4>1. \A k \in Msgs : mail'[k].status \notin PendingStatuses
        <5>1. SUFFICES ASSUME NEW k \in Msgs PROVE mail'[k].status \notin PendingStatuses
          OBVIOUS
        <5>2. \/ k \notin Pendings /\ mail'[k] = mail[k]
              \/ \E st \in {"delivery_unknown", "undeliverable"} : mail'[k] = [mail[k] EXCEPT !.status = st]
          BY <3>2 DEF PassArchived
        <5>3. mail[k] \in Message
          BY DEF TypeOK
        <5>4. \A st \in {"delivery_unknown", "undeliverable"} : [mail[k] EXCEPT !.status = st].status = st
          BY <5>3 DEF Message
        <5>5. QED  BY <5>2, <5>4 DEF Pendings, PendingStatuses
      <4>2. QED  BY <4>1 DEF Pendings
    <3>4. QED  BY <3>1, <3>3 DEF Ended
  <2>5. QED  BY <2>3, <2>4
<1>3. QED  BY <1>1, <1>2, MailKinds

LEMMA UnsentSteps ==
  ASSUME IInv, SleepInv, Next, NEW m \in Msgs, mail'[m].status = "none"
  PROVE  ~mail'[m].frozen
<1> USE DEF IInv, SleepInv
<1>1. CASE mail'[m] = mail[m]
  BY <1>1 DEF DozeInv
<1>2. CASE mail'[m] # mail[m]
  <2>1. ~(\E k \in Msgs, mode \in SendModes : Accept(k, mode))
    BY <1>2, AcceptMail
  <2>2. mail[m].status = "none"
    BY <2>1, MailKinds DEF Moves, PendingStatuses
  <2>3. mail'[m].frozen = mail[m].frozen
    BY <1>2, <2>1, <2>2, MailActions, WorkingFacts DEF Promote, Pendings, PendingStatuses
  <2>4. QED  BY <2>2, <2>3 DEF DozeInv
<1>3. QED  BY <1>1, <1>2

LEMMA DozeSteps ==
  ASSUME IInv, SleepInv, Next
  PROVE  DozeInv'
<1> USE DEF IInv, SleepInv
<1>1. ASSUME Dozing'
      PROVE  /\ rec'.idleSleep /\ hub'[rec'.gen].st # "running"
             /\ \A m \in Msgs : Waits(m)'
  <2>1. CASE Dozing /\ rec'.idleSleep
    BY <1>1, <2>1, DozeKinds, DozeHub, DozeMail
  <2>2. CASE FallsAsleep
    <3>1. /\ rec'.idleSleep /\ S.st # "running" /\ mail' = mail /\ hub' = hub /\ rec'.gen = rec.gen
      BY <1>1, <2>2, DozeKinds DEF FallsAsleep
    <3>2. \A m \in Msgs : mail[m].status \notin PendingStatuses
      BY <2>2 DEF FallsAsleep, Pendings
    <3>3. QED  BY <3>1, <3>2 DEF Waits, PendingStatuses, S
  <2>3. QED  BY <1>1, <2>1, <2>2, DozeKinds
<1>2. QED  BY <1>1, UnknownSteps, UnsentSteps DEF DozeInv, Waits, S

LEMMA SleepSteps == IInv /\ SleepInv /\ Next => SleepInv'
BY QueueSteps, WaitSteps, StoppingKept, DozeSteps DEF SleepInv

LEMMA SleepInit == Init => SleepInv
<1> SUFFICES ASSUME Init PROVE SleepInv
  OBVIOUS
<1>1. ~Current /\ w.pc = "idle"
  BY DEF Init, Current, Rest
<1>2. \A g \in Gens : hub[g].st = "none"
  BY DEF Init
<1>3. \A m \in Msgs : mail[m].status = "none" /\ ~mail[m].frozen
  BY DEF Init
<1>4. QED
  BY <1>1, <1>2, <1>3 DEF SleepInv, QueueInv, WaitInv, StoppingInv, DozeInv, Dozing, Bound, At

LEMMA SleepStutter == SleepInv /\ UNCHANGED vars => SleepInv'
<1> SUFFICES ASSUME SleepInv, UNCHANGED vars PROVE SleepInv'
  OBVIOUS
<1>1. UNCHANGED <<mail, rec, lastGen, hub, archived, w, retireQ>>
  BY DEF vars
<1>2. QueueInv' /\ WaitInv' /\ StoppingInv'
  BY <1>1 DEF SleepInv, QueueInv, WaitInv, StoppingInv, Current, Dozes, At
<1>3. DozeInv'
  BY <1>1 DEF SleepInv, DozeInv, Dozing, Ended, Pendings, Bound, Current, S
<1>4. QED  BY <1>2, <1>3 DEF SleepInv

(* PUA only archives a Session whose replacement was asked for             *)
(* (SleepIsReversible): idle sleep, with every retry of its Stop, crash    *)
(* and late answer, never retires a generation, because nothing is planned *)
(* or handed over while its Stop is open that could end the sleep halfway. *)
THEOREM SpecSleepIsReversible == Spec => []SleepIsReversible
<1>1. SleepInv => SleepIsReversible
  BY DEF SleepInv, WaitInv, SleepIsReversible
<1>2. QED
  BY <1>1, InitInv, NextInv, StutterInv, SleepInit, SleepSteps, SleepStutter, PTL DEF Spec
=============================================================================
