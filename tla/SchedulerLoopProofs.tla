------------------------- MODULE SchedulerLoopProofs -------------------------
(* What holds of the loop and of the ticks for any bounds and passes.      *)
EXTENDS ReconcileLoop, FiniteSetTheorems, WellFoundedInduction, TLAPS

(* Types: the ticks, what became of their Turns, and the pass under way.   *)
Statuses == {"queued", "delivered", "undeliverable", "unknown"}
Ends == {"none", "running", "completed", "failed", "gone"}
TickRecord ==
  [reason: {"changed", "recovery", "interval", "wait"}, digest: SUBSET (Ids \X Nat),
   basis: Nat, status: Statuses, ended: BOOLEAN, expired: BOOLEAN]

NewTick ==
  [reason: {"changed", "recovery", "interval", "wait"}, digest: SUBSET (Ids \X Nat),
   basis: Nat, status: {"queued"}, ended: {FALSE}, expired: {FALSE}]

TicksTypeOK ==
  /\ schedules \in SUBSET (Ids \X Nat) /\ edits \in Nat
  /\ ticks \in Seq(TickRecord) /\ turns \in Seq(Ends) /\ Len(turns) = Len(ticks)
  /\ checkpoint \in Nat /\ seen \in SUBSET SUBSET (Ids \X Nat)
  /\ lapsed \in BOOLEAN /\ faults \in Nat
  /\ \/ pass \in {NoPass, [step |-> "checkpoint"]}
     \/ pass \in [step: {"accept"}, tick: NewTick]

(* A pass that is about to note the last tick has one to note.             *)
CheckpointOK == pass.step = "checkpoint" => Present # {}

(* Types: the loop and the controller.                                     *)
LoopJobs == {"tick", "mail"}
LoopTypeOK ==
  /\ pending \in SUBSET Kinds /\ late \in SUBSET Kinds
  /\ asking \in Nat /\ wake \in BOOLEAN
  /\ loop \in [at: {"wait", "top", "run", "blocked"}, todo: SUBSET Kinds, jobs: Seq(LoopJobs)]
  /\ ctl \in [jobs: Seq(LoopJobs \union {"other"}), running: BOOLEAN,
              now: LoopJobs \union {"none", "other"}]

(* A pass that is about to accept a tick found none that waits.            *)
TickInv ==
  /\ \A i, j \in Queued : i = j
  /\ \A i, j \in Present : Same(ticks[i], ticks[j]) => i = j
  /\ pass.step = "accept" => Queued = {}

(* The controller holds one job of the loop while the loop waits for it,   *)
(* else none: no end of a job can let the loop skip the requests it was    *)
(* about to take.                                                          *)
JobInv ==
  /\ ctl.now \in LoopJobs => loop.at = "blocked" /\ \A i \in DOMAIN ctl.jobs : ctl.jobs[i] = "other"
  /\ \A i, j \in DOMAIN ctl.jobs : ctl.jobs[i] # "other" /\ ctl.jobs[j] # "other" => i = j
  /\ \A i \in DOMAIN ctl.jobs : ctl.jobs[i] # "other" => loop.at = "blocked"

(* A request outlives the round only with a token, or one to come.         *)
WakeInv ==
  /\ pending # {} => wake \/ asking > 0 \/ loop.at = "top"
  /\ ctl.jobs # <<>> => ctl.running

-----------------------------------------------------------------------------
(* A non-empty set of indices has a maximum, and Max finds it.             *)
LEMMA MaxFacts ==
  ASSUME NEW n \in Nat, NEW S \in SUBSET (1 .. n), S # {}
  PROVE  Max(S) \in S /\ \A y \in S : y <= Max(S)
<1> DEFINE T == {n - i : i \in S}
<1>0. \A i \in S : i \in Nat /\ n - i \in Nat
  OBVIOUS
<1>1. T \in SUBSET Nat /\ T # {}
  BY <1>0
<1>2. PICK x \in T : \A y \in T : <<y, x>> \notin OpToRel(<, Nat)
  <2>1. \E x \in T : \A y \in T : ~ (<<y, x>> \in OpToRel(<, Nat))
    BY <1>1, NatLessThanWellFounded, WFMin
  <2>2. QED  BY <2>1
<1>3. \A y \in T : x <= y
  <2>1. ASSUME NEW y \in T PROVE x <= y
    <3>1. x \in Nat /\ y \in Nat
      BY <1>1
    <3>2. ~ (y < x)
      BY <1>2, <3>1 DEF OpToRel
    <3>3. QED  BY <3>1, <3>2
  <2>2. QED  BY <2>1
<1>4. PICK i \in S : x = n - i
  OBVIOUS
<1>5. \A y \in S : i >= y
  <2>1. ASSUME NEW y \in S PROVE i >= y
    <3>1. n - y \in T /\ i \in Nat /\ y \in Nat
      OBVIOUS
    <3>2. n - i <= n - y
      BY <1>3, <1>4, <3>1
    <3>3. QED  BY <3>1, <3>2
  <2>2. QED  BY <2>1
<1>6. QED  BY <1>5 DEF Max

LEMMA TickFacts ==
  ASSUME TicksTypeOK
  PROVE  /\ Len(ticks) \in Nat /\ DOMAIN ticks = 1 .. Len(ticks)
         /\ \A i \in DOMAIN ticks : ticks[i] \in TickRecord
         /\ Present \in SUBSET (1 .. Len(ticks)) /\ Queued \in SUBSET Present
         /\ LastTick \in Nat
<1>1. /\ Len(ticks) \in Nat /\ DOMAIN ticks = 1 .. Len(ticks)
      /\ \A i \in DOMAIN ticks : ticks[i] \in TickRecord
  BY DEF TicksTypeOK
<1>2. Present \in SUBSET (1 .. Len(ticks)) /\ Queued \in SUBSET Present
  BY <1>1 DEF Present, Queued
<1>3. Present # {} => Max(Present) \in Nat
  <2>1. Present # {} => Max(Present) \in Present
    BY <1>1, <1>2, MaxFacts
  <2>2. \A i \in Present : i \in Nat
    BY <1>1, <1>2
  <2>3. QED  BY <2>1, <2>2
<1>4. QED  BY <1>1, <1>2, <1>3 DEF LastTick, TicksTypeOK

-----------------------------------------------------------------------------
(* Types.                                                                  *)

TickSteps ==
  \/ \E id \in Ids : AddSchedule(id)
  \/ \E s \in schedules : UpdateSchedule(s) \/ RemoveSchedule(s)
  \/ PassSteps \/ Delivers \/ LosesTrack \/ Lapses \/ Expires \/ Restarts
  \/ \E outcome \in {"completed", "failed", "gone"} : TurnEnds(outcome)
  \/ UNCHANGED tickVars

LEMMA NextTicks == [Next]_vars => TickSteps
BY DEF Next, vars, Loop, Controller, Announces, Intrudes, DeadlinePasses, Edit, TurnDone,
       Retire, Time, Crash, Wakes, TakesRequests, StartsPass, EndsRound, Submits, Takes,
       TickJob, MailJob, OtherJob, TickSteps

(* Editing one tick in place.                                              *)
LEMMA TickEdits ==
  ASSUME NEW t \in TickRecord
  PROVE  /\ \A st \in Statuses : [t EXCEPT !.status = st] \in TickRecord
         /\ [t EXCEPT !.ended = TRUE] \in TickRecord
         /\ [t EXCEPT !.expired = TRUE] \in TickRecord
<1>1. ASSUME NEW st \in Statuses PROVE [t EXCEPT !.status = st] \in TickRecord
  BY DEF TickRecord
<1>2. [t EXCEPT !.ended = TRUE] \in TickRecord /\ [t EXCEPT !.expired = TRUE] \in TickRecord
  BY DEF TickRecord
<1>3. QED  BY <1>1, <1>2

(* What a pass that looks at the list does to the ticks.                   *)
LEMMA LooksTicks ==
  ASSUME TicksTypeOK, Looks
  PROVE  /\ DOMAIN ticks' = DOMAIN ticks /\ ticks' \in Seq(TickRecord)
         /\ Len(ticks') = Len(ticks)
         /\ \A i \in DOMAIN ticks : ticks'[i] \in {ticks[i],
                 [ticks[i] EXCEPT !.status = "undeliverable"], [ticks[i] EXCEPT !.ended = TRUE]}
<1>1. \/ ticks' = ticks
      \/ ticks' = [i \in DOMAIN ticks |->
                    IF ticks[i].status = "queued" THEN [ticks[i] EXCEPT !.status = "undeliverable"]
                    ELSE ticks[i]]
      \/ ticks' = [ticks EXCEPT ![LastTick] = [@ EXCEPT !.ended = TRUE]]
  BY DEF Looks, Recorded
<1>2. /\ DOMAIN ticks' = DOMAIN ticks
      /\ \A i \in DOMAIN ticks : ticks'[i] \in {ticks[i],
                 [ticks[i] EXCEPT !.status = "undeliverable"], [ticks[i] EXCEPT !.ended = TRUE]}
  <2>1. CASE ticks' = ticks
    BY <2>1
  <2>2. CASE ticks' = [i \in DOMAIN ticks |->
                    IF ticks[i].status = "queued" THEN [ticks[i] EXCEPT !.status = "undeliverable"]
                    ELSE ticks[i]]
    BY <2>2
  <2>3. CASE ticks' = [ticks EXCEPT ![LastTick] = [@ EXCEPT !.ended = TRUE]]
    BY <2>3 DEF TicksTypeOK
  <2>4. QED  BY <1>1, <2>1, <2>2, <2>3
<1>3. \A i \in DOMAIN ticks : ticks'[i] \in TickRecord
  BY <1>2, TickFacts, TickEdits DEF Statuses
<1>4. ticks' = [i \in 1 .. Len(ticks) |-> ticks'[i]]
  <2>1. ticks' = [i \in DOMAIN ticks' |-> ticks'[i]]
    BY <1>1 DEF TicksTypeOK
  <2>2. QED  BY <1>2, <2>1, TickFacts
<1>5. ticks' \in Seq(TickRecord) /\ Len(ticks') = Len(ticks)
  BY <1>2, <1>3, <1>4, TickFacts
<1>6. QED  BY <1>2, <1>5

LEMMA LooksPass ==
  ASSUME TicksTypeOK, Looks
  PROVE  pass' = NoPass \/ /\ pass' \in [step: {"accept"}, tick: NewTick]
                           /\ Queued = {}
<1>1. \/ pass' = NoPass
      \/ /\ pass' = [step |-> "accept", tick |-> Tick(Reason, schedules, LastTick)]
         /\ ~PendingTick
  BY DEF Looks
<1>2. Reason \in {"changed", "recovery", "interval", "wait"}
  BY DEF Reason
<1>3. Tick(Reason, schedules, LastTick) \in NewTick
  BY <1>2, TickFacts DEF Tick, NewTick, TicksTypeOK
<1>4. ~PendingTick => Queued = {}
  BY DEF PendingTick, Queued
<1>5. QED  BY <1>1, <1>3, <1>4

LEMMA PassFacts ==
  ASSUME TicksTypeOK, pass.step = "accept"
  PROVE  /\ pass.tick \in TickRecord /\ pass.tick \in NewTick
         /\ pass \in [step: {"accept"}, tick: NewTick]
<1>1. pass.tick \in NewTick /\ pass \in [step: {"accept"}, tick: NewTick]
  BY DEF TicksTypeOK, NoPass
<1>2. QED  BY <1>1 DEF NewTick, TickRecord, Statuses

LEMMA TickTypes ==
  ASSUME TicksTypeOK, CheckpointOK, TickSteps
  PROVE  TicksTypeOK'
<1>1. CASE \/ \E id \in Ids : AddSchedule(id)
           \/ \E s \in schedules : UpdateSchedule(s) \/ RemoveSchedule(s)
  <2>1. \/ \E id \in Ids : schedules' = schedules \cup {<<id, edits + 1>>}
        \/ \E s \in schedules : schedules' = (schedules \ {s}) \cup {<<s[1], edits + 1>>}
        \/ \E s \in schedules : schedules' = schedules \ {s}
    BY <1>1 DEF AddSchedule, UpdateSchedule, RemoveSchedule, Edits
  <2>2. /\ edits \in Nat /\ edits' = edits + 1
        /\ UNCHANGED <<ticks, turns, checkpoint, seen, lapsed, pass, faults>>
    BY <1>1 DEF AddSchedule, UpdateSchedule, RemoveSchedule, Edits, TicksTypeOK
  <2>3. schedules' \in SUBSET (Ids \X Nat)
    BY <2>1, <2>2 DEF TicksTypeOK
  <2>4. QED  BY <2>2, <2>3 DEF TicksTypeOK
<1>2. CASE Looks
  <2>1. seen' \in SUBSET SUBSET (Ids \X Nat)
    BY <1>2 DEF Looks, TicksTypeOK
  <2>2. UNCHANGED <<schedules, edits, turns, checkpoint, lapsed, faults>>
    BY <1>2 DEF Looks
  <2>3. QED  BY <1>2, <2>1, <2>2, LooksTicks, LooksPass DEF TicksTypeOK
<1>3. CASE Accepts
  <2>1. \/ UNCHANGED <<ticks, turns, lapsed>>
        \/ ticks' = Append(ticks, pass.tick) /\ turns' = Append(turns, "none") /\ lapsed' = FALSE
    BY <1>3 DEF Accepts
  <2>2. pass' = [step |-> "checkpoint"] /\ pass.tick \in TickRecord
    BY <1>3, PassFacts DEF Accepts
  <2>3. UNCHANGED <<schedules, edits, checkpoint, seen, faults>>
    BY <1>3 DEF Accepts
  <2>4. CASE UNCHANGED <<ticks, turns, lapsed>>
    BY <2>2, <2>3, <2>4 DEF TicksTypeOK
  <2>5. CASE ticks' = Append(ticks, pass.tick) /\ turns' = Append(turns, "none") /\ lapsed' = FALSE
    <3>1. /\ ticks' \in Seq(TickRecord) /\ turns' \in Seq(Ends) /\ Len(turns') = Len(ticks')
      BY <2>2, <2>5 DEF TicksTypeOK, Ends
    <3>2. lapsed' \in BOOLEAN
      BY <2>5
    <3>3. QED  BY <2>2, <2>3, <3>1, <3>2 DEF TicksTypeOK
  <2>6. QED  BY <2>1, <2>4, <2>5
<1>4. CASE Checkpoints
  <2>1. checkpoint' \in Nat
    <3>1. checkpoint' = Max(Present) /\ Present # {}
      BY <1>4 DEF Checkpoints, CheckpointOK
    <3>2. QED  BY <3>1, TickFacts DEF LastTick
  <2>2. /\ UNCHANGED <<schedules, edits, ticks, turns, seen, lapsed, faults>> /\ pass' = NoPass
    BY <1>4 DEF Checkpoints
  <2>3. QED  BY <2>1, <2>2 DEF TicksTypeOK
<1>5. CASE PassFails \/ Restarts
  <2>1. /\ UNCHANGED <<schedules, edits, ticks, turns, checkpoint, lapsed>>
        /\ pass' = NoPass /\ faults' = faults + 1 /\ seen' \in {seen, {}}
    BY <1>5 DEF PassFails, Restarts
  <2>2. QED  BY <2>1 DEF TicksTypeOK
<1>6. CASE Delivers \/ LosesTrack
  <2>1. PICK i \in Queued, st \in {"delivered", "unknown"} :
          ticks' = [ticks EXCEPT ![i] = [@ EXCEPT !.status = st]]
    BY <1>6 DEF Delivers, LosesTrack
  <2>2. i \in DOMAIN ticks /\ [ticks[i] EXCEPT !.status = st] \in TickRecord
    BY TickFacts, TickEdits DEF Statuses
  <2>3. ticks' \in Seq(TickRecord) /\ Len(ticks') = Len(ticks)
    BY <2>1, <2>2 DEF TicksTypeOK
  <2>4. turns' \in Seq(Ends) /\ Len(turns') = Len(turns)
    <3>1. \/ turns' = turns \/ \E k \in Queued : turns' = [turns EXCEPT ![k] = "running"]
      BY <1>6 DEF Delivers, LosesTrack
    <3>2. \A k \in Queued : k \in DOMAIN turns
      BY TickFacts DEF TicksTypeOK
    <3>3. QED  BY <3>1, <3>2 DEF TicksTypeOK, Ends
  <2>5. /\ UNCHANGED <<schedules, edits, checkpoint, seen, lapsed, pass>>
        /\ faults' \in {faults, faults + 1}
    BY <1>6 DEF Delivers, LosesTrack
  <2>6. QED  BY <2>3, <2>4, <2>5 DEF TicksTypeOK
<1>7. CASE \E outcome \in {"completed", "failed", "gone"} : TurnEnds(outcome)
  <2>1. PICK outcome \in {"completed", "failed", "gone"}, i \in DOMAIN turns :
          turns' = [turns EXCEPT ![i] = outcome]
    BY <1>7 DEF TurnEnds
  <2>2. turns' \in Seq(Ends) /\ Len(turns') = Len(turns)
    BY <2>1 DEF TicksTypeOK, Ends
  <2>3. UNCHANGED <<schedules, edits, ticks, checkpoint, seen, lapsed, pass, faults>>
    BY <1>7 DEF TurnEnds
  <2>4. QED  BY <2>2, <2>3 DEF TicksTypeOK
<1>8. CASE Lapses
  <2>1. lapsed' \in BOOLEAN
    BY <1>8 DEF Lapses
  <2>2. UNCHANGED <<schedules, edits, ticks, turns, checkpoint, seen, pass, faults>>
    BY <1>8 DEF Lapses
  <2>3. QED  BY <2>1, <2>2 DEF TicksTypeOK
<1>9. CASE Expires
  <2>1. ticks' = [i \in 1 .. Len(ticks) |-> [ticks[i] EXCEPT !.expired = TRUE]]
    BY <1>9, TickFacts DEF Expires
  <2>2. \A i \in 1 .. Len(ticks) : [ticks[i] EXCEPT !.expired = TRUE] \in TickRecord
    BY TickFacts, TickEdits
  <2>3. ticks' \in Seq(TickRecord) /\ Len(ticks') = Len(ticks)
    BY <2>1, <2>2, TickFacts
  <2>4. UNCHANGED <<schedules, edits, turns, checkpoint, seen, lapsed, pass, faults>>
    BY <1>9 DEF Expires
  <2>5. QED  BY <2>3, <2>4 DEF TicksTypeOK
<1>10. CASE UNCHANGED tickVars
  BY <1>10 DEF tickVars, TicksTypeOK
<1>11. QED
  BY <1>1, <1>2, <1>3, <1>4, <1>5, <1>6, <1>7, <1>8, <1>9, <1>10 DEF TickSteps, PassSteps

-----------------------------------------------------------------------------
(* One tick at a time.                                                     *)

(* A tick that stays keeps what identifies it, is not queued again, and    *)
(* does not come back when it expired.                                     *)
Settles(t, u) ==
  /\ Same(t, u) /\ (u.status = "queued" => t.status = "queued") /\ (t.expired => u.expired)

SettledTicks ==
  DOMAIN ticks' = DOMAIN ticks /\ \A i \in DOMAIN ticks : Settles(ticks[i], ticks'[i])

(* Accept appends a tick like none there is.                               *)
AcceptedTick ==
  /\ pass.step = "accept" /\ ticks' = Append(ticks, pass.tick)
  /\ \A i \in Present : ~Same(ticks[i], pass.tick)

LEMMA SettlesFacts ==
  ASSUME NEW t \in TickRecord
  PROVE  /\ Settles(t, t)
         /\ \A st \in Statuses \ {"queued"} : Settles(t, [t EXCEPT !.status = st])
         /\ Settles(t, [t EXCEPT !.ended = TRUE]) /\ Settles(t, [t EXCEPT !.expired = TRUE])
<1> USE DEF Settles, Same
<1>1. Settles(t, t)
  OBVIOUS
<1>2. ASSUME NEW st \in Statuses \ {"queued"} PROVE Settles(t, [t EXCEPT !.status = st])
  BY DEF TickRecord
<1>3. Settles(t, [t EXCEPT !.ended = TRUE])
  BY DEF TickRecord
<1>4. Settles(t, [t EXCEPT !.expired = TRUE])
  BY DEF TickRecord
<1>5. QED  BY <1>1, <1>2, <1>3, <1>4

LEMMA TickMoves ==
  ASSUME TicksTypeOK, TickSteps
  PROVE  SettledTicks \/ AcceptedTick
<1>1. ticks' = ticks => SettledTicks
  BY TickFacts, SettlesFacts DEF SettledTicks
<1>2. CASE Looks
  <2>1. DOMAIN ticks' = DOMAIN ticks
    BY <1>2, LooksTicks
  <2>2. ASSUME NEW i \in DOMAIN ticks PROVE Settles(ticks[i], ticks'[i])
    <3>1. ticks[i] \in TickRecord /\ "undeliverable" \in Statuses \ {"queued"}
      BY TickFacts DEF Statuses
    <3>2. /\ Settles(ticks[i], ticks[i])
          /\ Settles(ticks[i], [ticks[i] EXCEPT !.status = "undeliverable"])
          /\ Settles(ticks[i], [ticks[i] EXCEPT !.ended = TRUE])
      BY <3>1, SettlesFacts
    <3>3. ticks'[i] \in {ticks[i], [ticks[i] EXCEPT !.status = "undeliverable"],
                         [ticks[i] EXCEPT !.ended = TRUE]}
      BY <1>2, LooksTicks
    <3>4. QED  BY <3>2, <3>3
  <2>3. QED  BY <2>1, <2>2 DEF SettledTicks
<1>3. CASE Accepts
  BY <1>1, <1>3 DEF Accepts, AcceptedTick
<1>4. CASE Delivers \/ LosesTrack
  <2>1. PICK i \in Queued, st \in {"delivered", "unknown"} :
          ticks' = [ticks EXCEPT ![i] = [@ EXCEPT !.status = st]]
    BY <1>4 DEF Delivers, LosesTrack
  <2>2. DOMAIN ticks' = DOMAIN ticks
    BY <2>1 DEF TicksTypeOK
  <2>3. \A k \in DOMAIN ticks : ticks'[k] \in {ticks[k], [ticks[k] EXCEPT !.status = st]}
    BY <2>1 DEF TicksTypeOK
  <2>4. ASSUME NEW k \in DOMAIN ticks PROVE Settles(ticks[k], ticks'[k])
    <3>1. ticks[k] \in TickRecord /\ st \in Statuses \ {"queued"}
      BY TickFacts DEF Statuses
    <3>2. Settles(ticks[k], ticks[k]) /\ Settles(ticks[k], [ticks[k] EXCEPT !.status = st])
      BY <3>1, SettlesFacts
    <3>3. QED  BY <2>3, <3>2
  <2>5. QED  BY <2>2, <2>4 DEF SettledTicks
<1>5. CASE Expires
  <2>1. ticks' = [i \in DOMAIN ticks |-> [ticks[i] EXCEPT !.expired = TRUE]]
    BY <1>5 DEF Expires
  <2>2. QED  BY <2>1, TickFacts, SettlesFacts DEF SettledTicks
<1>6. CASE \/ \E id \in Ids : AddSchedule(id)
           \/ \E s \in schedules : UpdateSchedule(s) \/ RemoveSchedule(s)
           \/ Checkpoints \/ PassFails \/ Lapses \/ Restarts
           \/ \E outcome \in {"completed", "failed", "gone"} : TurnEnds(outcome)
           \/ UNCHANGED tickVars
  <2>1. ticks' = ticks
    BY <1>6 DEF AddSchedule, UpdateSchedule, RemoveSchedule, Edits, Checkpoints, PassFails,
         Lapses, Restarts, TurnEnds, tickVars
  <2>2. QED  BY <1>1, <2>1
<1>7. QED
  BY <1>2, <1>3, <1>4, <1>5, <1>6 DEF TickSteps, PassSteps

(* What becomes of the pass under way.                                     *)
LEMMA PassMoves ==
  ASSUME TicksTypeOK, TickSteps
  PROVE  /\ pass'.step = "accept" => \/ pass.step = "accept" /\ SettledTicks
                                     \/ Queued = {} /\ SettledTicks
         /\ pass'.step = "checkpoint" => \/ Accepts
                                         \/ pass.step = "checkpoint" /\ Present' = Present
<1>1. CASE Looks
  <2>1. pass'.step # "checkpoint"
    BY <1>1, LooksPass DEF NoPass
  <2>2. pass'.step = "accept" => Queued = {}
    BY <1>1, LooksPass DEF NoPass
  <2>3. SettledTicks \/ pass.step = "accept"
    BY TickMoves DEF AcceptedTick
  <2>4. pass.step # "accept"
    BY <1>1 DEF Looks, NoPass
  <2>5. QED  BY <2>1, <2>2, <2>3, <2>4
<1>2. CASE Accepts
  <2>1. pass'.step = "checkpoint"
    BY <1>2 DEF Accepts
  <2>2. QED  BY <1>2, <2>1
<1>3. CASE Checkpoints \/ PassFails \/ Restarts
  <2>1. pass'.step = "none"
    BY <1>3 DEF Checkpoints, PassFails, Restarts, NoPass
  <2>2. QED  BY <2>1
<1>4. CASE Expires
  <2>1. pass'.step = "none"
    BY <1>4 DEF Expires, NoPass
  <2>2. QED  BY <2>1
<1>5. CASE Delivers \/ LosesTrack
  <2>1. PICK i \in Queued, st \in {"delivered", "unknown"} :
          ticks' = [ticks EXCEPT ![i] = [@ EXCEPT !.status = st]]
    BY <1>5 DEF Delivers, LosesTrack
  <2>2. DOMAIN ticks' = DOMAIN ticks
    BY <2>1 DEF TicksTypeOK
  <2>3. \A k \in DOMAIN ticks : ticks'[k] \in {ticks[k], [ticks[k] EXCEPT !.status = st]}
    BY <2>1 DEF TicksTypeOK
  <2>4. \A k \in DOMAIN ticks : [ticks[k] EXCEPT !.status = st].expired = ticks[k].expired
    BY TickFacts DEF TickRecord
  <2>5. Present' = Present
    BY <2>2, <2>3, <2>4 DEF Present
  <2>6. pass' = pass
    BY <1>5 DEF Delivers, LosesTrack
  <2>7. SettledTicks \/ ticks' = Append(ticks, pass.tick)
    BY TickMoves DEF AcceptedTick
  <2>8. SettledTicks
    BY <2>2, <2>7, TickFacts DEF TicksTypeOK
  <2>9. QED  BY <2>5, <2>6, <2>8
<1>6. CASE \/ \E id \in Ids : AddSchedule(id)
           \/ \E s \in schedules : UpdateSchedule(s) \/ RemoveSchedule(s)
           \/ Lapses \/ UNCHANGED tickVars
           \/ \E outcome \in {"completed", "failed", "gone"} : TurnEnds(outcome)
  <2>1. ticks' = ticks /\ pass' = pass
    BY <1>6 DEF AddSchedule, UpdateSchedule, RemoveSchedule, Edits, Lapses, TurnEnds, tickVars
  <2>2. SettledTicks
    BY <2>1, TickFacts, SettlesFacts DEF SettledTicks
  <2>3. Present' = Present
    BY <2>1 DEF Present
  <2>4. QED  BY <2>1, <2>2, <2>3
<1>7. QED
  BY <1>1, <1>2, <1>3, <1>4, <1>5, <1>6 DEF TickSteps, PassSteps

(* What an accepted tick adds to the ticks present.                        *)
LEMMA Accepted ==
  ASSUME TicksTypeOK, TickInv, AcceptedTick
  PROVE  /\ Present' = Present \cup {Len(ticks) + 1}
         /\ Queued' = {Len(ticks) + 1}
         /\ \A i \in Present : ticks'[i] = ticks[i]
         /\ ticks'[Len(ticks) + 1] = pass.tick
<1>1. /\ DOMAIN ticks' = 1 .. (Len(ticks) + 1)
      /\ \A i \in 1 .. Len(ticks) : ticks'[i] = ticks[i]
      /\ ticks'[Len(ticks) + 1] = pass.tick
  BY TickFacts DEF AcceptedTick, TicksTypeOK
<1>2. ~pass.tick.expired /\ pass.tick.status = "queued"
  BY PassFacts DEF AcceptedTick, NewTick
<1>3. Present' = Present \cup {Len(ticks) + 1}
  BY <1>1, <1>2, TickFacts DEF Present
<1>4. \A i \in Present : ticks'[i] = ticks[i]
  BY <1>1, TickFacts
<1>5. \A i \in Present : ticks[i].status # "queued"
  BY DEF Queued, TickInv, AcceptedTick
<1>6. Queued' = {Len(ticks) + 1}
  BY <1>1, <1>2, <1>3, <1>4, <1>5 DEF Queued
<1>7. QED  BY <1>1, <1>3, <1>4, <1>6

LEMMA TickStep ==
  ASSUME TicksTypeOK, CheckpointOK, TickInv, TickSteps
  PROVE  CheckpointOK' /\ TickInv'
<1>1. SettledTicks => Present' \in SUBSET Present /\ Queued' \in SUBSET Queued
  <2>1. SettledTicks => Present' \in SUBSET Present
    BY TickFacts DEF SettledTicks, Settles, Present
  <2>2. SettledTicks => Queued' \in SUBSET Queued
    BY <2>1 DEF SettledTicks, Settles, Queued, Present
  <2>3. QED  BY <2>1, <2>2
<1>2. CheckpointOK'
  <2>1. ASSUME Accepts PROVE Present' # {}
    <3>1. CASE AcceptedTick
      BY <3>1, Accepted
    <3>2. CASE ~AcceptedTick
      <4>1. Present # {} /\ ticks' = ticks
        BY <2>1, <3>2 DEF Accepts, AcceptedTick
      <4>2. QED  BY <4>1 DEF Present
    <3>3. QED  BY <3>1, <3>2
  <2>2. QED  BY <2>1, PassMoves DEF CheckpointOK
<1>3. \A i, j \in Queued' : i = j
  <2>1. CASE SettledTicks
    BY <1>1, <2>1 DEF TickInv
  <2>2. CASE AcceptedTick
    BY <2>2, Accepted
  <2>3. QED  BY <2>1, <2>2, TickMoves
<1>4. \A i, j \in Present' : Same(ticks'[i], ticks'[j]) => i = j
  <2>1. CASE SettledTicks
    <3>1. ASSUME NEW i \in Present', NEW j \in Present', Same(ticks'[i], ticks'[j])
          PROVE  i = j
      <4>1. i \in Present /\ j \in Present
        BY <1>1, <2>1
      <4>2. Same(ticks[i], ticks'[i]) /\ Same(ticks[j], ticks'[j])
        BY <2>1, <4>1, TickFacts DEF SettledTicks, Settles
      <4>3. Same(ticks[i], ticks[j])
        BY <3>1, <4>2 DEF Same
      <4>4. QED  BY <4>1, <4>3 DEF TickInv
    <3>2. QED  BY <3>1
  <2>2. CASE AcceptedTick
    <3>1. \A i \in Present : ~Same(ticks[i], pass.tick) /\ ~Same(pass.tick, ticks[i])
      BY <2>2 DEF AcceptedTick, Same
    <3>2. \A i, j \in Present : Same(ticks[i], ticks[j]) => i = j
      BY DEF TickInv
    <3>3. QED  BY <2>2, <3>1, <3>2, Accepted
  <2>3. QED  BY <2>1, <2>2, TickMoves
<1>5. pass'.step = "accept" => Queued' = {}
  BY <1>1, PassMoves DEF TickInv
<1>6. QED  BY <1>2, <1>3, <1>4, <1>5 DEF TickInv

LEMMA TicksInitInv ==
  ASSUME TicksInit
  PROVE  TicksTypeOK /\ CheckpointOK /\ TickInv
<1>1. Present = {} /\ Queued = {}
  BY DEF TicksInit, Present, Queued
<1>2. <<>> \in Seq(TickRecord) /\ <<>> \in Seq(Ends) /\ Len(<<>>) = 0
  OBVIOUS
<1>3. ticks \in Seq(TickRecord) /\ turns \in Seq(Ends) /\ Len(turns) = Len(ticks)
  BY <1>2 DEF TicksInit
<1>4. TicksTypeOK
  BY <1>3 DEF TicksInit, TicksTypeOK, NoTick
<1>5. QED  BY <1>1, <1>4 DEF TicksInit, CheckpointOK, TickInv, NoPass

(* The ticks keep their types whatever the loop and the controller do; a   *)
(* pass that is about to accept a tick finds none that waits.              *)
THEOREM SpecTicksTypeOK == Spec => [](TicksTypeOK /\ CheckpointOK /\ TickInv)
<1>1. Init => TicksTypeOK /\ CheckpointOK /\ TickInv
  BY TicksInitInv DEF Init
<1>2. TicksTypeOK /\ CheckpointOK /\ TickInv /\ [Next]_vars
        => (TicksTypeOK /\ CheckpointOK /\ TickInv)'
  BY NextTicks, TickTypes, TickStep
<1>3. QED  BY <1>1, <1>2, PTL DEF Spec

(* At most one tick waits for delivery, and a tick is not accepted twice   *)
(* while its receipt is there, however passes, crashes, failed writes,     *)
(* deliveries and the retention of receipts interleave.                    *)
THEOREM SpecOneTick == Spec => []OneTick
<1>1. TicksTypeOK /\ TickInv => OneTick
  <2>1. SUFFICES ASSUME TickInv PROVE Cardinality(Queued) <= 1
    BY DEF OneTick, TickInv
  <2>2. CASE Queued = {}
    BY <2>2, FS_EmptySet
  <2>3. CASE Queued # {}
    <3>1. PICK i \in Queued : TRUE
      BY <2>3
    <3>2. Queued = {i}
      BY <2>1, <3>1 DEF TickInv
    <3>3. Cardinality({i}) = 1
      BY FS_Singleton
    <3>4. QED  BY <3>2, <3>3
  <2>4. QED  BY <2>2, <2>3
<1>2. QED  BY <1>1, SpecTicksTypeOK, PTL

-----------------------------------------------------------------------------
(* The loop and the controller.                                            *)

LEMMA KindsFacts == "audit" \in Kinds /\ Timers \subseteq Kinds
BY KindsAssumption

(* What a step does to the loop and the controller: the passes and the     *)
(* mailbox matter only where a pass ends, which frees both.                *)
JobEnds ==
  /\ ctl.now \in LoopJobs /\ ctl' = Finished /\ loop' = Released
  /\ UNCHANGED <<pending, asking, wake, late>>

NowEnds ==
  /\ ctl.now = "other" /\ ctl' = Finished
  /\ UNCHANGED <<pending, asking, wake, late, loop>>

Restarted ==
  /\ pending' = {} /\ asking' = 0 /\ wake' = FALSE /\ late' = Kinds
  /\ loop' = [Waiting EXCEPT !.at = "top"] /\ ctl' = Free

LoopSteps ==
  \/ Wakes \/ TakesRequests \/ StartsPass \/ EndsRound \/ Submits
  \/ Takes \/ JobEnds \/ NowEnds \/ Announces \/ Intrudes
  \/ \E kind \in Timers : DeadlinePasses(kind)
  \/ \E kinds : Asks(kinds)
  \/ Restarted \/ UNCHANGED loopVars

LEMMA NextLoop == [Next]_vars => LoopSteps
<1>1. CASE Loop \/ Announces \/ Intrudes \/ Takes
  BY <1>1 DEF Loop, LoopSteps
<1>2. CASE TickJob
  <2>1. JobEnds \/ UNCHANGED loopVars
    BY <1>2 DEF TickJob, JobEnds, loopVars, LoopJobs
  <2>2. QED  BY <2>1 DEF LoopSteps
<1>3. CASE MailJob
  <2>1. JobEnds
    BY <1>3 DEF MailJob, JobEnds, LoopJobs
  <2>2. QED  BY <2>1 DEF LoopSteps
<1>4. CASE OtherJob
  <2>1. NowEnds
    BY <1>4 DEF OtherJob, NowEnds
  <2>2. QED  BY <2>1 DEF LoopSteps
<1>5. CASE \E kind \in Timers : DeadlinePasses(kind)
  BY <1>5 DEF LoopSteps
<1>6. CASE Edit
  <2>1. Asks({"scheduler"})
    BY <1>6 DEF Edit
  <2>2. QED  BY <2>1 DEF LoopSteps
<1>7. CASE TurnDone
  <2>1. Asks({"notifications", "scheduler", "agenthub"})
    BY <1>7 DEF TurnDone
  <2>2. QED  BY <2>1 DEF LoopSteps
<1>8. CASE Retire \/ Time \/ UNCHANGED vars
  <2>1. UNCHANGED loopVars
    BY <1>8 DEF Retire, Time, vars
  <2>2. QED  BY <2>1 DEF LoopSteps
<1>9. CASE Crash
  <2>1. Restarted
    BY <1>9 DEF Crash, Restarted
  <2>2. QED  BY <2>1 DEF LoopSteps
<1>10. QED
  BY <1>1, <1>2, <1>3, <1>4, <1>5, <1>6, <1>7, <1>8, <1>9 DEF Next, Controller

(* Taking a job and handing one over.                                      *)
LEMMA CtlFacts ==
  ASSUME LoopTypeOK
  PROVE  /\ Finished \in [jobs: {ctl.jobs}, running: {ctl.running}, now: {"none"}]
         /\ \A job \in LoopJobs \cup {"other"} :
              Enqueued(job) \in [jobs: {Append(ctl.jobs, job)}, running: {TRUE}, now: {ctl.now}]
         /\ [ctl EXCEPT !.running = FALSE] \in [jobs: {ctl.jobs}, running: {FALSE}, now: {ctl.now}]
         /\ [ctl EXCEPT !.now = Head(ctl.jobs), !.jobs = Tail(@)]
              \in [jobs: {Tail(ctl.jobs)}, running: {ctl.running}, now: {Head(ctl.jobs)}]
<1>1. Finished \in [jobs: {ctl.jobs}, running: {ctl.running}, now: {"none"}]
  BY DEF LoopTypeOK, Finished
<1>2. ASSUME NEW job \in LoopJobs \cup {"other"}
      PROVE  Enqueued(job) \in [jobs: {Append(ctl.jobs, job)}, running: {TRUE}, now: {ctl.now}]
  BY DEF LoopTypeOK, Enqueued
<1>3. [ctl EXCEPT !.running = FALSE] \in [jobs: {ctl.jobs}, running: {FALSE}, now: {ctl.now}]
  BY DEF LoopTypeOK
<1>4. [ctl EXCEPT !.now = Head(ctl.jobs), !.jobs = Tail(@)]
        \in [jobs: {Tail(ctl.jobs)}, running: {ctl.running}, now: {Head(ctl.jobs)}]
  BY DEF LoopTypeOK
<1>5. QED  BY <1>1, <1>2, <1>3, <1>4

LEMMA LoopFacts ==
  ASSUME LoopTypeOK
  PROVE  /\ Released \in [at: {"run"}, todo: {loop.todo}, jobs: {loop.jobs}]
         /\ [loop EXCEPT !.at = "top"] \in [at: {"top"}, todo: {loop.todo}, jobs: {loop.jobs}]
         /\ \A todo : [loop EXCEPT !.at = "run", !.todo = todo]
                        \in [at: {"run"}, todo: {todo}, jobs: {loop.jobs}]
         /\ \A kind : [loop EXCEPT !.todo = @ \ {kind}, !.jobs = Jobs(kind)]
                        \in [at: {loop.at}, todo: {loop.todo \ {kind}}, jobs: {Jobs(kind)}]
         /\ [loop EXCEPT !.at = "blocked", !.jobs = Tail(@)]
              \in [at: {"blocked"}, todo: {loop.todo}, jobs: {Tail(loop.jobs)}]
<1>1. Released \in [at: {"run"}, todo: {loop.todo}, jobs: {loop.jobs}]
  BY DEF LoopTypeOK, Released
<1>3. [loop EXCEPT !.at = "top"] \in [at: {"top"}, todo: {loop.todo}, jobs: {loop.jobs}]
  BY DEF LoopTypeOK
<1>4. ASSUME NEW todo
      PROVE  [loop EXCEPT !.at = "run", !.todo = todo]
               \in [at: {"run"}, todo: {todo}, jobs: {loop.jobs}]
  BY DEF LoopTypeOK
<1>5. ASSUME NEW kind
      PROVE  [loop EXCEPT !.todo = @ \ {kind}, !.jobs = Jobs(kind)]
               \in [at: {loop.at}, todo: {loop.todo \ {kind}}, jobs: {Jobs(kind)}]
  BY DEF LoopTypeOK
<1>6. [loop EXCEPT !.at = "blocked", !.jobs = Tail(@)]
        \in [at: {"blocked"}, todo: {loop.todo}, jobs: {Tail(loop.jobs)}]
  BY DEF LoopTypeOK
<1>7. QED  BY <1>1, <1>3, <1>4, <1>5, <1>6

LEMMA WaitingFacts ==
  /\ Waiting \in [at: {"wait"}, todo: {{}}, jobs: {<<>>}]
  /\ [Waiting EXCEPT !.at = "top"] \in [at: {"top"}, todo: {{}}, jobs: {<<>>}]
BY DEF Waiting

LEMMA JobsFacts == \A kind : Jobs(kind) \in Seq(LoopJobs)
<1>1. /\ <<"tick", "mail">> \in Seq(LoopJobs) /\ <<"tick">> \in Seq(LoopJobs)
      /\ <<"mail">> \in Seq(LoopJobs) /\ <<>> \in Seq(LoopJobs)
  BY DEF LoopJobs
<1>2. QED  BY <1>1 DEF Jobs

LEMMA LoopTypes ==
  ASSUME LoopTypeOK, LoopSteps
  PROVE  LoopTypeOK'
<1> DEFINE LoopOK(l) == l \in [at: {"wait", "top", "run", "blocked"}, todo: SUBSET Kinds,
                           jobs: Seq(LoopJobs)]
           CtlOK(c) == c \in [jobs: Seq(LoopJobs \union {"other"}), running: BOOLEAN,
                              now: LoopJobs \union {"none", "other"}]
<1>0. LoopOK(loop) /\ CtlOK(ctl)
  BY DEF LoopTypeOK
<1>1. pending' \in SUBSET Kinds /\ late' \in SUBSET Kinds /\ asking' \in Nat /\ wake' \in BOOLEAN
  <2>1. \/ UNCHANGED <<pending, late>>
        \/ pending' = {} /\ late' \in {late, Kinds}
        \/ \E kinds : pending' = pending \cup (kinds \cap Kinds) /\ late' = late
        \/ \E kind \in Timers : late' = late \cup {kind} /\ pending' = pending
        \/ \E kind : late' = late \ Renewed(kind) /\ pending' = pending
    BY DEF LoopSteps, Wakes, TakesRequests, StartsPass, EndsRound, Submits, Takes, JobEnds, NowEnds,
           Announces, Intrudes, DeadlinePasses, Asks, Restarted, loopVars
  <2>2. asking' \in Nat
    <3>1. CASE \E kinds : Asks(kinds)
      BY <3>1 DEF Asks, LoopTypeOK
    <3>2. CASE Announces
      BY <3>2 DEF Announces, LoopTypeOK
    <3>3. CASE asking' \in {asking, 0}
      BY <3>3 DEF LoopTypeOK
    <3>4. ~Announces /\ ~(\E kinds : Asks(kinds)) => asking' \in {asking, 0}
      BY DEF LoopSteps, Wakes, TakesRequests, StartsPass, EndsRound, Submits, Takes, JobEnds,
             NowEnds, Intrudes, DeadlinePasses, Restarted, loopVars
    <3>5. QED  BY <3>1, <3>2, <3>3, <3>4
  <2>3. wake' \in {wake, TRUE, FALSE}
    BY DEF LoopSteps, Wakes, TakesRequests, StartsPass, EndsRound, Submits, Takes, JobEnds, NowEnds,
           Announces, Intrudes, DeadlinePasses, Asks, Restarted, loopVars
  <2>4. pending' \in SUBSET Kinds /\ late' \in SUBSET Kinds
    BY <2>1, KindsFacts DEF LoopTypeOK
  <2>5. wake' \in BOOLEAN
    BY <2>3 DEF LoopTypeOK
  <2>6. QED  BY <2>2, <2>4, <2>5
<1>2. LoopOK(loop')
  <2>1. CASE Wakes \/ TakesRequests
    <3>1. Round(pending \cup late) \in SUBSET Kinds
      BY KindsFacts DEF Round, LoopTypeOK
    <3>2. \/ loop' = [loop EXCEPT !.at = "top"]
          \/ loop' = [loop EXCEPT !.at = "run", !.todo = Round(pending \cup late)]
      BY <2>1 DEF Wakes, TakesRequests
    <3>3. QED  BY <1>0, <3>1, <3>2, LoopFacts
  <2>2. CASE StartsPass
    <3>1. PICK kind : loop' = [loop EXCEPT !.todo = @ \ {kind}, !.jobs = Jobs(kind)]
      BY <2>2 DEF StartsPass
    <3>2. QED  BY <1>0, <3>1, LoopFacts, JobsFacts
  <2>3. CASE EndsRound \/ Restarted
    <3>1. loop' = Waiting \/ loop' = [Waiting EXCEPT !.at = "top"]
      BY <2>3 DEF EndsRound, Restarted
    <3>2. <<>> \in Seq(LoopJobs)
      OBVIOUS
    <3>3. QED  BY <3>1, <3>2, WaitingFacts
  <2>4. CASE Submits
    <3>1. loop' = [loop EXCEPT !.at = "blocked", !.jobs = Tail(@)] /\ loop.jobs # <<>>
      BY <2>4 DEF Submits
    <3>2. Tail(loop.jobs) \in Seq(LoopJobs)
      BY <1>0, <3>1
    <3>3. QED  BY <1>0, <3>1, <3>2, LoopFacts
  <2>5. CASE JobEnds
    BY <1>0, <2>5, LoopFacts DEF JobEnds
  <2>6. CASE \/ Takes \/ NowEnds \/ Announces \/ Intrudes
             \/ \E kind \in Timers : DeadlinePasses(kind)
             \/ \E kinds : Asks(kinds)
             \/ UNCHANGED loopVars
    <3>1. loop' = loop
      BY <2>6 DEF Takes, NowEnds, Announces, Intrudes, DeadlinePasses, Asks, loopVars
    <3>2. QED  BY <1>0, <3>1
  <2>7. QED  BY <2>1, <2>2, <2>3, <2>4, <2>5, <2>6 DEF LoopSteps
<1>3. CtlOK(ctl')
  <2>1. CASE Submits \/ Intrudes
    <3>1. PICK job \in LoopJobs \cup {"other"} : ctl' = Enqueued(job)
      <4>1. Submits => Head(loop.jobs) \in LoopJobs
        BY <1>0 DEF Submits
      <4>2. QED  BY <2>1, <4>1 DEF Submits, Intrudes
    <3>2. Append(ctl.jobs, job) \in Seq(LoopJobs \union {"other"})
      BY <1>0
    <3>3. QED  BY <1>0, <3>1, <3>2, CtlFacts
  <2>2. CASE Takes
    <3>1. CASE ctl.jobs = <<>>
      <4>1. ctl' = [ctl EXCEPT !.running = FALSE]
        BY <2>2, <3>1 DEF Takes
      <4>2. QED  BY <1>0, <4>1, CtlFacts
    <3>2. CASE ctl.jobs # <<>>
      <4>1. ctl' = [ctl EXCEPT !.now = Head(ctl.jobs), !.jobs = Tail(@)]
        BY <2>2, <3>2 DEF Takes
      <4>2. /\ Head(ctl.jobs) \in LoopJobs \union {"other"}
            /\ Tail(ctl.jobs) \in Seq(LoopJobs \union {"other"})
        BY <1>0, <3>2
      <4>3. QED  BY <1>0, <4>1, <4>2, CtlFacts
    <3>3. QED  BY <3>1, <3>2
  <2>3. CASE JobEnds \/ NowEnds
    <3>1. ctl' = Finished
      BY <2>3 DEF JobEnds, NowEnds
    <3>2. QED  BY <1>0, <3>1, CtlFacts
  <2>4. CASE Restarted
    <3>1. <<>> \in Seq(LoopJobs \union {"other"})
      OBVIOUS
    <3>2. QED  BY <2>4, <3>1 DEF Restarted, Free
  <2>5. CASE \/ Wakes \/ TakesRequests \/ StartsPass \/ EndsRound \/ Announces
             \/ \E kind \in Timers : DeadlinePasses(kind)
             \/ \E kinds : Asks(kinds)
             \/ UNCHANGED loopVars
    <3>1. ctl' = ctl
      BY <2>5 DEF Wakes, TakesRequests, StartsPass, EndsRound, Announces, DeadlinePasses,
             Asks, loopVars
    <3>2. QED  BY <1>0, <3>1
  <2>6. QED  BY <2>1, <2>2, <2>3, <2>4, <2>5 DEF LoopSteps
<1>4. QED  BY <1>1, <1>2, <1>3 DEF LoopTypeOK

LEMMA JobStep ==
  ASSUME LoopTypeOK, JobInv, LoopSteps
  PROVE  JobInv'
<1>0. /\ ctl.jobs \in Seq(LoopJobs \union {"other"}) /\ Len(ctl.jobs) \in Nat
      /\ DOMAIN ctl.jobs = 1 .. Len(ctl.jobs)
  BY DEF LoopTypeOK
<1>1. CASE Submits
  <2>1. loop.at = "run" /\ loop.jobs # <<>>
    BY <1>1 DEF Submits
  <2>2. ctl.now \notin LoopJobs /\ \A i \in DOMAIN ctl.jobs : ctl.jobs[i] = "other"
    BY <2>1 DEF JobInv
  <2>3. Head(loop.jobs) \in LoopJobs
    BY <2>1 DEF LoopTypeOK
  <2>4. ctl'.jobs = Append(ctl.jobs, Head(loop.jobs)) /\ ctl'.now = ctl.now
    BY <1>1, <2>3, CtlFacts DEF Submits
  <2>5. loop'.at = "blocked"
    BY <1>1, LoopFacts DEF Submits
  <2>6. \A i \in DOMAIN ctl'.jobs : i = Len(ctl.jobs) + 1 \/ ctl'.jobs[i] = "other"
    BY <1>0, <2>2, <2>4
  <2>7. QED  BY <2>2, <2>4, <2>5, <2>6 DEF JobInv
<1>2. CASE Intrudes
  <2>1. ctl'.jobs = Append(ctl.jobs, "other") /\ ctl'.now = ctl.now /\ loop' = loop
    BY <1>2, CtlFacts DEF Intrudes
  <2>2. \A i \in DOMAIN ctl'.jobs : \/ i \in DOMAIN ctl.jobs /\ ctl'.jobs[i] = ctl.jobs[i]
                                    \/ ctl'.jobs[i] = "other"
    <3>1. /\ DOMAIN Append(ctl.jobs, "other") = 1 .. (Len(ctl.jobs) + 1)
          /\ Append(ctl.jobs, "other")[Len(ctl.jobs) + 1] = "other"
          /\ \A i \in 1 .. Len(ctl.jobs) : Append(ctl.jobs, "other")[i] = ctl.jobs[i]
      BY <1>0
    <3>2. QED  BY <1>0, <2>1, <3>1
  <2>3. QED  BY <2>1, <2>2 DEF JobInv
<1>3. CASE Takes
  <2>1. loop' = loop
    BY <1>3 DEF Takes
  <2>2. CASE ctl.jobs = <<>>
    <3>1. ctl'.jobs = ctl.jobs /\ ctl'.now = ctl.now
      BY <1>3, <2>2, CtlFacts DEF Takes
    <3>2. QED  BY <2>1, <3>1 DEF JobInv
  <2>3. CASE ctl.jobs # <<>>
    <3>1. ctl'.jobs = Tail(ctl.jobs) /\ ctl'.now = Head(ctl.jobs)
      BY <1>3, <2>3, CtlFacts DEF Takes
    <3>2. /\ 1 \in DOMAIN ctl.jobs /\ Head(ctl.jobs) = ctl.jobs[1]
          /\ \A i \in DOMAIN Tail(ctl.jobs) : /\ Tail(ctl.jobs)[i] = ctl.jobs[i + 1]
                                              /\ i + 1 \in DOMAIN ctl.jobs /\ i \in Nat /\ i + 1 # 1
      BY <1>0, <2>3
    <3>3. ctl'.now \in LoopJobs =>
            loop'.at = "blocked" /\ \A i \in DOMAIN ctl'.jobs : ctl'.jobs[i] = "other"
      BY <2>1, <3>1, <3>2 DEF JobInv, LoopJobs
    <3>4. \A i, j \in DOMAIN ctl'.jobs : ctl'.jobs[i] # "other" /\ ctl'.jobs[j] # "other" => i = j
      <4>1. ASSUME NEW i \in DOMAIN ctl'.jobs, NEW j \in DOMAIN ctl'.jobs,
                   ctl'.jobs[i] # "other", ctl'.jobs[j] # "other"
            PROVE  i = j
        <5>1. i + 1 = j + 1
          BY <3>1, <3>2, <4>1 DEF JobInv
        <5>2. QED  BY <3>1, <3>2, <5>1
      <4>2. QED  BY <4>1
    <3>5. \A i \in DOMAIN ctl'.jobs : ctl'.jobs[i] # "other" => loop'.at = "blocked"
      BY <2>1, <3>1, <3>2 DEF JobInv
    <3>6. QED  BY <3>3, <3>4, <3>5 DEF JobInv
  <2>4. QED  BY <2>2, <2>3
<1>4. CASE JobEnds
  <2>1. ctl'.jobs = ctl.jobs /\ ctl'.now = "none"
    BY <1>4, CtlFacts DEF JobEnds
  <2>2. \A i \in DOMAIN ctl.jobs : ctl.jobs[i] = "other"
    BY <1>4 DEF JobEnds, JobInv
  <2>3. QED  BY <2>1, <2>2 DEF JobInv, LoopJobs
<1>5. CASE NowEnds
  <2>1. ctl'.jobs = ctl.jobs /\ ctl'.now = "none" /\ loop' = loop
    BY <1>5, CtlFacts DEF NowEnds
  <2>2. QED  BY <2>1 DEF JobInv, LoopJobs
<1>6. CASE Restarted
  <2>1. ctl'.jobs = <<>> /\ ctl'.now = "none"
    BY <1>6 DEF Restarted, Free
  <2>2. QED  BY <2>1 DEF JobInv, LoopJobs
<1>7. CASE Wakes \/ TakesRequests \/ StartsPass \/ EndsRound
  <2>1. loop.at # "blocked" /\ ctl' = ctl
    BY <1>7 DEF Wakes, TakesRequests, StartsPass, EndsRound
  <2>2. QED  BY <2>1 DEF JobInv
<1>8. CASE \/ Announces \/ \E kind \in Timers : DeadlinePasses(kind)
           \/ \E kinds : Asks(kinds)
           \/ UNCHANGED loopVars
  <2>1. ctl' = ctl /\ loop' = loop
    BY <1>8 DEF Announces, DeadlinePasses, Asks, loopVars
  <2>2. QED  BY <2>1 DEF JobInv
<1>9. QED
  BY <1>1, <1>2, <1>3, <1>4, <1>5, <1>6, <1>7, <1>8 DEF LoopSteps

LEMMA WakeStep ==
  ASSUME LoopTypeOK, JobInv, WakeInv, LoopSteps
  PROVE  WakeInv'
<1>1. pending' # {} => wake' \/ asking' > 0 \/ loop'.at = "top"
  <2>1. CASE Wakes
    <3>1. loop'.at = "top"
      BY <2>1, LoopFacts DEF Wakes
    <3>2. QED  BY <3>1
  <2>2. CASE TakesRequests \/ Restarted
    BY <2>2 DEF TakesRequests, Restarted
  <2>3. CASE StartsPass \/ EndsRound \/ Submits
    BY <2>3 DEF StartsPass, EndsRound, Submits, WakeInv
  <2>4. CASE JobEnds
    <3>1. loop.at = "blocked" /\ UNCHANGED <<pending, asking, wake>>
      BY <2>4 DEF JobEnds, JobInv
    <3>2. QED  BY <3>1 DEF WakeInv
  <2>5. CASE Takes \/ NowEnds \/ Intrudes \/ \E kind \in Timers : DeadlinePasses(kind)
    <3>1. UNCHANGED <<pending, asking, wake, loop>>
      BY <2>5 DEF Takes, NowEnds, Intrudes, DeadlinePasses
    <3>2. QED  BY <3>1 DEF WakeInv
  <2>6. CASE Announces
    BY <2>6 DEF Announces
  <2>7. CASE \E kinds : Asks(kinds)
    BY <2>7 DEF Asks, LoopTypeOK
  <2>8. CASE UNCHANGED loopVars
    BY <2>8 DEF loopVars, WakeInv
  <2>9. QED
    BY <2>1, <2>2, <2>3, <2>4, <2>5, <2>6, <2>7, <2>8 DEF LoopSteps
<1>2. ctl'.jobs # <<>> => ctl'.running
  <2>1. CASE Submits \/ Intrudes
    <3>1. PICK job \in LoopJobs \cup {"other"} : ctl' = Enqueued(job)
      <4>1. Submits => Head(loop.jobs) \in LoopJobs
        BY DEF Submits, LoopTypeOK
      <4>2. QED  BY <2>1, <4>1 DEF Submits, Intrudes
    <3>2. ctl'.running
      BY <3>1, CtlFacts
    <3>3. QED  BY <3>2
  <2>2. CASE Takes
    <3>1. CASE ctl.jobs = <<>>
      <4>1. ctl'.jobs = <<>>
        BY <2>2, <3>1, CtlFacts DEF Takes
      <4>2. QED  BY <4>1
    <3>2. CASE ctl.jobs # <<>>
      <4>1. ctl'.running = ctl.running /\ ctl.running
        BY <2>2, <3>2, CtlFacts DEF Takes
      <4>2. QED  BY <4>1
    <3>3. QED  BY <3>1, <3>2
  <2>3. CASE JobEnds \/ NowEnds
    <3>1. ctl'.jobs = ctl.jobs /\ ctl'.running = ctl.running
      BY <2>3, CtlFacts DEF JobEnds, NowEnds
    <3>2. QED  BY <3>1 DEF WakeInv
  <2>4. CASE Restarted
    BY <2>4 DEF Restarted, Free
  <2>5. CASE \/ Wakes \/ TakesRequests \/ StartsPass \/ EndsRound \/ Announces
             \/ \E kind \in Timers : DeadlinePasses(kind)
             \/ \E kinds : Asks(kinds)
             \/ UNCHANGED loopVars
    <3>1. ctl' = ctl
      BY <2>5 DEF Wakes, TakesRequests, StartsPass, EndsRound, Announces, DeadlinePasses,
             Asks, loopVars
    <3>2. QED  BY <3>1 DEF WakeInv
  <2>6. QED  BY <2>1, <2>2, <2>3, <2>4, <2>5 DEF LoopSteps
<1>3. QED  BY <1>1, <1>2 DEF WakeInv

(* The loop and the controller keep their types, and the controller holds  *)
(* at most one job of the loop, and only while the loop waits for it.      *)
THEOREM SpecLoopInv == Spec => [](LoopTypeOK /\ JobInv /\ WakeInv)
<1>1. Init => LoopTypeOK /\ JobInv /\ WakeInv
  <2> SUFFICES ASSUME Init PROVE LoopTypeOK /\ JobInv /\ WakeInv
    OBVIOUS
  <2>2. <<>> \in Seq(LoopJobs) /\ <<>> \in Seq(LoopJobs \union {"other"})
    OBVIOUS
  <2>3. loop \in [at: {"top"}, todo: {{}}, jobs: {<<>>}]
    BY WaitingFacts DEF Init
  <2>4. LoopTypeOK
    <3>1. loop \in [at: {"wait", "top", "run", "blocked"}, todo: SUBSET Kinds, jobs: Seq(LoopJobs)]
      BY <2>2, <2>3
    <3>2. ctl \in [jobs: Seq(LoopJobs \union {"other"}), running: BOOLEAN,
                   now: LoopJobs \union {"none", "other"}]
      BY <2>2 DEF Init, Free
    <3>3. QED  BY <3>1, <3>2 DEF Init, LoopTypeOK
  <2>5. QED  BY <2>3, <2>4 DEF Init, JobInv, WakeInv, Free, LoopJobs
<1>2. LoopTypeOK /\ JobInv /\ WakeInv /\ [Next]_vars => (LoopTypeOK /\ JobInv /\ WakeInv)'
  BY NextLoop, LoopTypes, JobStep, WakeStep
<1>3. QED  BY <1>1, <1>2, PTL DEF Spec

(* No request is lost between the bit and the token, and no job between    *)
(* the queue and the goroutine of the controller, for any passes, timers   *)
(* and bound of requests.                                                  *)
THEOREM SpecNoLostWake == Spec => []NoLostWake
<1>1. WakeInv => NoLostWake
  BY DEF WakeInv, NoLostWake
<1>2. QED  BY <1>1, SpecLoopInv, PTL
=============================================================================
