---------------------------- MODULE SchedulerTicks ----------------------------
(***************************************************************************)
(* The Scheduler of a Workspace: the list of schedules anyone may edit and *)
(* the ticks the Server sends the Scheduler's Agent.  A pass compares the  *)
(* list and the last tick, and accepts at most one tick: because the list  *)
(* changed, because the interval after the last Turn is over, or because   *)
(* that Turn failed.  A pass is a job of the Scheduler's controller; list, *)
(* mailbox and checkpoint are written one after another.                   *)
(*                                                                         *)
(* The digest of a list is the list: every edit stamps a schedule anew.    *)
(***************************************************************************)
EXTENDS Naturals, Sequences, SequencesExt, FiniteSets, FiniteSetsExt

CONSTANTS Ids,          \* ids of schedules
          MaxEdits, MaxTicks, MaxFaults   \* bounds

VARIABLES schedules,    \* scheduler.json: pairs of an id and its last edit
          edits,        \* how often it was edited
          ticks,        \* the ticks of the mailbox, in the order of acceptance
          turns,        \* AgentHub: what became of the Turn of each tick
          checkpoint,   \* scheduler.json of the mailbox: the last tick known
          seen,         \* the list the process saw last, if any
          lapsed,       \* the interval after the last Turn is over
          pass,         \* the pass under way
          faults        \* crashes and writes that failed

tickVars == <<schedules, edits, ticks, turns, checkpoint, seen, lapsed, pass, faults>>
-----------------------------------------------------------------------------
NoPass == [step |-> "none"]
NoTick == 0

(* A tick is identified by its reason, its list and the tick before it.    *)
Tick(reason, digest, basis) ==
    [reason |-> reason, digest |-> digest, basis |-> basis,
     status |-> "queued", ended |-> FALSE, expired |-> FALSE]

Same(a, b) == a.reason = b.reason /\ a.digest = b.digest /\ a.basis = b.basis

Present == {i \in DOMAIN ticks : ~ticks[i].expired}

LastTick == IF Present # {} THEN Max(Present) ELSE checkpoint

(* Mutant of PendingTick: a tick about an older list does not count.       *)
PendingForList == \E i \in Present : ticks[i].status = "queued" /\ ticks[i].digest = schedules

PendingTick == \E i \in Present : ticks[i].status = "queued"

TicksInit ==
    /\ schedules = {} /\ edits = 0
    /\ ticks = <<>> /\ turns = <<>> /\ checkpoint = NoTick
    /\ seen = {} /\ lapsed = FALSE /\ pass = NoPass /\ faults = 0

(* Adding, changing and removing a schedule, under the Workspace lock.     *)
Edits(list) ==
    /\ edits < MaxEdits
    /\ edits' = edits + 1
    /\ schedules' = list
    /\ UNCHANGED <<ticks, turns, checkpoint, seen, lapsed, pass, faults>>

AddSchedule(id) ==
    /\ \A s \in schedules : s[1] # id
    /\ Edits(schedules \cup {<<id, edits + 1>>})

UpdateSchedule(s) == s \in schedules /\ Edits((schedules \ {s}) \cup {<<s[1], edits + 1>>})

RemoveSchedule(s) == s \in schedules /\ Edits(schedules \ {s})
-----------------------------------------------------------------------------
(* What the look at the last tick finds.  A tick whose end is recorded     *)
(* counts as completed, whatever its Turn ended in; a checkpoint of a tick *)
(* that no generation had never ends.                                      *)
Outcome(i) ==
    IF ticks[i].status \in {"undeliverable", "unknown"} /\ ~ticks[i].expired THEN ticks[i].status
    ELSE IF ticks[i].status = "undeliverable" THEN "none"
    ELSE IF ticks[i].ended THEN "completed" ELSE turns[i]

Recorded(i) == [ticks EXCEPT ![i].ended = TRUE]

(* Mutant of Reason: a changed list waits for the interval like any other. *)
IgnoresChange ==
    IF LastTick = NoTick THEN "recovery"
    ELSE IF Outcome(LastTick) \in {"running", "none"} THEN "wait"
    ELSE IF Outcome(LastTick) # "completed" THEN "recovery"
    ELSE IF lapsed THEN "interval" ELSE "wait"

Reason ==
    IF LastTick = NoTick
    THEN IF seen \notin {{}, {schedules}} THEN "changed" ELSE "recovery"
    ELSE IF ticks[LastTick].digest # schedules THEN "changed"
    ELSE IF Outcome(LastTick) \in {"running", "none"} THEN "wait"
    ELSE IF Outcome(LastTick) # "completed" THEN "recovery"
    ELSE IF lapsed THEN "interval" ELSE "wait"

(* The Turn of a retired generation is over without an end to record.      *)
RecordsEnd ==
    /\ LastTick # NoTick /\ ticks[LastTick].digest = schedules
    /\ Outcome(LastTick) \notin {"running", "none", "gone"}

Looks ==
    /\ pass = NoPass
    /\ seen' = {schedules}
    /\ IF schedules = {}
       THEN /\ ticks' = [i \in DOMAIN ticks |->
                           IF ticks[i].status = "queued" THEN [ticks[i] EXCEPT !.status = "undeliverable"]
                           ELSE ticks[i]]
            /\ pass' = NoPass
       ELSE IF PendingTick THEN UNCHANGED ticks /\ pass' = NoPass
       ELSE /\ ticks' = IF RecordsEnd THEN Recorded(LastTick) ELSE ticks
            /\ pass' = IF Reason = "wait" THEN NoPass
                       ELSE [step |-> "accept", tick |-> Tick(Reason, schedules, LastTick)]
    /\ UNCHANGED <<schedules, edits, turns, checkpoint, lapsed, faults>>

Accepts ==
    /\ pass.step = "accept"
    /\ IF \E i \in Present : Same(ticks[i], pass.tick) THEN UNCHANGED <<ticks, turns, lapsed>>
       ELSE /\ Len(ticks) < MaxTicks
            /\ ticks' = Append(ticks, pass.tick)
            /\ turns' = Append(turns, "none")
            /\ lapsed' = FALSE
    /\ pass' = [step |-> "checkpoint"]
    /\ UNCHANGED <<schedules, edits, checkpoint, seen, faults>>

Checkpoints ==
    /\ pass.step = "checkpoint"
    /\ checkpoint' = Max(Present)
    /\ pass' = NoPass
    /\ UNCHANGED <<schedules, edits, ticks, turns, seen, lapsed, faults>>

(* Accepting fails, or the pass is cancelled before it.                    *)
PassFails ==
    /\ pass.step \in {"accept", "checkpoint"} /\ faults < MaxFaults
    /\ faults' = faults + 1
    /\ pass' = NoPass
    /\ UNCHANGED <<schedules, edits, ticks, turns, checkpoint, seen, lapsed>>

PassSteps == Looks \/ Accepts \/ Checkpoints \/ PassFails
-----------------------------------------------------------------------------
(* The mailbox hands the queued tick to AgentHub, or never learns whether  *)
(* it did; its Turn ends, or its generation is retired.                    *)
Queued == {i \in Present : ticks[i].status = "queued"}

Delivers ==
    /\ \E i \in Queued : ticks' = [ticks EXCEPT ![i].status = "delivered"]
                         /\ turns' = [turns EXCEPT ![i] = "running"]
    /\ UNCHANGED <<schedules, edits, checkpoint, seen, lapsed, pass, faults>>

LosesTrack ==
    /\ faults < MaxFaults
    /\ faults' = faults + 1
    /\ \E i \in Queued : ticks' = [ticks EXCEPT ![i].status = "unknown"]
    /\ UNCHANGED <<schedules, edits, turns, checkpoint, seen, lapsed, pass>>

TurnEnds(outcome) ==
    /\ \E i \in DOMAIN turns : turns[i] = "running" /\ turns' = [turns EXCEPT ![i] = outcome]
    /\ UNCHANGED <<schedules, edits, ticks, checkpoint, seen, lapsed, pass, faults>>

Lapses ==
    /\ ~lapsed /\ ticks # <<>> /\ turns[Len(turns)] \in {"completed", "failed"}
    /\ lapsed' = TRUE
    /\ UNCHANGED <<schedules, edits, ticks, turns, checkpoint, seen, pass, faults>>

(* Receipts of ticks that ended are dropped after the retention time; the  *)
(* checkpoint stands for the last one.                                     *)
Expires ==
    /\ pass = NoPass /\ Present # {} /\ checkpoint = Max(Present)
    /\ \A i \in Present : ticks[i].ended
    /\ ticks' = [i \in DOMAIN ticks |-> [ticks[i] EXCEPT !.expired = TRUE]]
    /\ UNCHANGED <<schedules, edits, turns, checkpoint, seen, lapsed, pass, faults>>

Restarts ==
    /\ faults < MaxFaults
    /\ faults' = faults + 1
    /\ seen' = {} /\ pass' = NoPass
    /\ UNCHANGED <<schedules, edits, ticks, turns, checkpoint, lapsed>>
-----------------------------------------------------------------------------
(* At most one tick waits for delivery, and none is accepted twice.        *)
OneTick ==
    /\ Cardinality(Queued) <= 1
    /\ \A i, j \in Present : Same(ticks[i], ticks[j]) => i = j

(* A tick whose reason is the interval follows a Turn that completed.      *)
IntervalAfterCompletion ==
    \A i \in DOMAIN ticks : ticks[i].reason = "interval" => turns[ticks[i].basis] = "completed"

(* The list has schedules, and no tick tells of it as it is now.           *)
Unseen == schedules # {} /\ \A i \in DOMAIN ticks : ticks[i].digest # schedules
=============================================================================
