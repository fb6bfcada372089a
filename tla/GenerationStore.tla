-------------------------- MODULE GenerationStore --------------------------
(***************************************************************************)
(* The generation store of one PUA resource (internal/generation/store.go) *)
(* and the Serve code that owns its records (mutateRuntime,                *)
(* retireStoredGeneration, createResourceGeneration).  The store keeps one *)
(* mutable file, current.json, and one immutable manifest per retired      *)
(* generation.  Resources never share a file or a lock, so one resource is *)
(* the whole store.                                                        *)
(*                                                                         *)
(* A step is one file-system effect (a rename or a removal).  Every effect *)
(* may be followed by an fsync error: the file changed, the caller is told *)
(* it did not.  An effect that fails before it happens is a stutter.  The  *)
(* process may crash between any two steps; what it renamed stays.         *)
(***************************************************************************)
EXTENDS Naturals, FiniteSetsExt

CONSTANTS GenIds,      \* generation ids (newGenerationRecordID is unique)
          Reasons,     \* retire reasons
          NoReason,    \* the empty retire reason
          NoRecord,    \* an absent file or an absent runtime
          MaxVersion   \* bound on the updates of one generation

Record == [id: GenIds, num: Nat \ {0}, ver: Nat \ {0},
           reason: Reasons \union {NoReason}]

ASSUME NoReasonAssumption == NoReason \notin Reasons
ASSUME NoRecordAssumption == NoRecord \notin Record
ASSUME MaxVersionAssumption == MaxVersion \in Nat

VARIABLES
  current,    \* current.json
  manifests,  \* generations/<id>.json
  rt,         \* agentRuntime.record of each generation, in memory
  retired,    \* the runtimes whose record.Retired flag is set
  retire,     \* the retireStoredGeneration call of each runtime
  allocated,  \* the number createResourceGeneration got, 0 for none
  acked,      \* history: last version a save of which returned nil, 0 if none
  scan        \* one lock-free List call

files == <<current, manifests>>
memory == <<rt, retired, retire, allocated, scan>>
vars == <<files, memory, acked>>

RetireIdle == [stage |-> "idle", rec |-> NoRecord]
RetireCalls ==
  {RetireIdle} \union [stage: {"asked", "removing", "removed"}, rec: Record]
ScanIdle == [pc |-> "idle", cur |-> NoRecord, out |-> {}, before |-> {}]

TypeOK ==
  /\ current \in Record \union {NoRecord}
  /\ manifests \in [GenIds -> Record \union {NoRecord}]
  /\ rt \in [GenIds -> Record \union {NoRecord}]
  /\ retired \in SUBSET GenIds
  /\ retire \in [GenIds -> RetireCalls]
  /\ allocated \in Nat
  /\ acked \in [GenIds -> Nat]
  /\ scan \in [pc: {"idle", "check", "dir", "done"},
               cur: GenIds \union {NoRecord},
               out: SUBSET GenIds, before: SUBSET GenIds]

-----------------------------------------------------------------------------
(* What the readers of the store see.                                      *)

HasManifest(g) == manifests[g] # NoRecord
InCurrent(g) == current # NoRecord /\ current.id = g

\* readCurrentForKey: a manifest hides the current file of its generation.
Visible ==
  IF current # NoRecord /\ ~HasManifest(current.id) THEN current ELSE NoRecord

\* sameGenerationIdentity; sameGeneration also compares the payload, which
\* makes it equality of records.
SameIdentity(r, s) == r.id = s.id /\ r.num = s.num

\* Mutant: the scan of the manifest directory is forgotten.
CurrentNumber == {0} \union (IF Visible = NoRecord THEN {} ELSE {Visible.num})

\* NextGeneration: one more than every number the resource has used.
UsedNumbers ==
  {0} \union {manifests[g].num : g \in {h \in GenIds : HasManifest(h)}}
      \union (IF Visible = NoRecord THEN {} ELSE {Visible.num})

NextNumber == 1 + Max(UsedNumbers)

\* withResourceLock: only a retirement holds the lock across two effects.
LockFree == \A g \in GenIds : retire[g].stage # "removing"

\* Mutant: the manifest is not looked up before the write.
SaveUnchecked(rec) ==
  /\ LockFree
  /\ Visible # NoRecord => SameIdentity(Visible, rec)
  /\ current' = rec
  /\ UNCHANGED manifests

\* SaveCurrent writes rec unless another generation owns the current file or
\* the generation is retired.
SaveCurrent(rec) ==
  /\ LockFree
  /\ Visible # NoRecord => SameIdentity(Visible, rec)
  /\ ~HasManifest(rec.id)
  /\ current' = rec
  /\ UNCHANGED manifests

\* SaveRetired: an identical manifest is accepted, a different one refused.
SaveRetired(rec) ==
  /\ LockFree
  /\ manifests[rec.id] \in {NoRecord, rec}
  /\ manifests' = [manifests EXCEPT ![rec.id] = rec]
  /\ UNCHANGED current

-----------------------------------------------------------------------------
(* createResourceGeneration: number, then record, under the resource's     *)
(* controller; ensureMailboxGeneration calls it when nothing is current.   *)

Unused(g) ==
  /\ ~InCurrent(g) /\ ~HasManifest(g) /\ acked[g] = 0
  /\ rt[g] = NoRecord /\ retire[g] = RetireIdle

CreateNumber ==
  /\ allocated = 0 /\ LockFree /\ Visible = NoRecord
  /\ allocated' = NextNumber
  /\ UNCHANGED <<files, rt, retired, retire, acked, scan>>

CreateSave(g) ==
  LET rec == [id |-> g, num |-> allocated, ver |-> 1, reason |-> NoReason]
  IN  /\ allocated # 0 /\ Unused(g)
      /\ SaveCurrent(rec)
      /\ allocated' = 0
      /\ \/ /\ rt' = [rt EXCEPT ![g] = rec]
            /\ acked' = [acked EXCEPT ![g] = 1]
         \/ UNCHANGED <<rt, acked>>           \* fsync error: runtime removed
      /\ UNCHANGED <<retired, retire, scan>>

CreateFails ==
  /\ allocated # 0
  /\ allocated' = 0
  /\ UNCHANGED <<files, rt, retired, retire, acked, scan>>

\* ensureRuntime, from recovery or from a later reconcile: the memory of a
\* generation is rebuilt from its visible current record.
EnsureRuntime(g) ==
  /\ LockFree /\ Visible # NoRecord /\ Visible.id = g /\ rt[g] = NoRecord
  /\ rt' = [rt EXCEPT ![g] = Visible]
  /\ UNCHANGED <<files, retired, retire, allocated, acked, scan>>

\* One update of a generation record.
Updated(r, reason) ==
  [id |-> r.id, num |-> r.num, ver |-> r.ver + 1, reason |-> reason]

\* mutateRuntime: change the record, save it, undo the change on error.  A
\* runtime object outlives its generation, so g may be long retired.
Mutate(g, reason) ==
  LET rec == Updated(rt[g], reason)
  IN  /\ rt[g] # NoRecord /\ rt[g].ver < MaxVersion
      /\ reason \in {rt[g].reason} \union Reasons
      /\ IF g \in retired THEN SaveRetired(rec) ELSE SaveCurrent(rec)
      /\ \/ /\ rt' = [rt EXCEPT ![g] = rec]
            /\ acked' = [acked EXCEPT ![g] = rec.ver]
         \/ UNCHANGED <<rt, acked>>           \* fsync error: change undone
      /\ UNCHANGED <<retired, retire, allocated, scan>>

-----------------------------------------------------------------------------
(* retireStoredGeneration: snapshot the runtime, call RetireCurrent, flag  *)
(* the runtime.  RetireCurrent writes the manifest, then removes current.  *)

RetireSnapshot(g, reason) ==
  /\ rt[g] # NoRecord /\ g \notin retired /\ retire[g] = RetireIdle
  /\ retire' = [retire EXCEPT ![g] =
       [stage |-> "asked", rec |-> [rt[g] EXCEPT !.reason = reason]]]
  /\ UNCHANGED <<files, rt, retired, allocated, acked, scan>>

\* Mutant: the manifest is written from the caller's snapshot.
RetireWriteSnapshot(g) ==
  /\ retire[g].stage = "asked" /\ LockFree
  /\ ~HasManifest(g) /\ Visible # NoRecord
  /\ SameIdentity(Visible, retire[g].rec)
  /\ manifests' = [manifests EXCEPT ![g] = retire[g].rec]
  /\ retire' = [retire EXCEPT ![g].stage = "removing"]
  /\ UNCHANGED <<current, rt, retired, allocated, acked, scan>>

\* Mutant: the error of the manifest write is ignored.
RetireWriteUnchecked(g) ==
  /\ retire[g].stage = "asked" /\ LockFree
  /\ ~HasManifest(g) /\ Visible # NoRecord
  /\ SameIdentity(Visible, retire[g].rec)
  /\ manifests' \in {manifests, [manifests EXCEPT ![g] = current]}
  /\ retire' = [retire EXCEPT ![g].stage = "removing"]
  /\ UNCHANGED <<current, rt, retired, allocated, acked, scan>>

\* The manifest is written from the durable record, not from the snapshot.
RetireWrite(g) ==
  /\ retire[g].stage = "asked" /\ LockFree
  /\ ~HasManifest(g) /\ Visible # NoRecord
  /\ SameIdentity(Visible, retire[g].rec)
  /\ manifests' = [manifests EXCEPT ![g] = current]
  /\ \/ retire' = [retire EXCEPT ![g].stage = "removing"]
     \/ retire' = [retire EXCEPT ![g] = RetireIdle]
  /\ UNCHANGED <<current, rt, retired, allocated, acked, scan>>

RetireRemove(g) ==
  /\ retire[g].stage = "removing"
  /\ \/ /\ current' = NoRecord
        /\ \/ retire' = [retire EXCEPT ![g].stage = "removed"]
           \/ retire' = [retire EXCEPT ![g] = RetireIdle]
     \/ /\ retire' = [retire EXCEPT ![g] = RetireIdle]
        /\ UNCHANGED current
  /\ UNCHANGED <<manifests, rt, retired, allocated, acked, scan>>

\* A repeated retirement finds the manifest and compares payloads.  The
\* current record of this generation is hidden now; another one is a conflict.
RetireRepeat(g) ==
  /\ retire[g].stage = "asked" /\ LockFree
  /\ HasManifest(g) /\ manifests[g] = retire[g].rec /\ Visible = NoRecord
  /\ retire' = [retire EXCEPT ![g].stage = "removed"]
  /\ UNCHANGED <<files, rt, retired, allocated, acked, scan>>

\* RetireCurrent returned an error before any effect: a refusal or I/O.
RetireFails(g) ==
  /\ retire[g].stage = "asked"
  /\ retire' = [retire EXCEPT ![g] = RetireIdle]
  /\ UNCHANGED <<files, rt, retired, allocated, acked, scan>>

RetirePublish(g) ==
  /\ retire[g].stage = "removed"
  /\ rt' = [rt EXCEPT ![g].reason = retire[g].rec.reason]
  /\ retired' = retired \union {g}
  /\ retire' = [retire EXCEPT ![g] = RetireIdle]
  /\ UNCHANGED <<files, allocated, acked, scan>>

-----------------------------------------------------------------------------
(* List takes no lock: it reads current.json, then looks for its manifest, *)
(* then reads the manifest directory.                                      *)

ScanCurrent ==
  /\ scan.pc \in {"idle", "done"}
  /\ scan' = [pc |-> "check", out |-> {},
              cur |-> IF current = NoRecord THEN NoRecord ELSE current.id,
              before |-> {g \in GenIds : acked[g] > 0}]
  /\ UNCHANGED <<files, rt, retired, retire, allocated, acked>>

ScanCheck ==
  /\ scan.pc = "check"
  /\ scan' = [scan EXCEPT !.pc = "dir",
       !.out = {g \in GenIds : g = scan.cur /\ ~HasManifest(g)}]
  /\ UNCHANGED <<files, rt, retired, retire, allocated, acked>>

\* Mutant: List reads the directory only for a resource with no current file.
ScanDirUnlessCurrent ==
  /\ scan.pc = "dir"
  /\ scan' = [scan EXCEPT !.pc = "done",
       !.out = @ \union {g \in GenIds : HasManifest(g) /\ scan.cur = NoRecord}]
  /\ UNCHANGED <<files, rt, retired, retire, allocated, acked>>

ScanDir ==
  /\ scan.pc = "dir"
  /\ scan' = [scan EXCEPT !.pc = "done",
       !.out = @ \union {g \in GenIds : HasManifest(g)}]
  /\ UNCHANGED <<files, rt, retired, retire, allocated, acked>>

\* A crash loses the memory, the locks and the calls in progress.
Crash ==
  /\ rt' = [g \in GenIds |-> NoRecord]
  /\ retired' = {}
  /\ retire' = [g \in GenIds |-> RetireIdle]
  /\ allocated' = 0
  /\ scan' = ScanIdle
  /\ UNCHANGED <<files, acked>>

-----------------------------------------------------------------------------
Init ==
  /\ current = NoRecord
  /\ manifests = [g \in GenIds |-> NoRecord]
  /\ rt = [g \in GenIds |-> NoRecord]
  /\ retired = {}
  /\ retire = [g \in GenIds |-> RetireIdle]
  /\ allocated = 0
  /\ acked = [g \in GenIds |-> 0]
  /\ scan = ScanIdle

GenStep(g) ==
  \/ CreateSave(g)
  \/ EnsureRuntime(g)
  \/ \E reason \in Reasons \union {NoReason} : Mutate(g, reason)
  \/ \E reason \in Reasons : RetireSnapshot(g, reason)
  \/ RetireWrite(g)
  \/ RetireRemove(g)
  \/ RetireRepeat(g)
  \/ RetireFails(g)
  \/ RetirePublish(g)

Next ==
  \/ CreateNumber
  \/ CreateFails
  \/ \E g \in GenIds : GenStep(g)
  \/ ScanCurrent
  \/ ScanCheck
  \/ ScanDir
  \/ Crash

Spec == Init /\ [][Next]_vars

-----------------------------------------------------------------------------
(* Properties.                                                             *)

\* A generation whose record was ever saved successfully stays on disk for
\* good: in current.json or as a manifest, through crashes between the two
\* writes of a retirement and through writes by stale runtimes.
NoGenerationLost ==
  \A g \in GenIds : acked[g] > 0 => InCurrent(g) \/ HasManifest(g)

\* The history keeps the last acknowledged state of a generation: an update
\* saved while its retirement is in progress is in the manifest.
ManifestIsFresh ==
  \A g \in GenIds : HasManifest(g) => manifests[g].ver >= acked[g]

\* A visible current generation has a larger number than every retired one,
\* whatever was lost between NextGeneration and SaveCurrent.
CurrentIsNewest ==
  Visible # NoRecord =>
    \A g \in GenIds : HasManifest(g) => manifests[g].num < Visible.num

\* A finished List reports every generation that was saved before it began,
\* although it takes no lock and a retirement moves records under it.
ScanMissesNothing == scan.pc = "done" => scan.before \subseteq scan.out

\* A retired manifest is immutable history.
ManifestImmutable ==
  [][\A g \in GenIds : HasManifest(g) => manifests'[g] = manifests[g]]_vars

\* Once a generation has its manifest nothing writes it to current.json
\* again: a stale runtime cannot revive it.
RetiredNeverRevived ==
  [][\A g \in GenIds : HasManifest(g) /\ current' # current =>
        current' = NoRecord \/ current'.id # g]_vars

=============================================================================
