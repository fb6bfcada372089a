------------------------ MODULE MailboxStoreProofs ------------------------
(* The inductive invariant of MailboxStore and what follows from it: what  *)
(* Durable and MarkerCovers promise holds for any messages and limits.     *)
EXTENDS MailboxStore, FiniteSetTheorems, TLAPS

(* No document before n in the order of Files is still to be renamed.      *)
Behind(d, n) == \A i \in 1 .. Len(Files) : i < n => Files[i] \notin d.left

(* Whatever a crash leaves holds the documents of the live directory.      *)
Settled == \A d \in crashable : Effective(d) = Effective(live)

(* Temporaries are named by commit.json, and a recovery or a commit has    *)
(* renamed those it is past.                                               *)
StepsOK ==
  /\ live \in crashable
  /\ live.left # {} => live.commit
  /\ \A p \in Procs : pc[p] = "recover" => own[p] /\ Behind(live, at[p])
  /\ pc.mutate = "rename" => Behind(live, at.mutate)

(* commit.json is there while the mutation commits and only then, and what *)
(* the live directory holds from there on is the mutation's goal.          *)
CommitOK ==
  /\ pc.mutate \in {"recovered", "loaded", "mark", "publish"} => ~live.commit
  /\ Committing => live.commit /\ pc.rebuild # "recover"
  /\ pc.mutate \in {"commit", "rename", "settle", "unmark"} => Effective(live) = goal

(* Only between commit.json and its fsync a crash may find two versions.   *)
VersionsOK ==
  /\ pc.mutate \notin {"commit", "undo"} => Settled
  /\ pc.mutate = "commit" => "hot" \in live.left
  /\ pc.mutate = "undo" => Settled \/ (at.mutate = 1 /\ "hot" \in live.left)
  /\ Atomic

(* The index mutex keeps the rebuild and the mutation that needs a marker  *)
(* apart; the marker is durable before the documents change.               *)
MarksOK ==
  /\ index \in indexCrashable
  /\ pc.rebuild # "idle" => mu = "rebuild"
  /\ pc.mutate = "publish" /\ NeedsHotWork(goal) =>
       mu = "mutate" /\ \A x \in indexCrashable : x.marker
  /\ pc.mutate = "unmark" => ~NeedsHotWork(goal)

(* What the rebuild loaded is still true of every bundle with work, or the *)
(* marker it wrote is.                                                     *)
RebuildOK ==
  /\ pc.rebuild = "recovered" /\ live.commit => ~NeedsHotWork(Effective(live))
  /\ pc.rebuild \in {"loaded", "unready", "write"} =>
       \A d \in crashable : NeedsHotWork(Effective(d)) => active
  /\ pc.rebuild = "ready" =>
       \A d \in crashable : NeedsHotWork(Effective(d)) => index.marker

Undisturbed == StepsOK /\ CommitOK /\ VersionsOK /\ MarksOK /\ RebuildOK /\ MarkerCovers

IInv == TypeOK /\ (~disturbed => Undisturbed)

-----------------------------------------------------------------------------
USE LimitsAssumption, RenameErrorsAssumption, MsgsAssumption

LEMMA FilesFacts ==
  /\ Len(Files) = 4 /\ FileNames = {Files[1], Files[2], Files[3], Files[4]}
  /\ \A i \in 1 .. 4 : Files[i] \in FileNames
  /\ Files[1] = "hot"
BY DEF Files, FileNames

LEMMA DocumentTypes ==
  ASSUME NEW d \in Directory
  PROVE  /\ \A f \in FileNames : f \in d.left => Renamed(d, f) \in Directory
         /\ \A f \in FileNames : Discarded(d, f) \in Directory
         /\ Unlinked(d) \in Directory
         /\ \A b \in Bundle : Published(d, b) \in Directory
<1>1. ASSUME NEW f \in FileNames
      PROVE  Renamed(d, f) \in Directory /\ Discarded(d, f) \in Directory
  BY DEF Directory, Bundle, FileNames, Renamed, Discarded
<1>2. Unlinked(d) \in Directory
  BY DEF Directory, Unlinked
<1>3. ASSUME NEW b \in Bundle PROVE Published(d, b) \in Directory
  BY DEF Directory, Published
<1>4. QED  BY <1>1, <1>2, <1>3

(* What the documents of a directory will be does not change while they    *)
(* are renamed and when commit.json goes after them.                       *)
LEMMA EffectiveFacts ==
  ASSUME NEW d \in Directory
  PROVE  /\ \A f \in d.left : d.commit => Effective(Renamed(d, f)) = Effective(d)
         /\ d.left = {} => Effective(Unlinked(d)) = Effective(d)
         /\ d.left = {} \/ ~d.commit => Effective(d) = d.docs
         /\ \A b \in Bundle : Effective(Published(d, b)) = b
<1>1. ASSUME NEW f \in d.left, d.commit
      PROVE  Effective(Renamed(d, f)) = Effective(d)
  BY <1>1 DEF Effective, Renamed, Directory, Bundle, FileNames
<1>2. ASSUME d.left = {} PROVE Effective(Unlinked(d)) = Effective(d)
  BY <1>2 DEF Effective, Unlinked, Directory
<1>3. ASSUME d.left = {} \/ ~d.commit PROVE Effective(d) = d.docs
  BY <1>3 DEF Effective, Directory, Bundle, FileNames
<1>4. ASSUME NEW b \in Bundle PROVE Effective(Published(d, b)) = b
  BY DEF Effective, Published, Directory, Bundle, FileNames
<1>5. QED  BY <1>1, <1>2, <1>3, <1>4

(* A mutation commits documents within the limits of the retention.        *)
LEMMA MutationTypes ==
  ASSUME NEW b \in Bundle, NEW g \in Mutations(b)
  PROVE  /\ g \in Bundle
         /\ Cardinality(g.receipts.kept) <= ReceiptLimit
         /\ Cardinality(g.receipts.expired) <= ExpiredLimit
<1>1. ASSUME NEW c \in Accepts(b) \union Settles(b) \union Notices(b)
                        \union Checkpoints(b) \union {b}
      PROVE  c \in Bundle
  <2>1. CASE c \in Accepts(b)
    BY <2>1 DEF Accepts, Bundle, Known
  <2>2. CASE c \in Settles(b)
    <3>1. PICK m \in b.hot.msgs :
            c = [b EXCEPT !.hot.msgs = @ \ {m}, !.receipts.kept = @ \union {m}]
      BY <2>2 DEF Settles
    <3>2. b.hot.msgs \subseteq Msgs /\ b.receipts.kept \subseteq Msgs
      BY DEF Bundle
    <3>3. QED  BY <3>1, <3>2 DEF Bundle
  <2>3. CASE c \in Notices(b)
    BY <2>3 DEF Notices, Bundle, Known
  <2>4. CASE c \in Checkpoints(b)
    BY <2>4 DEF Checkpoints, Bundle, Known
  <2>5. QED  BY <1>1, <2>1, <2>2, <2>3, <2>4
<1>2. PICK c \in Accepts(b) \union Settles(b) \union Notices(b)
                   \union Checkpoints(b) \union {b} :
        g \in {[r EXCEPT !.receipts.expired = @ \ Known(r)] : r \in Retained(c)}
  BY DEF Mutations
<1>3. PICK r \in Retained(c) : g = [r EXCEPT !.receipts.expired = @ \ Known(r)]
  BY <1>2
<1>4. /\ r \in Bundle
      /\ Cardinality(r.receipts.kept) <= ReceiptLimit
      /\ Cardinality(r.receipts.expired) <= ExpiredLimit
  BY <1>1, <1>2, <1>3 DEF Retained, Bundle, KeepsWithin
<1>5. /\ g \in Bundle /\ g.receipts.kept = r.receipts.kept
      /\ g.receipts.expired \subseteq r.receipts.expired
      /\ r.receipts.expired \subseteq Msgs
  BY <1>3, <1>4 DEF Bundle
<1>6. /\ Cardinality(g.receipts.expired) <= Cardinality(r.receipts.expired)
      /\ Cardinality(g.receipts.expired) \in Nat /\ Cardinality(r.receipts.expired) \in Nat
  BY <1>5, FS_Subset, FS_CardinalityType
<1>7. QED  BY <1>4, <1>5, <1>6

LEMMA EmptyGoal ==
  /\ EmptyBundle \in Bundle
  /\ Cardinality(EmptyBundle.receipts.kept) <= ReceiptLimit
  /\ Cardinality(EmptyBundle.receipts.expired) <= ExpiredLimit
BY FS_EmptySet DEF EmptyBundle, Bundle

LEMMA InitIInv == Init => IInv
<1> SUFFICES ASSUME Init PROVE IInv
  OBVIOUS
<1>1. EmptyBundle \in Bundle /\ ~NeedsHotWork(EmptyBundle)
  BY DEF EmptyBundle, Bundle, NeedsHotWork
<1>2. live \in Directory /\ Effective(live) = EmptyBundle
  BY <1>1, EffectiveFacts DEF Init, Directory
<1>3. TypeOK
  <2>1. pc = [mutate |-> "idle", rebuild |-> "idle"]
    BY DEF Init, Procs
  <2>2. Cardinality(goal.receipts.kept) <= ReceiptLimit /\ Cardinality(goal.receipts.expired) <= ExpiredLimit
    BY EmptyGoal DEF Init
  <2>3. at \in [Procs -> 1..Len(Files) + 1] /\ own \in [Procs -> BOOLEAN]
    BY FilesFacts DEF Init
  <2>4. /\ index \in [marker: BOOLEAN, ready: BOOLEAN]
        /\ pc \in [mutate: {"idle"}, rebuild: {"idle"}]
    BY <2>1 DEF Init
  <2>5. QED  BY <1>1, <1>2, <2>2, <2>3, <2>4 DEF Init, TypeOK
<1>4. Undisturbed
  BY <1>1, <1>2, FilesFacts
     DEF Init, Undisturbed, StepsOK, CommitOK, VersionsOK, MarksOK, RebuildOK,
         MarkerCovers, Settled, Atomic, Behind, Committing, Procs
<1>5. QED  BY <1>3, <1>4 DEF IInv

(* The end of a call keeps its variables' types.                           *)
LEMMA LeavesTypes ==
  ASSUME TypeOK, NEW p \in Procs, Leaves(p)
  PROVE  /\ pc' \in [mutate: {"idle", "recover", "recovered", "loaded", "mark",
                             "publish", "commit", "rename", "settle", "unmark", "undo"},
                     rebuild: {"idle", "recover", "recovered", "loaded", "unready",
                               "write", "ready"}]
         /\ at' \in [Procs -> 1..Len(Files) + 1] /\ own' \in [Procs -> BOOLEAN]
         /\ goal' \in Bundle
         /\ Cardinality(goal'.receipts.kept) <= ReceiptLimit
         /\ Cardinality(goal'.receipts.expired) <= ExpiredLimit
         /\ mu' \in {"free", "mutate", "rebuild"} /\ active' \in BOOLEAN
BY EmptyGoal, FilesFacts DEF TypeOK, Leaves, Procs

LEMMA LoadTypes ==
  ASSUME TypeOK, NEW p \in Procs,
         StartLoad(p) \/ (Loads(p) /\ UNCHANGED <<at, own>>)
  PROVE  /\ pc' \in [mutate: {"idle", "recover", "recovered", "loaded", "mark",
                             "publish", "commit", "rename", "settle", "unmark", "undo"},
                     rebuild: {"idle", "recover", "recovered", "loaded", "unready",
                               "write", "ready"}]
         /\ at' \in [Procs -> 1..Len(Files) + 1] /\ own' \in [Procs -> BOOLEAN]
         /\ active' \in BOOLEAN /\ promised' \subseteq Bundle
<1>1. live.docs \in Bundle /\ live.commit \in BOOLEAN /\ NeedsHotWork(live.docs) \in BOOLEAN
  BY DEF TypeOK, Directory, NeedsHotWork
<1>2. QED
  BY <1>1, FilesFacts DEF TypeOK, StartLoad, Loads, Goes, Procs

LEMMA DiskTypes ==
  ASSUME TypeOK, NEW d \in Directory, Does(d) \/ Syncs \/ UNCHANGED disk
  PROVE  live' \in Directory /\ crashable' \subseteq Directory
BY DEF TypeOK, Does, Syncs, disk

(* Types of the mutation's steps.                                          *)
LEMMA MutationTypeStep ==
  ASSUME TypeOK,
         \/ BeginMutation \/ Mutate \/ MarkHot \/ MarkFails
         \/ Publish \/ StageFails \/ CommitSync \/ Rename \/ RenameFails \/ Undo
         \/ Unlink \/ Settle \/ SettleFails \/ Unmark
  PROVE  TypeOK'
<1> USE FilesFacts DEF Procs
<1>0. live \in Directory /\ goal \in Bundle
  BY DEF TypeOK
<1>1. CASE BeginMutation
  <2>1. StartLoad("mutate") /\ UNCHANGED <<disk, marks, goal, mu, history>>
    BY <1>1 DEF BeginMutation
  <2>2. QED  BY <2>1, LoadTypes, DiskTypes, <1>0 DEF TypeOK, disk, marks, history
<1>2. CASE Mutate
  <2>1. PICK b \in Mutations(live.docs) :
          goal' = b /\ Goes("mutate", IF NeedsHotWork(b) THEN "mark" ELSE "publish")
    BY <1>2 DEF Mutate
  <2>2. live.docs \in Bundle
    BY <1>0 DEF Directory
  <2>3. /\ b \in Bundle /\ Cardinality(b.receipts.kept) <= ReceiptLimit
        /\ Cardinality(b.receipts.expired) <= ExpiredLimit
    BY <2>2, MutationTypes
  <2>4. QED  BY <1>2, <2>1, <2>3 DEF Mutate, TypeOK, Goes, disk, marks, history
<1>3. CASE MarkHot
  BY <1>3 DEF MarkHot, TypeOK, Goes, MarksDurably, disk, history
<1>4. CASE MarkFails
  BY <1>4, LeavesTypes DEF MarkFails, TypeOK, Marks, disk, marks, history
<1>5. CASE Publish
  <2>1. Published(live, goal) \in Directory
    BY <1>0, DocumentTypes
  <2>2. live' \in Directory /\ crashable' \subseteq Directory
    BY <1>5, <2>1, DiskTypes DEF Publish
  <2>3. QED  BY <1>5, <2>2 DEF Publish, TypeOK, Goes, marks
<1>6. CASE StageFails
  BY <1>6, LeavesTypes DEF StageFails, TypeOK, disk, marks, history
<1>7. CASE CommitSync
  BY <1>7 DEF CommitSync, TypeOK, Syncs, marks, history
<1>8. CASE Rename
  <2>1. Renamed(live, Files[at.mutate]) \in Directory
    BY <1>8, <1>0, DocumentTypes DEF Rename, TypeOK
  <2>2. live' \in Directory /\ crashable' \subseteq Directory
    BY <1>8, <2>1, DiskTypes DEF Rename
  <2>3. QED  BY <1>8, <2>2 DEF Rename, TypeOK, Moves, marks, history
<1>9. CASE RenameFails
  BY <1>9 DEF RenameFails, TypeOK, disk, marks, history
<1>10. CASE Undo
  <2>1. live' \in Directory /\ crashable' \subseteq Directory /\ disturbed' \in BOOLEAN
    <3>1. CASE at.mutate <= Len(Files)
      <4>1. Discarded(live, Files[at.mutate]) \in Directory
        BY <3>1, <1>0, DocumentTypes DEF TypeOK
      <4>2. QED  BY <1>10, <3>1, <4>1, <1>0, DiskTypes DEF Undo, TypeOK, disk
    <3>2. CASE ~(at.mutate <= Len(Files))
      BY <1>10, <3>2, <1>0 DEF Undo, TypeOK, disk
    <3>3. QED  BY <3>1, <3>2
  <2>2. CASE at.mutate <= Len(Files)
    BY <1>10, <2>1, <2>2 DEF Undo, TypeOK, Moves, marks
  <2>3. CASE ~(at.mutate <= Len(Files))
    BY <1>10, <2>1, <2>3, LeavesTypes DEF Undo, TypeOK, marks
  <2>4. QED  BY <2>2, <2>3
<1>11. CASE Unlink
  <2>1. live' \in Directory /\ crashable' \subseteq Directory
    BY <1>11, <1>0, DocumentTypes, DiskTypes DEF Unlink
  <2>2. QED  BY <1>11, <2>1 DEF Unlink, TypeOK, Goes, marks, history
<1>12. CASE Settle
  <2>1. live' \in Directory /\ crashable' \subseteq Directory
    BY <1>12, <1>0, DiskTypes DEF Settle
  <2>2. CASE NeedsHotWork(goal)
    BY <1>12, <2>1, <2>2, LeavesTypes DEF Settle, TypeOK, marks, history
  <2>3. CASE ~NeedsHotWork(goal)
    BY <1>12, <2>1, <2>3 DEF Settle, TypeOK, Goes, marks, history
  <2>4. QED  BY <2>2, <2>3
<1>13. CASE SettleFails
  BY <1>13, LeavesTypes DEF SettleFails, TypeOK, disk, marks, history
<1>14. CASE Unmark
  BY <1>14, LeavesTypes DEF Unmark, TypeOK, Marks, disk, marks, history
<1>15. QED
  BY <1>1, <1>2, <1>3, <1>4, <1>5, <1>6, <1>7, <1>8, <1>9, <1>10, <1>11, <1>12,
     <1>13, <1>14

LEMMA RebuildTypeStep ==
  ASSUME TypeOK,
         \/ BeginRebuild \/ RemoveMarker \/ RemoveReady
         \/ WriteMarker \/ WriteReady \/ RebuildFails \/ Crash
  PROVE  TypeOK'
<1> USE FilesFacts DEF Procs
<1>0. live \in Directory
  BY DEF TypeOK
<1>1. CASE BeginRebuild
  <2>1. /\ StartLoad("rebuild") /\ mu' = "rebuild" /\ disturbed' \in BOOLEAN
        /\ UNCHANGED <<disk, marks, goal, torn>>
    BY <1>1, <1>0 DEF BeginRebuild, Committing, TypeOK, Directory
  <2>2. QED  BY <2>1, LoadTypes DEF TypeOK, disk, marks
<1>2. CASE RemoveMarker
  BY <1>2 DEF RemoveMarker, TypeOK, Marks, Goes, disk, history
<1>3. CASE RemoveReady
  BY <1>3 DEF RemoveReady, TypeOK, Marks, Goes, disk, history
<1>4. CASE WriteMarker
  <2>1. /\ index' \in [marker: BOOLEAN, ready: BOOLEAN]
        /\ indexCrashable' \subseteq [marker: BOOLEAN, ready: BOOLEAN]
    <3>1. CASE active
      <4>1. MarksDurably([index EXCEPT !.marker = TRUE])
        BY <1>4, <3>1 DEF WriteMarker
      <4>2. QED  BY <4>1 DEF TypeOK, MarksDurably
    <3>2. CASE ~active
      <4>1. index' = index /\ indexCrashable' = indexCrashable
        BY <1>4, <3>2 DEF WriteMarker, marks
      <4>2. QED  BY <4>1 DEF TypeOK
    <3>3. QED  BY <3>1, <3>2
  <2>2. QED  BY <1>4, <2>1 DEF WriteMarker, TypeOK, Goes, disk, history
<1>5. CASE WriteReady
  BY <1>5, LeavesTypes DEF WriteReady, TypeOK, MarksDurably, disk
<1>6. CASE RebuildFails
  BY <1>6, LeavesTypes DEF RebuildFails, TypeOK, disk, marks
<1>7. CASE Crash
  <2>1. PICK d \in crashable, x \in indexCrashable :
          /\ live' = IF d.commit THEN d ELSE [d EXCEPT !.temps = d.docs, !.left = {}]
          /\ crashable' = {live'} /\ index' = x /\ indexCrashable' = {x}
    BY <1>7 DEF Crash
  <2>2. live' \in Directory
    BY <2>1 DEF TypeOK, Directory
  <2>3. torn' \in BOOLEAN
    BY <1>7 DEF Crash, Rebuilding, TypeOK
  <2>4. pc' = [mutate |-> "idle", rebuild |-> "idle"]
    BY <1>7 DEF Crash
  <2>5. /\ at' \in [Procs -> 1..Len(Files) + 1] /\ own' \in [Procs -> BOOLEAN]
        /\ pc' \in [mutate: {"idle"}, rebuild: {"idle"}]
    BY <1>7, <2>4 DEF Crash
  <2>6. index' \in [marker: BOOLEAN, ready: BOOLEAN]
    BY <2>1 DEF TypeOK
  <2>7. QED  BY <1>7, <2>1, <2>2, <2>3, <2>5, <2>6, EmptyGoal DEF Crash, TypeOK
<1>8. QED  BY <1>1, <1>2, <1>3, <1>4, <1>5, <1>6, <1>7

LEMMA LoadTypeStep ==
  ASSUME TypeOK, NEW p \in Procs,
         RecoverFile(p) \/ RecoverUnlink(p) \/ RecoverSync(p) \/ LoadFails(p)
  PROVE  TypeOK'
<1> USE FilesFacts DEF Procs
<1>0. live \in Directory
  BY DEF TypeOK
<1>1. CASE RecoverFile(p)
  <2>1. live' \in Directory /\ crashable' \subseteq Directory
    BY <1>1, <1>0, DocumentTypes, DiskTypes DEF RecoverFile, TypeOK
  <2>2. QED  BY <1>1, <2>1 DEF RecoverFile, TypeOK, Moves, marks, history
<1>2. CASE RecoverUnlink(p)
  <2>1. live' \in Directory /\ crashable' \subseteq Directory
    BY <1>2, <1>0, DocumentTypes, DiskTypes DEF RecoverUnlink
  <2>2. QED  BY <1>2, <2>1 DEF RecoverUnlink, TypeOK, Goes, marks, history
<1>3. CASE RecoverSync(p)
  BY <1>3, <1>0, LoadTypes, DiskTypes DEF RecoverSync, TypeOK, marks, history
<1>4. CASE LoadFails(p)
  BY <1>4, LeavesTypes DEF LoadFails, TypeOK, disk, marks, history
<1>5. QED  BY <1>1, <1>2, <1>3, <1>4

(* commit.json appears: from here on a crash may find the goal.            *)
LEMMA PublishStep ==
  ASSUME TypeOK, TypeOK', Undisturbed, Publish, ~disturbed'
  PROVE  Undisturbed'
<1>1. live \in Directory /\ goal \in Bundle
  BY DEF TypeOK
<1>2. live' = Published(live, goal) /\ crashable' = crashable \union {live'}
  BY DEF Publish, Does
<1>3. live'.commit /\ Effective(live') = goal
  BY <1>1, <1>2, EffectiveFacts DEF Published, Directory
<1>4. /\ pc' = [pc EXCEPT !.mutate = "commit"] /\ pc.mutate = "publish"
      /\ goal' = goal /\ index' = index /\ indexCrashable' = indexCrashable
      /\ mu' = mu /\ active' = active /\ torn' = torn
      /\ promised' = promised \union {goal}
      /\ pc.rebuild # "recover" /\ ~disturbed
  BY DEF Publish, Goes, marks
<1>5. pc'.mutate = "commit" /\ pc'.rebuild = pc.rebuild
  BY <1>4 DEF TypeOK
<1>6. StepsOK'
  BY <1>2, <1>3, <1>4, <1>5 DEF StepsOK, Procs
<1>7. CommitOK'
  BY <1>3, <1>4, <1>5 DEF CommitOK, Committing
<1>8. VersionsOK'
  BY <1>1, <1>2, <1>3, <1>4, <1>5
     DEF Undisturbed, VersionsOK, Atomic, Published, FileNames, Directory
<1>9. MarksOK'
  BY <1>4, <1>5 DEF Undisturbed, MarksOK
<1>10. RebuildOK' /\ MarkerCovers'
  BY <1>2, <1>3, <1>4, <1>5
     DEF Undisturbed, MarksOK, RebuildOK, MarkerCovers, Rebuilding, TypeOK
<1>11. QED  BY <1>6, <1>7, <1>8, <1>9, <1>10 DEF Undisturbed

(* A rename of a document commit.json names changes no version.            *)
LEMMA RenamedDoes ==
  ASSUME TypeOK, StepsOK, NEW f \in live.left, Does(Renamed(live, f))
  PROVE  /\ live'.left = live.left \ {f} /\ live'.commit = live.commit /\ live.commit
         /\ Effective(live') = Effective(live)
         /\ crashable' = crashable \union {live'}
BY EffectiveFacts DEF TypeOK, StepsOK, Does, Renamed, Directory

LEMMA RenameStep ==
  ASSUME TypeOK, TypeOK', Undisturbed, Rename, ~disturbed'
  PROVE  Undisturbed'
<1>0. /\ pc.mutate = "rename" /\ at.mutate \in 1 .. 4
      /\ Files[at.mutate] \in live.left /\ Does(Renamed(live, Files[at.mutate]))
      /\ pc' = pc /\ at' = [at EXCEPT !.mutate = @ + 1]
  <2>1. at.mutate \in 1 .. 4
    BY FilesFacts DEF Rename, TypeOK, Procs
  <2>2. pc' = [pc EXCEPT !.mutate = "rename"] /\ pc.mutate = "rename"
    BY DEF Rename, Moves
  <2>3. pc' = pc
    BY <2>2 DEF TypeOK
  <2>4. QED  BY <2>1, <2>3 DEF Rename, Moves
<1>1. UNCHANGED <<index, indexCrashable, own, goal, active, mu, torn, disturbed,
                  promised>>
  BY DEF Rename, marks, history
<1>2. /\ live'.left = live.left \ {Files[at.mutate]} /\ live'.commit = live.commit
      /\ live.commit /\ Effective(live') = Effective(live)
      /\ crashable' = crashable \union {live'}
  BY <1>0, <1>1, RenamedDoes DEF Undisturbed
<1>3. pc.rebuild # "recover"
  BY <1>0, <1>1 DEF Undisturbed, CommitOK, Committing
<1>4. at'.mutate = at.mutate + 1
  BY <1>0, <1>1 DEF TypeOK, Procs
<1>5. StepsOK'
  BY <1>0, <1>1, <1>2, <1>3, <1>4, FilesFacts DEF Undisturbed, StepsOK, Behind, Procs
<1>6. CommitOK'
  BY <1>0, <1>1, <1>2, <1>3 DEF Undisturbed, CommitOK, Committing
<1>7. VersionsOK'
  BY <1>0, <1>1, <1>2 DEF Undisturbed, VersionsOK, StepsOK, Atomic, Settled
<1>8. MarksOK'
  BY <1>0, <1>1 DEF Undisturbed, MarksOK
<1>9. RebuildOK' /\ MarkerCovers'
  BY <1>0, <1>1, <1>2
     DEF Undisturbed, StepsOK, RebuildOK, MarkerCovers, Rebuilding
<1>10. QED  BY <1>5, <1>6, <1>7, <1>8, <1>9 DEF Undisturbed

(* Before the undo discards anything, hot's temporary is still there: the  *)
(* fsync of commit.json came before hot's rename.                          *)
LEMMA RenameFailsStep ==
  ASSUME TypeOK, TypeOK', Undisturbed, RenameFails, ~disturbed'
  PROVE  Undisturbed'
<1>1. /\ pc.mutate \in {"commit", "rename"}
      /\ pc' = [pc EXCEPT !.mutate = "undo"] /\ at' = [at EXCEPT !.mutate = 1]
      /\ UNCHANGED <<live, crashable, index, indexCrashable, own, goal, active, mu,
                     torn, disturbed, promised>>
  BY DEF RenameFails, disk, marks, history
<1>2. /\ pc'.mutate = "undo" /\ pc'.rebuild = pc.rebuild
      /\ at'.mutate = 1 /\ at'.rebuild = at.rebuild
  BY <1>1 DEF TypeOK, Procs
<1>3. StepsOK' /\ CommitOK'
  BY <1>1, <1>2
     DEF Undisturbed, StepsOK, CommitOK, Committing, Behind, Procs
<1>4. VersionsOK'
  <2>1. Settled \/ "hot" \in live.left
    BY <1>1, FilesFacts DEF Undisturbed, VersionsOK
  <2>2. QED
    BY <1>1, <1>2, <2>1 DEF Undisturbed, VersionsOK, Atomic, Settled
<1>5. MarksOK' /\ RebuildOK' /\ MarkerCovers'
  BY <1>1, <1>2 DEF Undisturbed, MarksOK, RebuildOK, MarkerCovers, Rebuilding
<1>6. QED  BY <1>3, <1>4, <1>5 DEF Undisturbed

(* Removing commit.json after the last rename changes no version.          *)
LEMMA UnlinkStep ==
  ASSUME TypeOK, TypeOK', Undisturbed, Unlink, ~disturbed'
  PROVE  Undisturbed'
<1>1. /\ pc.mutate = "rename" /\ at.mutate > 4
      /\ live' = Unlinked(live) /\ crashable' = crashable \union {live'}
      /\ pc' = [pc EXCEPT !.mutate = "settle"]
      /\ UNCHANGED <<index, indexCrashable, at, own, goal, active, mu, torn, disturbed,
                     promised>>
  BY FilesFacts DEF Unlink, Does, Goes, marks, history
<1>2. pc'.mutate = "settle" /\ pc'.rebuild = pc.rebuild
  BY <1>1 DEF TypeOK
<1>3. live.left = {}
  <2>1. \A f \in FileNames : f \notin live.left
    BY <1>1, FilesFacts DEF Undisturbed, StepsOK, Behind, TypeOK, Procs
  <2>2. QED  BY <2>1 DEF TypeOK, Directory
<1>4. live'.left = {} /\ ~live'.commit /\ Effective(live') = Effective(live)
  BY <1>1, <1>3, EffectiveFacts DEF TypeOK, Unlinked, Directory
<1>5. pc.rebuild # "recover"
  BY <1>1 DEF Undisturbed, CommitOK, Committing
<1>6. StepsOK'
  BY <1>1, <1>2, <1>4, <1>5 DEF StepsOK, Procs
<1>7. CommitOK'
  BY <1>1, <1>2, <1>4 DEF Undisturbed, CommitOK, Committing
<1>8. VersionsOK'
  BY <1>1, <1>2, <1>4 DEF Undisturbed, StepsOK, VersionsOK, Atomic, Settled
<1>9. MarksOK' /\ RebuildOK' /\ MarkerCovers'
  BY <1>1, <1>2, <1>4
     DEF Undisturbed, StepsOK, MarksOK, RebuildOK, MarkerCovers, Rebuilding
<1>10. QED  BY <1>6, <1>7, <1>8, <1>9 DEF Undisturbed

(* The next process finds one of the versions a crash could leave.         *)
LEMMA CrashStep ==
  ASSUME TypeOK, TypeOK', Undisturbed, Crash, ~disturbed'
  PROVE  Undisturbed'
<1>1. PICK d \in crashable, x \in indexCrashable :
        /\ live' = IF d.commit THEN d ELSE [d EXCEPT !.temps = d.docs, !.left = {}]
        /\ crashable' = {live'} /\ index' = x /\ indexCrashable' = {x}
  BY DEF Crash
<1>2. d \in Directory
  BY DEF TypeOK
<1>3. Effective(live') = Effective(d) /\ (live'.left # {} => live'.commit)
  <2>1. CASE d.commit
    BY <1>1, <2>1
  <2>2. CASE ~d.commit
    BY <1>1, <1>2, <2>2 DEF Effective, Directory, FileNames
  <2>3. QED  BY <2>1, <2>2
<1>4. /\ pc'.mutate = "idle" /\ pc'.rebuild = "idle"
      /\ goal' = EmptyBundle /\ mu' = "free" /\ torn' = (torn \/ Rebuilding)
      /\ disturbed' = disturbed /\ promised' = promised
  BY DEF Crash, Procs
<1>5. StepsOK' /\ CommitOK' /\ MarksOK' /\ RebuildOK'
  BY <1>1, <1>3, <1>4 DEF StepsOK, CommitOK, Committing, MarksOK, RebuildOK, Procs
<1>6. VersionsOK'
  BY <1>1, <1>3, <1>4 DEF Undisturbed, VersionsOK, Atomic, Settled
<1>7. MarkerCovers'
  BY <1>1, <1>3, <1>4 DEF Undisturbed, MarkerCovers, Rebuilding
<1>8. QED  BY <1>5, <1>6, <1>7 DEF Undisturbed

(* A recovery renames what is left in the same order.                      *)
LEMMA RecoverFileStep ==
  ASSUME TypeOK, TypeOK', Undisturbed, NEW p \in Procs, RecoverFile(p), ~disturbed'
  PROVE  Undisturbed'
<1>1. /\ pc[p] = "recover" /\ at[p] \in 1 .. 4
      /\ pc' = pc /\ at' = [at EXCEPT ![p] = @ + 1]
      /\ UNCHANGED <<index, indexCrashable, own, goal, active, mu, torn, disturbed,
                     promised>>
  BY FilesFacts DEF RecoverFile, Moves, marks, history, TypeOK, Procs
<1>2. DEFINE f == Files[at[p]]
<1>3. own[p] /\ Behind(live, at[p])
  BY <1>1 DEF Undisturbed, StepsOK
<1>4. /\ live'.left = live.left \ {f} /\ live'.commit = live.commit
      /\ Effective(live') = Effective(live)
      /\ crashable' = crashable \union {live'}
  <2>1. CASE f \in live.left
    <3>1. Does(Renamed(live, f))
      BY <1>3, <2>1 DEF RecoverFile
    <3>2. QED  BY <2>1, <3>1, RenamedDoes DEF Undisturbed
  <2>2. CASE f \notin live.left
    <3>1. live' = live /\ crashable' = crashable
      BY <1>3, <2>2 DEF RecoverFile, disk
    <3>2. QED
      BY <2>2, <3>1 DEF Undisturbed, StepsOK, TypeOK, Directory
  <2>3. QED  BY <2>1, <2>2
<1>5. StepsOK'
  <2>1. \A n \in 1 .. 5 : Behind(live, n) => Behind(live', n)
    BY <1>4 DEF Behind
  <2>2. Behind(live', at[p] + 1)
    BY <1>1, <1>3, <1>4, FilesFacts DEF Behind
  <2>3. \A q \in Procs : at'[q] = IF q = p THEN at[p] + 1 ELSE at[q]
    BY <1>1 DEF TypeOK
  <2>4. \A q \in Procs : at[q] \in 1 .. 5
    BY FilesFacts DEF TypeOK
  <2>5. ASSUME NEW q \in Procs, pc[q] = "recover"
        PROVE  own[q] /\ Behind(live', at'[q])
    BY <1>3, <2>1, <2>2, <2>3, <2>4, <2>5 DEF Undisturbed, StepsOK
  <2>6. ASSUME pc.mutate = "rename" PROVE Behind(live', at'.mutate)
    BY <1>1, <2>1, <2>2, <2>3, <2>4, <2>6 DEF Undisturbed, StepsOK, Procs
  <2>7. live' \in crashable' /\ (live'.left # {} => live'.commit)
    BY <1>4 DEF Undisturbed, StepsOK
  <2>8. QED  BY <1>1, <2>5, <2>6, <2>7 DEF StepsOK
<1>6. CommitOK' /\ MarksOK'
  BY <1>1, <1>4 DEF Undisturbed, CommitOK, Committing, MarksOK
<1>7. VersionsOK'
  BY <1>1, <1>4
     DEF Undisturbed, CommitOK, Committing, VersionsOK, StepsOK, Atomic, Settled, Procs
<1>8. RebuildOK' /\ MarkerCovers'
  BY <1>1, <1>4 DEF Undisturbed, StepsOK, RebuildOK, MarkerCovers, Rebuilding
<1>9. QED  BY <1>5, <1>6, <1>7, <1>8 DEF Undisturbed

(* After its last rename, a recovery removes commit.json.                  *)
LEMMA RecoverUnlinkStep ==
  ASSUME TypeOK, TypeOK', Undisturbed, NEW p \in Procs, RecoverUnlink(p), ~disturbed'
  PROVE  Undisturbed'
<1>1. /\ pc[p] = "recover" /\ at[p] > 4
      /\ live' = Unlinked(live) /\ crashable' = crashable \union {live'}
      /\ pc' = [pc EXCEPT ![p] = "recovered"]
      /\ at' = [at EXCEPT ![p] = 1] /\ own' = [own EXCEPT ![p] = FALSE]
  BY FilesFacts DEF RecoverUnlink, Does, Goes
<1>2. UNCHANGED <<index, indexCrashable, goal, active, mu, torn, disturbed, promised>>
  BY DEF RecoverUnlink, marks, history
<1>3. /\ pc'[p] = "recovered"
      /\ \A q \in Procs \ {p} : pc'[q] = pc[q] /\ at'[q] = at[q] /\ own'[q] = own[q]
  BY <1>1 DEF TypeOK, Procs
<1>4. live.left = {}
  <2>1. Behind(live, at[p]) /\ at[p] \in 1 .. 5
    BY <1>1, FilesFacts DEF Undisturbed, StepsOK, TypeOK
  <2>2. \A f \in FileNames : f \notin live.left
    BY <1>1, <2>1, FilesFacts DEF Behind
  <2>3. QED  BY <2>2 DEF TypeOK, Directory
<1>5. live'.left = {} /\ ~live'.commit /\ Effective(live') = Effective(live)
  BY <1>1, <1>4, EffectiveFacts DEF TypeOK, Unlinked, Directory
<1>6. ~Committing
  BY <1>1, <1>3 DEF Undisturbed, CommitOK, Committing, Procs
<1>7. StepsOK'
  <2>1. \A n \in 1 .. 5 : Behind(live', n)
    BY <1>5 DEF Behind
  <2>2. \A q \in Procs : at'[q] \in 1 .. 5
    BY FilesFacts DEF TypeOK
  <2>3. QED
    BY <1>1, <1>3, <1>5, <2>1, <2>2 DEF Undisturbed, StepsOK, Procs
<1>8. CommitOK'
  BY <1>2, <1>3, <1>5, <1>6 DEF Undisturbed, CommitOK, Committing, Procs
<1>9. VersionsOK'
  BY <1>1, <1>2, <1>3, <1>5, <1>6
     DEF Undisturbed, StepsOK, VersionsOK, Committing, Atomic, Settled, Procs
<1>10. MarksOK'
  BY <1>1, <1>2, <1>3 DEF Undisturbed, MarksOK, Procs
<1>11. RebuildOK' /\ MarkerCovers'
  BY <1>1, <1>2, <1>3, <1>5
     DEF Undisturbed, StepsOK, RebuildOK, MarkerCovers, Rebuilding, Procs
<1>12. QED  BY <1>7, <1>8, <1>9, <1>10, <1>11 DEF Undisturbed

(* The steps of a mutation.                                                *)
LEMMA MutationStep ==
  ASSUME TypeOK, TypeOK', Undisturbed, ~disturbed',
         \/ BeginMutation \/ Mutate \/ MarkHot \/ MarkFails
         \/ StageFails \/ CommitSync \/ Undo \/ Settle \/ SettleFails
         \/ Unmark \/ Publish \/ Rename \/ RenameFails \/ Unlink
  PROVE  Undisturbed'
<1> USE FilesFacts, EffectiveFacts
        DEF Undisturbed, StepsOK, CommitOK, VersionsOK, MarksOK, RebuildOK,
            MarkerCovers, Settled, Atomic, Behind, Committing, Rebuilding, TypeOK,
            Procs
<1>1. CASE BeginMutation
  BY <1>1 DEF BeginMutation, StartLoad, Loads, Goes, disk, marks, history
<1>2. CASE Mutate
  BY <1>2 DEF Mutate, Goes, disk, marks, history
<1>3. CASE MarkHot
  BY <1>3 DEF MarkHot, MarksDurably, Goes, disk, history
<1>4. CASE MarkFails
  BY <1>4 DEF MarkFails, Marks, Leaves, disk, marks, history
<1>5. CASE StageFails
  BY <1>5 DEF StageFails, Leaves, disk, marks, history
<1>6. CASE CommitSync
  BY <1>6 DEF CommitSync, Syncs, marks, history
<1>7. CASE Undo
  BY <1>7 DEF Undo, Does, Moves, Leaves, disk, marks
<1>8. CASE Settle
  BY <1>8 DEF Settle, Syncs, Leaves, Goes, marks, history
<1>9. CASE SettleFails
  BY <1>9 DEF SettleFails, Leaves, disk, marks, history
<1>10. CASE Unmark
  BY <1>10 DEF Unmark, Marks, Leaves, disk, marks, history
<1>11. QED
  BY <1>1, <1>2, <1>3, <1>4, <1>5, <1>6, <1>7, <1>8, <1>9, <1>10,
     PublishStep, RenameStep, RenameFailsStep, UnlinkStep

(* The steps of the rebuild of the index, and a crash.                     *)
LEMMA RebuildStep ==
  ASSUME TypeOK, TypeOK', Undisturbed, ~disturbed',
         \/ BeginRebuild \/ RemoveMarker \/ RemoveReady \/ WriteMarker
         \/ WriteReady \/ RebuildFails \/ Crash
  PROVE  Undisturbed'
<1> USE FilesFacts, EffectiveFacts
        DEF Undisturbed, StepsOK, CommitOK, VersionsOK, MarksOK, RebuildOK,
            MarkerCovers, Settled, Atomic, Behind, Committing, Rebuilding, TypeOK,
            Procs
<1>1. CASE BeginRebuild
  BY <1>1 DEF BeginRebuild, StartLoad, Loads, Goes, disk, marks
<1>2. CASE RemoveMarker
  BY <1>2 DEF RemoveMarker, Marks, Goes, disk, history
<1>3. CASE RemoveReady
  BY <1>3 DEF RemoveReady, Marks, Goes, disk, history
<1>4. CASE WriteMarker
  BY <1>4 DEF WriteMarker, MarksDurably, Goes, disk, marks, history
<1>5. CASE WriteReady
  BY <1>5 DEF WriteReady, MarksDurably, Leaves, disk
<1>6. CASE RebuildFails
  BY <1>6 DEF RebuildFails, Leaves, disk, marks
<1>7. QED
  BY <1>1, <1>2, <1>3, <1>4, <1>5, <1>6, CrashStep

(* The steps of a load, the mutation's or the rebuild's.                  *)
LEMMA LoadStep ==
  ASSUME TypeOK, TypeOK', Undisturbed, ~disturbed', NEW p \in Procs,
         \/ RecoverSync(p) \/ LoadFails(p) \/ RecoverFile(p)
         \/ RecoverUnlink(p)
  PROVE  Undisturbed'
<1> USE FilesFacts, EffectiveFacts
        DEF Undisturbed, StepsOK, CommitOK, VersionsOK, MarksOK, RebuildOK,
            MarkerCovers, Settled, Atomic, Behind, Committing, Rebuilding, TypeOK,
            Procs
<1>1. CASE RecoverSync(p)
  BY <1>1 DEF RecoverSync, Loads, Syncs, Goes, marks, history
<1>2. CASE LoadFails(p)
  BY <1>2 DEF LoadFails, Leaves, disk, marks, history
<1>3. QED
  BY <1>1, <1>2, RecoverFileStep, RecoverUnlinkStep

(* What is disturbed stays so.                                             *)
LEMMA StaysDisturbed == TypeOK /\ Next /\ disturbed => disturbed'
<1> SUFFICES ASSUME TypeOK, Next, disturbed PROVE disturbed'
  OBVIOUS
<1> USE DEF history
<1>1. CASE \/ BeginMutation \/ Mutate \/ MarkHot \/ MarkFails \/ StageFails \/ CommitSync
          \/ Rename \/ RenameFails \/ Unlink \/ Settle \/ SettleFails \/ Unmark
  BY <1>1 DEF BeginMutation, Mutate, MarkHot, MarkFails, StageFails, CommitSync,
              Rename, RenameFails, Unlink, Settle, SettleFails, Unmark
<1>2. CASE \/ Publish \/ BeginRebuild \/ RemoveMarker \/ RemoveReady \/ WriteMarker
          \/ WriteReady \/ RebuildFails \/ Crash
  BY <1>2 DEF Publish, BeginRebuild, RemoveMarker, RemoveReady, WriteMarker,
              WriteReady, RebuildFails, Crash
<1>3. CASE Undo
  BY <1>3 DEF Undo
<1>4. CASE \E p \in Procs :
            RecoverFile(p) \/ RecoverUnlink(p) \/ RecoverSync(p) \/ LoadFails(p)
  BY <1>4 DEF RecoverFile, RecoverUnlink, RecoverSync, LoadFails
<1>5. QED  BY <1>1, <1>2, <1>3, <1>4 DEF Next

THEOREM StepIInv == IInv /\ [Next]_vars => IInv'
<1> SUFFICES ASSUME IInv, [Next]_vars PROVE IInv'
  OBVIOUS
<1>1. TypeOK /\ (~disturbed => Undisturbed)
  BY DEF IInv
<1>2. CASE Next
  <2>1. TypeOK'
    BY <1>1, <1>2, MutationTypeStep, RebuildTypeStep, LoadTypeStep DEF Next
  <2>2. ASSUME ~disturbed' PROVE Undisturbed'
    <3>1. Undisturbed
      BY <1>1, <1>2, <2>2, StaysDisturbed
    <3>2. QED
      BY <1>1, <1>2, <2>1, <2>2, <3>1, MutationStep, RebuildStep, LoadStep DEF Next
  <2>3. QED  BY <2>1, <2>2 DEF IInv
<1>3. CASE UNCHANGED vars
  BY <1>1, <1>3
     DEF vars, disk, marks, history, IInv, TypeOK, Undisturbed, StepsOK, CommitOK,
         VersionsOK, MarksOK, RebuildOK, MarkerCovers, Settled, Atomic, Behind,
         Committing, Rebuilding
<1>4. QED  BY <1>2, <1>3

THEOREM SpecIInv == Spec => []IInv
BY InitIInv, StepIInv, PTL DEF Spec

(* Type correctness; in it, that what a mutation commits keeps within the  *)
(* limits of the retention (prepareResourceMailboxDocuments).              *)
THEOREM SpecTypeOK == Spec => []TypeOK
<1>1. IInv => TypeOK
  BY DEF IInv
<1>2. QED  BY <1>1, SpecIInv, PTL

(* Whatever moment the process or the machine dies at, the next load finds *)
(* the documents of exactly one version, the last acknowledged one or that *)
(* of a mutation that ran or failed behind its commit.json, as long as no  *)
(* rebuild of the index recovers the bundle while a mutation commits it    *)
(* and no failed commit loses its temporaries.                             *)
THEOREM SpecDurable == Spec => []Durable
<1>1. IInv => Durable
  BY DEF IInv, Durable, Undisturbed, VersionsOK
<1>2. QED  BY <1>1, SpecIInv, PTL

(* Whatever moment the process or the machine dies at, a bundle with work  *)
(* for the poller has its marker or the index asks to be rebuilt, with the *)
(* exceptions MarkerCovers names.                                          *)
THEOREM SpecMarkerCovers == Spec => []MarkerCovers
<1>1. IInv => MarkerCovers
  BY DEF IInv, MarkerCovers, Undisturbed
<1>2. QED  BY <1>1, SpecIInv, PTL

=============================================================================
