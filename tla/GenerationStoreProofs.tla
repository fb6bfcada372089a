----------------------- MODULE GenerationStoreProofs -----------------------
(* The inductive invariant of GenerationStore and what follows from it.    *)
EXTENDS GenerationStore, TLAPS

\* Whatever memory or an acknowledgement speaks of is on disk.
HeldOnDisk ==
  \A g \in GenIds :
    acked[g] > 0 \/ rt[g] # NoRecord => InCurrent(g) \/ HasManifest(g)

\* Nothing that can still become the manifest is older than the last ack.
FreshRecords ==
  \A g \in GenIds :
    /\ InCurrent(g) /\ ~HasManifest(g) => current.ver >= acked[g]
    /\ rt[g] # NoRecord => rt[g].id = g /\ rt[g].ver >= acked[g]
    /\ HasManifest(g) => manifests[g].ver >= acked[g]

\* The lock holder's retirement has both files of its generation.
RetireCallsOK ==
  \A g \in GenIds :
    /\ retire[g] # RetireIdle => rt[g] # NoRecord /\ retire[g].rec.id = g
    /\ retire[g].stage = "removing" => InCurrent(g) /\ HasManifest(g)

\* A List in progress has seen, or will find in the directory, every
\* generation saved before it began.
ScanOK ==
  /\ scan.pc = "check" =>
       \A g \in scan.before : g = scan.cur \/ HasManifest(g)
  /\ scan.pc = "dir" =>
       \A g \in scan.before : g \in scan.out \/ HasManifest(g)
  /\ scan.pc = "done" => scan.before \subseteq scan.out

\* The flag of a retired runtime is backed by a manifest.
RetiredOK ==
  \A g \in GenIds :
    g \in retired \/ retire[g].stage = "removed" => HasManifest(g)

\* Numbers grow: the used ones have a largest, and the one being allocated
\* is above them until the record that takes it is visible.
NumbersOK ==
  /\ \E m \in UsedNumbers : \A n \in UsedNumbers : m >= n
  /\ allocated # 0 =>
       Visible = NoRecord /\ \A n \in UsedNumbers : n < allocated
  /\ \A g \in GenIds :
       rt[g] # NoRecord /\ InCurrent(g) => rt[g].num = current.num
  /\ CurrentIsNewest

IInv ==
  /\ TypeOK /\ HeldOnDisk /\ FreshRecords /\ RetireCallsOK /\ RetiredOK
  /\ NumbersOK /\ ScanOK

-----------------------------------------------------------------------------
USE NoReasonAssumption, NoRecordAssumption, MaxVersionAssumption

\* An update and a retirement keep a record a record of its generation.
LEMMA UpdatedRecord ==
  ASSUME NEW r \in Record, NEW reason \in Reasons \union {NoReason}
  PROVE  /\ Updated(r, reason) \in Record
         /\ Updated(r, reason).id = r.id
         /\ Updated(r, reason).ver = r.ver + 1
BY DEF Record, Updated

LEMMA ReasonedRecord ==
  ASSUME NEW r \in Record, NEW reason \in Reasons \union {NoReason}
  PROVE  /\ [r EXCEPT !.reason = reason] \in Record
         /\ [r EXCEPT !.reason = reason].id = r.id
         /\ [r EXCEPT !.reason = reason].ver = r.ver
         /\ [r EXCEPT !.reason = reason].num = r.num
BY DEF Record

LEMMA InitIInv == Init => IInv
<1> SUFFICES ASSUME Init PROVE IInv
  OBVIOUS
<1>1. /\ Visible = NoRecord /\ UsedNumbers = {0}
      /\ \A g \in GenIds : ~InCurrent(g) /\ ~HasManifest(g)
  BY DEF Init, Visible, UsedNumbers, InCurrent, HasManifest
<1>2. TypeOK
  BY DEF Init, TypeOK, RetireCalls, RetireIdle, ScanIdle
<1>3. HeldOnDisk /\ FreshRecords /\ RetireCallsOK /\ RetiredOK
  BY <1>1 DEF Init, HeldOnDisk, FreshRecords, RetireCallsOK, RetiredOK,
              RetireIdle
<1>4. NumbersOK
  BY <1>1 DEF Init, NumbersOK, CurrentIsNewest
<1>5. ScanOK
  BY DEF Init, ScanOK, ScanIdle
<1>6. QED  BY <1>2, <1>3, <1>4, <1>5 DEF IInv

\* While the files do not change, neither does what the readers see of them.
LEMMA FilesSame ==
  ASSUME UNCHANGED files
  PROVE  /\ Visible' = Visible /\ UsedNumbers' = UsedNumbers
         /\ current' = current /\ manifests' = manifests
         /\ \A g \in GenIds : /\ InCurrent(g)' <=> InCurrent(g)
                              /\ HasManifest(g)' <=> HasManifest(g)
BY DEF files, Visible, UsedNumbers, InCurrent, HasManifest

\* What "visible" means of the two files.
LEMMA VisibleFacts ==
  ASSUME TypeOK
  PROVE  /\ Visible # NoRecord =>
              /\ Visible = current /\ Visible \in Record
              /\ InCurrent(Visible.id) /\ ~HasManifest(Visible.id)
         /\ \A g \in GenIds : InCurrent(g) /\ ~HasManifest(g) =>
              /\ Visible # NoRecord /\ Visible = current
              /\ current \in Record /\ current.id = g
BY DEF TypeOK, Visible, InCurrent, HasManifest, Record

\* NextGeneration returns a number above every used one.
LEMMA NextNumberFresh ==
  ASSUME TypeOK, NumbersOK
  PROVE  NextNumber \in Nat \ {0} /\ \A n \in UsedNumbers : n < NextNumber
<1>1. PICK m \in UsedNumbers : \A n \in UsedNumbers : m >= n
  BY DEF NumbersOK
<1>2. UsedNumbers \subseteq Nat
  BY DEF UsedNumbers, TypeOK, Record, Visible, HasManifest
<1>3. /\ Max(UsedNumbers) \in UsedNumbers
      /\ \A n \in UsedNumbers : Max(UsedNumbers) >= n
  BY <1>1 DEF Max
<1>4. ASSUME NEW x \in UsedNumbers, \A n \in UsedNumbers : x >= n
      PROVE  1 + x \in Nat \ {0} /\ \A n \in UsedNumbers : n < 1 + x
  BY <1>2, <1>4
<1>5. QED  BY <1>3, <1>4 DEF NextNumber

\* The steps that only touch memory.
LEMMA CreateNumberIInv ==
  ASSUME IInv, CreateNumber
  PROVE  IInv'
<1> USE DEF IInv
<1>1. NextNumber \in Nat \ {0} /\ \A n \in UsedNumbers : n < NextNumber
  BY NextNumberFresh
<1>2. UNCHANGED <<files, rt, retired, retire, acked, scan>>
  BY DEF CreateNumber, files
<1>3. TypeOK'
  BY <1>1, <1>2 DEF CreateNumber, TypeOK, files
<1>4. HeldOnDisk' /\ FreshRecords'
  BY <1>2, FilesSame DEF HeldOnDisk, FreshRecords
<1>5. RetireCallsOK' /\ RetiredOK'
  BY <1>2, FilesSame DEF RetireCallsOK, RetiredOK, RetireIdle
<1>6. ScanOK'
  BY <1>2, FilesSame DEF ScanOK, TypeOK
<1>7. NumbersOK'
  BY <1>1, <1>2, FilesSame DEF CreateNumber, NumbersOK, CurrentIsNewest
<1>8. QED  BY <1>3, <1>4, <1>5, <1>6, <1>7

LEMMA CreateFailsIInv ==
  ASSUME IInv, CreateFails
  PROVE  IInv'
<1> USE DEF IInv
<1>1. UNCHANGED <<files, acked>>
  BY DEF CreateFails
<1>2. TypeOK'
  BY <1>1 DEF CreateFails, TypeOK, files, RetireCalls, RetireIdle, ScanIdle
<1>3. HeldOnDisk' /\ FreshRecords'
  BY <1>1, FilesSame DEF CreateFails, HeldOnDisk, FreshRecords, TypeOK
<1>4. RetireCallsOK' /\ RetiredOK'
  BY <1>1, FilesSame DEF CreateFails, RetireCallsOK, RetiredOK, TypeOK, RetireCalls,
                   RetireIdle
<1>5. ScanOK'
  BY <1>1, FilesSame DEF CreateFails, ScanOK, TypeOK, ScanIdle
<1>6. NumbersOK'
  BY <1>1, FilesSame DEF CreateFails, NumbersOK, CurrentIsNewest, TypeOK
<1>7. QED  BY <1>2, <1>3, <1>4, <1>5, <1>6

LEMMA EnsureRuntimeIInv ==
  ASSUME IInv, NEW g \in GenIds, EnsureRuntime(g)
  PROVE  IInv'
<1> USE DEF IInv
<1>1. UNCHANGED <<files, retired, retire, allocated, acked, scan>>
  BY DEF EnsureRuntime, files
<1>2. /\ current \in Record /\ InCurrent(g) /\ ~HasManifest(g)
      /\ current.id = g /\ rt' = [rt EXCEPT ![g] = current]
  BY VisibleFacts DEF EnsureRuntime
<1>3. TypeOK'
  BY <1>1, <1>2 DEF TypeOK, files
<1>4. HeldOnDisk' /\ FreshRecords'
  BY <1>1, <1>2, FilesSame DEF HeldOnDisk, FreshRecords, TypeOK
<1>5. RetireCallsOK' /\ RetiredOK'
  BY <1>1, <1>2, FilesSame
     DEF RetireCallsOK, RetiredOK, TypeOK, RetireIdle
<1>6. ScanOK'
  BY <1>1, FilesSame DEF ScanOK, TypeOK
<1>7. NumbersOK'
  BY <1>1, <1>2, FilesSame DEF NumbersOK, CurrentIsNewest, TypeOK
<1>8. QED  BY <1>3, <1>4, <1>5, <1>6, <1>7

LEMMA RetireSnapshotIInv ==
  ASSUME IInv, NEW g \in GenIds, NEW reason \in Reasons,
         RetireSnapshot(g, reason)
  PROVE  IInv'
<1> USE DEF IInv
<1> DEFINE rec == [rt[g] EXCEPT !.reason = reason]
<1>1. UNCHANGED <<files, rt, retired, allocated, acked, scan>>
  BY DEF RetireSnapshot, files
<1>2. rt[g] # NoRecord /\ rt[g] \in Record /\ rt[g].id = g
  BY DEF RetireSnapshot, TypeOK, FreshRecords
<1>3. rec \in Record /\ rec.id = g
  BY <1>2, ReasonedRecord
<1>4. retire' = [retire EXCEPT ![g] = [stage |-> "asked", rec |-> rec]]
  BY DEF RetireSnapshot
<1> HIDE DEF rec
<1>5. TypeOK'
  BY <1>1, <1>3, <1>4 DEF TypeOK, files, RetireCalls
<1>6. HeldOnDisk' /\ FreshRecords'
  BY <1>1, FilesSame DEF HeldOnDisk, FreshRecords, TypeOK
<1>7. RetireCallsOK' /\ RetiredOK'
  BY <1>1, <1>2, <1>3, <1>4, FilesSame
     DEF RetireCallsOK, RetiredOK, TypeOK, RetireIdle
<1>8. ScanOK'
  BY <1>1, FilesSame DEF ScanOK, TypeOK
<1>9. NumbersOK'
  BY <1>1, FilesSame DEF NumbersOK, CurrentIsNewest, TypeOK
<1>10. QED  BY <1>5, <1>6, <1>7, <1>8, <1>9

LEMMA RetireRepeatIInv ==
  ASSUME IInv, NEW g \in GenIds, RetireRepeat(g)
  PROVE  IInv'
<1> USE DEF IInv
<1>1. UNCHANGED <<files, acked>>
  BY DEF RetireRepeat
<1>2. TypeOK'
  BY <1>1 DEF RetireRepeat, TypeOK, files, RetireCalls, RetireIdle, ScanIdle
<1>3. HeldOnDisk' /\ FreshRecords'
  BY <1>1, FilesSame DEF RetireRepeat, HeldOnDisk, FreshRecords, TypeOK
<1>4. RetireCallsOK' /\ RetiredOK'
  BY <1>1, FilesSame DEF RetireRepeat, RetireCallsOK, RetiredOK, TypeOK, RetireCalls,
                   RetireIdle
<1>5. ScanOK'
  BY <1>1, FilesSame DEF RetireRepeat, ScanOK, TypeOK, ScanIdle
<1>6. NumbersOK'
  BY <1>1, FilesSame DEF RetireRepeat, NumbersOK, CurrentIsNewest, TypeOK
<1>7. QED  BY <1>2, <1>3, <1>4, <1>5, <1>6

LEMMA RetireFailsIInv ==
  ASSUME IInv, NEW g \in GenIds, RetireFails(g)
  PROVE  IInv'
<1> USE DEF IInv
<1>1. UNCHANGED <<files, acked>>
  BY DEF RetireFails
<1>2. TypeOK'
  BY <1>1 DEF RetireFails, TypeOK, files, RetireCalls, RetireIdle, ScanIdle
<1>3. HeldOnDisk' /\ FreshRecords'
  BY <1>1, FilesSame DEF RetireFails, HeldOnDisk, FreshRecords, TypeOK
<1>4. RetireCallsOK' /\ RetiredOK'
  BY <1>1, FilesSame DEF RetireFails, RetireCallsOK, RetiredOK, TypeOK, RetireCalls,
                   RetireIdle
<1>5. ScanOK'
  BY <1>1, FilesSame DEF RetireFails, ScanOK, TypeOK, ScanIdle
<1>6. NumbersOK'
  BY <1>1, FilesSame DEF RetireFails, NumbersOK, CurrentIsNewest, TypeOK
<1>7. QED  BY <1>2, <1>3, <1>4, <1>5, <1>6

LEMMA RetirePublishIInv ==
  ASSUME IInv, NEW g \in GenIds, RetirePublish(g)
  PROVE  IInv'
<1> USE DEF IInv
<1> DEFINE rec == [rt[g] EXCEPT !.reason = retire[g].rec.reason]
<1>1. UNCHANGED <<files, allocated, acked, scan>>
  BY DEF RetirePublish, files
<1>2. /\ rt[g] # NoRecord /\ rt[g] \in Record /\ rt[g].id = g
      /\ retire[g].rec \in Record /\ HasManifest(g)
  BY DEF RetirePublish, TypeOK, RetireCalls, FreshRecords, RetireCallsOK,
         RetireIdle, RetiredOK
<1>3. retire[g].rec.reason \in Reasons \union {NoReason}
  BY <1>2 DEF Record
<1>4. rec \in Record /\ rec.id = g /\ rec.ver = rt[g].ver /\ rec.num = rt[g].num
  BY <1>2, <1>3, ReasonedRecord
<1>5. /\ rt' = [rt EXCEPT ![g] = rec] /\ retired' = retired \union {g}
      /\ retire' = [retire EXCEPT ![g] = RetireIdle]
  BY DEF RetirePublish
<1> HIDE DEF rec
<1>6. TypeOK'
  BY <1>1, <1>4, <1>5 DEF TypeOK, files, RetireCalls
<1>7. HeldOnDisk' /\ FreshRecords'
  BY <1>1, <1>2, <1>4, <1>5, FilesSame DEF HeldOnDisk, FreshRecords, TypeOK
<1>8. RetireCallsOK' /\ RetiredOK'
  BY <1>1, <1>2, <1>4, <1>5, FilesSame, NoRecordAssumption
     DEF RetireCallsOK, RetiredOK, TypeOK, RetireIdle
<1>9. ScanOK'
  BY <1>1, FilesSame DEF ScanOK, TypeOK
<1>10. NumbersOK'
  BY <1>1, <1>2, <1>4, <1>5, FilesSame DEF NumbersOK, CurrentIsNewest, TypeOK
<1>11. QED  BY <1>6, <1>7, <1>8, <1>9, <1>10

LEMMA ScanCurrentIInv ==
  ASSUME IInv, ScanCurrent
  PROVE  IInv'
<1> USE DEF IInv
<1>1. UNCHANGED <<files, rt, retired, retire, allocated, acked>>
  BY DEF ScanCurrent, files
<1>2. /\ scan'.pc = "check" /\ scan'.out = {}
      /\ scan'.cur = (IF current = NoRecord THEN NoRecord ELSE current.id)
      /\ scan'.before = {g \in GenIds : acked[g] > 0}
  BY DEF ScanCurrent
<1>3. scan'.cur \in GenIds \union {NoRecord}
  BY <1>2 DEF TypeOK, Record
<1>4. TypeOK'
  BY <1>1, <1>3 DEF ScanCurrent, TypeOK, files
<1>5. HeldOnDisk' /\ FreshRecords'
  BY <1>1, FilesSame DEF HeldOnDisk, FreshRecords, TypeOK
<1>6. RetireCallsOK' /\ RetiredOK'
  BY <1>1, FilesSame DEF RetireCallsOK, RetiredOK, TypeOK, RetireIdle
<1>7. ASSUME NEW g \in GenIds, acked[g] > 0
      PROVE  g = scan'.cur \/ HasManifest(g)'
  BY <1>1, <1>2, <1>7, FilesSame DEF HeldOnDisk, InCurrent
<1>8. ScanOK'
  BY <1>2, <1>7 DEF ScanOK
<1>9. NumbersOK'
  BY <1>1, FilesSame DEF NumbersOK, CurrentIsNewest, TypeOK
<1>10. QED  BY <1>4, <1>5, <1>6, <1>8, <1>9

LEMMA ScanCheckIInv ==
  ASSUME IInv, ScanCheck
  PROVE  IInv'
<1> USE DEF IInv
<1>1. UNCHANGED <<files, acked>>
  BY DEF ScanCheck
<1>2. TypeOK'
  BY <1>1 DEF ScanCheck, TypeOK, files, RetireCalls, RetireIdle, ScanIdle
<1>3. HeldOnDisk' /\ FreshRecords'
  BY <1>1, FilesSame DEF ScanCheck, HeldOnDisk, FreshRecords, TypeOK
<1>4. RetireCallsOK' /\ RetiredOK'
  BY <1>1, FilesSame DEF ScanCheck, RetireCallsOK, RetiredOK, TypeOK, RetireCalls,
                   RetireIdle
<1>5. ScanOK'
  BY <1>1, FilesSame DEF ScanCheck, ScanOK, TypeOK, ScanIdle
<1>6. NumbersOK'
  BY <1>1, FilesSame DEF ScanCheck, NumbersOK, CurrentIsNewest, TypeOK
<1>7. QED  BY <1>2, <1>3, <1>4, <1>5, <1>6

LEMMA ScanDirIInv ==
  ASSUME IInv, ScanDir
  PROVE  IInv'
<1> USE DEF IInv
<1>1. UNCHANGED <<files, acked>>
  BY DEF ScanDir
<1>2. TypeOK'
  BY <1>1 DEF ScanDir, TypeOK, files, RetireCalls, RetireIdle, ScanIdle
<1>3. HeldOnDisk' /\ FreshRecords'
  BY <1>1, FilesSame DEF ScanDir, HeldOnDisk, FreshRecords, TypeOK
<1>4. RetireCallsOK' /\ RetiredOK'
  BY <1>1, FilesSame DEF ScanDir, RetireCallsOK, RetiredOK, TypeOK, RetireCalls,
                   RetireIdle
<1>5. ScanOK'
  BY <1>1, FilesSame DEF ScanDir, ScanOK, TypeOK, ScanIdle
<1>6. NumbersOK'
  BY <1>1, FilesSame DEF ScanDir, NumbersOK, CurrentIsNewest, TypeOK
<1>7. QED  BY <1>2, <1>3, <1>4, <1>5, <1>6

LEMMA CrashIInv ==
  ASSUME IInv, Crash
  PROVE  IInv'
<1> USE DEF IInv
<1>1. UNCHANGED <<files, acked>>
  BY DEF Crash
<1>2. TypeOK'
  BY <1>1 DEF Crash, TypeOK, files, RetireCalls, RetireIdle, ScanIdle
<1>3. HeldOnDisk' /\ FreshRecords'
  BY <1>1, FilesSame DEF Crash, HeldOnDisk, FreshRecords, TypeOK
<1>4. RetireCallsOK' /\ RetiredOK'
  BY <1>1, FilesSame DEF Crash, RetireCallsOK, RetiredOK, TypeOK, RetireCalls,
                   RetireIdle
<1>5. ScanOK'
  BY <1>1, FilesSame DEF Crash, ScanOK, TypeOK, ScanIdle
<1>6. NumbersOK'
  BY <1>1, FilesSame DEF Crash, NumbersOK, CurrentIsNewest, TypeOK
<1>7. QED  BY <1>2, <1>3, <1>4, <1>5, <1>6

\* The steps that write files.
LEMMA SaveCurrentFiles ==
  ASSUME TypeOK, NEW rec \in Record, SaveCurrent(rec)
  PROVE  /\ current' = rec /\ manifests' = manifests
         /\ ~HasManifest(rec.id) /\ LockFree
         /\ Visible # NoRecord => SameIdentity(Visible, rec)
         /\ Visible' = rec
         /\ UsedNumbers' = UsedNumbers \union {rec.num}
         /\ \A h \in GenIds : /\ InCurrent(h)' <=> h = rec.id
                              /\ HasManifest(h)' <=> HasManifest(h)
                              /\ InCurrent(h) /\ h # rec.id => HasManifest(h)
<1>1. /\ current' = rec /\ manifests' = manifests
      /\ ~HasManifest(rec.id) /\ LockFree
      /\ Visible # NoRecord => SameIdentity(Visible, rec)
  BY DEF SaveCurrent
<1>2. rec # NoRecord /\ rec.id \in GenIds
  BY NoRecordAssumption DEF Record
<1>3. \A h \in GenIds : /\ InCurrent(h)' <=> h = rec.id
                        /\ HasManifest(h)' <=> HasManifest(h)
  BY <1>1, <1>2 DEF InCurrent, HasManifest
<1>4. Visible' = rec
  BY <1>1, <1>2 DEF Visible, HasManifest
<1>5. \A h \in GenIds : InCurrent(h) /\ h # rec.id => HasManifest(h)
  BY <1>1, VisibleFacts DEF SameIdentity
<1>6. UsedNumbers' = UsedNumbers \union {rec.num}
  <2>1. CASE Visible = NoRecord
    BY <1>1, <1>2, <1>4, <2>1 DEF UsedNumbers, HasManifest
  <2>2. CASE Visible # NoRecord
    BY <1>1, <1>2, <1>4, <2>2 DEF UsedNumbers, HasManifest, SameIdentity
  <2>3. QED  BY <2>1, <2>2
<1>7. QED  BY <1>1, <1>3, <1>4, <1>5, <1>6

LEMMA CreateSaveIInv ==
  ASSUME IInv, NEW g \in GenIds, CreateSave(g)
  PROVE  IInv'
<1> USE DEF IInv
<1> DEFINE rec == [id |-> g, num |-> allocated, ver |-> 1, reason |-> NoReason]
<1>1. rec \in Record /\ rec.id = g /\ rec.num = allocated /\ rec.ver = 1
  BY DEF CreateSave, TypeOK, Record
<1>2. /\ allocated # 0 /\ acked[g] = 0 /\ rt[g] = NoRecord /\ retire[g] = RetireIdle
      /\ SaveCurrent(rec) /\ allocated' = 0
      /\ retired' = retired /\ retire' = retire /\ scan' = scan
      /\ \/ rt' = [rt EXCEPT ![g] = rec] /\ acked' = [acked EXCEPT ![g] = 1]
         \/ rt' = rt /\ acked' = acked
  BY DEF CreateSave, Unused
<1> HIDE DEF rec
<1>3. TypeOK'
  BY <1>1, <1>2, SaveCurrentFiles DEF TypeOK
<1>4. HeldOnDisk'
  BY <1>1, <1>2, SaveCurrentFiles DEF HeldOnDisk, TypeOK
<1>5. FreshRecords'
  BY <1>1, <1>2, SaveCurrentFiles DEF FreshRecords, TypeOK
<1>6. RetireCallsOK' /\ RetiredOK'
  BY <1>1, <1>2, SaveCurrentFiles
     DEF RetireCallsOK, RetiredOK, TypeOK, RetireIdle, LockFree
<1>7. ScanOK'
  BY <1>1, <1>2, SaveCurrentFiles DEF ScanOK, TypeOK
<1>8. NumbersOK'
  <2>1. UsedNumbers' = UsedNumbers \union {allocated}
    BY <1>1, <1>2, SaveCurrentFiles
  <2>2. UsedNumbers \subseteq Nat /\ allocated \in Nat
    BY DEF UsedNumbers, TypeOK, Record, Visible, HasManifest
  <2>3. \A n \in UsedNumbers : n < allocated
    BY <1>2 DEF NumbersOK
  <2>4. \E m \in UsedNumbers' : \A n \in UsedNumbers' : m >= n
    BY <2>1, <2>2, <2>3
  <2>5. \A h \in GenIds :
          rt'[h] # NoRecord /\ InCurrent(h)' => rt'[h].num = current'.num
    BY <1>1, <1>2, SaveCurrentFiles DEF TypeOK
  <2>6. \A h \in GenIds : HasManifest(h) => manifests[h].num \in UsedNumbers
    BY DEF UsedNumbers
  <2>7. CurrentIsNewest'
    BY <1>1, <1>2, <2>3, <2>6, SaveCurrentFiles DEF CurrentIsNewest
  <2>8. QED  BY <1>2, <2>4, <2>5, <2>7 DEF NumbersOK
<1>9. QED  BY <1>3, <1>4, <1>5, <1>6, <1>7, <1>8

LEMMA MutateCurrentIInv ==
  ASSUME IInv, NEW g \in GenIds, NEW reason \in Reasons \union {NoReason},
         g \notin retired, Mutate(g, reason)
  PROVE  IInv'
<1> USE DEF IInv
<1> DEFINE rec == Updated(rt[g], reason)
<1>1. /\ rt[g] # NoRecord /\ rt[g] \in Record /\ rt[g].id = g
      /\ rt[g].ver \in Nat /\ acked[g] \in Nat /\ rt[g].ver >= acked[g]
  BY DEF Mutate, TypeOK, FreshRecords, Record
<1>2. rec \in Record /\ rec.id = g /\ rec.ver = rt[g].ver + 1 /\ rec.num = rt[g].num
  BY <1>1, UpdatedRecord DEF Updated
<1>3. /\ SaveCurrent(rec)
      /\ UNCHANGED <<retired, retire, allocated, scan>>
      /\ \/ rt' = [rt EXCEPT ![g] = rec] /\ acked' = [acked EXCEPT ![g] = rec.ver]
         \/ rt' = rt /\ acked' = acked
  BY DEF Mutate
<1> HIDE DEF rec
<1>4. TypeOK'
  BY <1>1, <1>2, <1>3, SaveCurrentFiles DEF TypeOK
<1>5. HeldOnDisk'
  BY <1>2, <1>3, SaveCurrentFiles DEF HeldOnDisk, TypeOK
<1>6. FreshRecords'
  BY <1>1, <1>2, <1>3, SaveCurrentFiles DEF FreshRecords, TypeOK, Record
<1>7. RetireCallsOK' /\ RetiredOK'
  BY <1>1, <1>2, <1>3, SaveCurrentFiles, NoRecordAssumption
     DEF RetireCallsOK, RetiredOK, TypeOK, RetireIdle, LockFree
<1>8. ScanOK'
  BY <1>2, <1>3, SaveCurrentFiles DEF ScanOK, TypeOK
<1>9. InCurrent(g) /\ Visible # NoRecord /\ Visible = current
  BY <1>1, <1>2, <1>3, SaveCurrentFiles, VisibleFacts DEF HeldOnDisk
<1>10. /\ rec.num = Visible.num /\ UsedNumbers' = UsedNumbers
       /\ allocated = 0 /\ allocated' = 0
  <2>1. rec.num = Visible.num
    BY <1>1, <1>2, <1>9 DEF NumbersOK
  <2>2. Visible.num \in UsedNumbers
    BY <1>9 DEF UsedNumbers
  <2>3. UsedNumbers' = UsedNumbers
    BY <1>2, <1>3, <2>1, <2>2, SaveCurrentFiles
  <2>4. QED  BY <1>3, <1>9, <2>1, <2>3 DEF NumbersOK
<1>11. CurrentIsNewest'
  BY <1>2, <1>3, <1>9, <1>10, SaveCurrentFiles DEF NumbersOK, CurrentIsNewest
<1>12. NumbersOK'
  BY <1>1, <1>2, <1>3, <1>9, <1>10, <1>11, SaveCurrentFiles
     DEF NumbersOK, TypeOK
<1>13. QED  BY <1>4, <1>5, <1>6, <1>7, <1>8, <1>12

\* A retired runtime finds its manifest, so SaveRetired changes no file.
LEMMA MutateRetiredIInv ==
  ASSUME IInv, NEW g \in GenIds, NEW reason \in Reasons \union {NoReason},
         g \in retired, Mutate(g, reason)
  PROVE  IInv'
<1> USE DEF IInv
<1> DEFINE rec == Updated(rt[g], reason)
<1>1. /\ rt[g] # NoRecord /\ rt[g] \in Record /\ rt[g].id = g
      /\ rt[g].ver \in Nat /\ acked[g] \in Nat /\ rt[g].ver >= acked[g]
  BY DEF Mutate, TypeOK, FreshRecords, Record
<1>2. rec \in Record /\ rec.id = g /\ rec.ver = rt[g].ver + 1 /\ rec.num = rt[g].num
  BY <1>1, UpdatedRecord DEF Updated
<1>3. HasManifest(g)
  BY DEF RetiredOK
<1>4. /\ SaveRetired(rec)
      /\ UNCHANGED <<retired, retire, allocated, scan>>
      /\ \/ rt' = [rt EXCEPT ![g] = rec] /\ acked' = [acked EXCEPT ![g] = rec.ver]
         \/ rt' = rt /\ acked' = acked
  BY DEF Mutate
<1> HIDE DEF rec
<1>5. UNCHANGED files /\ manifests[g] = rec
  BY <1>2, <1>3, <1>4 DEF SaveRetired, files, HasManifest, TypeOK
<1>6. TypeOK'
  BY <1>1, <1>2, <1>4, <1>5 DEF TypeOK, files
<1>7. HeldOnDisk'
  BY <1>3, <1>4, <1>5, FilesSame DEF HeldOnDisk, TypeOK
<1>8. FreshRecords'
  BY <1>1, <1>2, <1>3, <1>4, <1>5, FilesSame DEF FreshRecords, TypeOK, Record
<1>9. RetireCallsOK' /\ RetiredOK'
  BY <1>1, <1>2, <1>4, <1>5, FilesSame, NoRecordAssumption
     DEF RetireCallsOK, RetiredOK, TypeOK, RetireIdle
<1>10. ScanOK'
  BY <1>4, <1>5, FilesSame DEF ScanOK, TypeOK
<1>11. NumbersOK'
  BY <1>1, <1>2, <1>4, <1>5, FilesSame DEF NumbersOK, CurrentIsNewest, TypeOK
<1>12. QED  BY <1>6, <1>7, <1>8, <1>9, <1>10, <1>11

LEMMA RetireWriteIInv ==
  ASSUME IInv, NEW g \in GenIds, RetireWrite(g)
  PROVE  IInv'
<1> USE DEF IInv
<1>1. /\ retire[g] # RetireIdle /\ rt[g] # NoRecord /\ retire[g].rec.id = g
      /\ LockFree /\ ~HasManifest(g)
  BY DEF RetireWrite, RetireCallsOK, RetireIdle
<1>2. /\ Visible = current /\ current \in Record /\ current.id = g
      /\ InCurrent(g) /\ Visible # NoRecord
  BY <1>1, VisibleFacts DEF RetireWrite, SameIdentity
<1>3. /\ manifests' = [manifests EXCEPT ![g] = current]
      /\ UNCHANGED <<current, rt, retired, allocated, acked, scan>>
      /\ \/ retire' = [retire EXCEPT ![g].stage = "removing"]
         \/ retire' = [retire EXCEPT ![g] = RetireIdle]
  BY DEF RetireWrite
<1>4. \A h \in GenIds : /\ InCurrent(h)' <=> h = g
                        /\ HasManifest(h)' <=> h = g \/ HasManifest(h)
  BY <1>2, <1>3, NoRecordAssumption DEF InCurrent, HasManifest, TypeOK
<1>5. Visible' = NoRecord /\ UsedNumbers' = UsedNumbers
  <2>1. Visible' = NoRecord
    BY <1>2, <1>3, NoRecordAssumption DEF Visible, HasManifest, TypeOK
  <2>2. {manifests'[h].num : h \in {h \in GenIds : HasManifest(h)'}}
          = {manifests[h].num : h \in {h \in GenIds : HasManifest(h)}}
              \union {Visible.num}
    <3>1. /\ manifests'[g] = current
          /\ \A h \in GenIds : h # g => manifests'[h] = manifests[h]
      BY <1>3 DEF TypeOK
    <3>2. QED  BY <1>1, <1>2, <1>4, <3>1
  <2>3. QED  BY <1>2, <2>1, <2>2 DEF UsedNumbers
<1>6. \A h \in GenIds : /\ retire'[h] \in RetireCalls
                        /\ retire'[h].rec = retire[h].rec \/ retire'[h] = RetireIdle
                        /\ h # g => retire'[h] = retire[h]
                        /\ h = g => retire'[h].stage # "removed"
  BY <1>1, <1>3 DEF TypeOK, RetireCalls, RetireIdle
<1>7. TypeOK'
  BY <1>2, <1>3, <1>6 DEF TypeOK
<1>8. HeldOnDisk' /\ FreshRecords'
  <2>1. HeldOnDisk'
    BY <1>1, <1>2, <1>3, <1>4, VisibleFacts DEF HeldOnDisk
  <2>2. /\ manifests'[g] = current /\ current.ver >= acked[g]
        /\ \A h \in GenIds : h # g => manifests'[h] = manifests[h]
    BY <1>1, <1>2, <1>3 DEF TypeOK, FreshRecords
  <2>3. FreshRecords'
    BY <1>3, <1>4, <2>2 DEF FreshRecords
  <2>4. QED  BY <2>1, <2>3
<1>9. RetireCallsOK' /\ RetiredOK'
  BY <1>1, <1>2, <1>3, <1>4, <1>6
     DEF RetireCallsOK, RetiredOK, TypeOK, RetireIdle, LockFree
<1>10. ScanOK'
  BY <1>3, <1>4 DEF ScanOK, TypeOK
<1>11. NumbersOK'
  BY <1>2, <1>3, <1>4, <1>5 DEF NumbersOK, CurrentIsNewest, TypeOK
<1>12. QED  BY <1>7, <1>8, <1>9, <1>10, <1>11

LEMMA RetireRemoveIInv ==
  ASSUME IInv, NEW g \in GenIds, RetireRemove(g)
  PROVE  IInv'
<1> USE DEF IInv
<1>1. /\ InCurrent(g) /\ HasManifest(g) /\ retire[g] # RetireIdle
      /\ rt[g] # NoRecord /\ retire[g].rec.id = g
  BY DEF RetireRemove, RetireCallsOK, RetireIdle
<1>2. /\ UNCHANGED <<manifests, rt, retired, allocated, acked, scan>>
      /\ current' \in {current, NoRecord}
      /\ \/ retire' = [retire EXCEPT ![g].stage = "removed"]
         \/ retire' = [retire EXCEPT ![g] = RetireIdle]
  BY DEF RetireRemove
<1>3. \A h \in GenIds : /\ InCurrent(h) => h = g
                        /\ InCurrent(h)' => h = g
                        /\ HasManifest(h)' <=> HasManifest(h)
  BY <1>1, <1>2 DEF InCurrent, HasManifest
<1>4. Visible = NoRecord /\ Visible' = NoRecord /\ UsedNumbers' = UsedNumbers
  BY <1>1, <1>2 DEF Visible, InCurrent, HasManifest, UsedNumbers
<1>5. \A h \in GenIds : /\ retire'[h] \in RetireCalls
                        /\ retire'[h].rec = retire[h].rec \/ retire'[h] = RetireIdle
                        /\ h # g => retire'[h] = retire[h]
                        /\ h = g => retire'[h].stage # "removing"
  BY <1>1, <1>2 DEF TypeOK, RetireCalls, RetireIdle
<1>6. TypeOK'
  BY <1>2, <1>5 DEF TypeOK
<1>7. HeldOnDisk' /\ FreshRecords'
  BY <1>1, <1>2, <1>3 DEF HeldOnDisk, FreshRecords, TypeOK
<1>8. RetireCallsOK' /\ RetiredOK'
  BY <1>1, <1>2, <1>3, <1>5 DEF RetireCallsOK, RetiredOK, TypeOK, RetireIdle
<1>9. ScanOK'
  BY <1>2, <1>3 DEF ScanOK, TypeOK
<1>10. NumbersOK'
  BY <1>1, <1>2, <1>3, <1>4 DEF NumbersOK, CurrentIsNewest, InCurrent
<1>11. QED  BY <1>6, <1>7, <1>8, <1>9, <1>10

-----------------------------------------------------------------------------
LEMMA NextIInv == IInv /\ [Next]_vars => IInv'
<1> SUFFICES ASSUME IInv, [Next]_vars PROVE IInv'
  OBVIOUS
<1>1. CASE CreateNumber
  BY <1>1, CreateNumberIInv
<1>2. CASE CreateFails
  BY <1>2, CreateFailsIInv
<1>3. CASE \E g \in GenIds : GenStep(g)
  <2> PICK g \in GenIds : GenStep(g)
    BY <1>3
  <2>1. CASE CreateSave(g)
    BY <2>1, CreateSaveIInv
  <2>2. CASE EnsureRuntime(g)
    BY <2>2, EnsureRuntimeIInv
  <2>3. CASE \E reason \in Reasons \union {NoReason} : Mutate(g, reason)
    BY <2>3, MutateCurrentIInv, MutateRetiredIInv
  <2>4. CASE \E reason \in Reasons : RetireSnapshot(g, reason)
    BY <2>4, RetireSnapshotIInv
  <2>5. CASE RetireWrite(g)
    BY <2>5, RetireWriteIInv
  <2>6. CASE RetireRemove(g)
    BY <2>6, RetireRemoveIInv
  <2>7. CASE RetireRepeat(g)
    BY <2>7, RetireRepeatIInv
  <2>8. CASE RetireFails(g)
    BY <2>8, RetireFailsIInv
  <2>9. CASE RetirePublish(g)
    BY <2>9, RetirePublishIInv
  <2>10. QED
    BY <2>1, <2>2, <2>3, <2>4, <2>5, <2>6, <2>7, <2>8, <2>9 DEF GenStep
<1>4. CASE ScanCurrent
  BY <1>4, ScanCurrentIInv
<1>5. CASE ScanCheck
  BY <1>5, ScanCheckIInv
<1>6. CASE ScanDir
  BY <1>6, ScanDirIInv
<1>7. CASE Crash
  BY <1>7, CrashIInv
<1>8. CASE UNCHANGED vars
  BY <1>8, FilesSame
     DEF vars, memory, files, IInv, TypeOK, HeldOnDisk, FreshRecords,
         RetireCallsOK, RetiredOK, NumbersOK, CurrentIsNewest, ScanOK
<1>9. QED
  BY <1>1, <1>2, <1>3, <1>4, <1>5, <1>6, <1>7, <1>8 DEF Next

LEMMA Invariance == Spec => []IInv
<1>1. Init => IInv
  BY InitIInv
<1>2. IInv /\ [Next]_vars => IInv'
  BY NextIInv
<1>3. QED  BY <1>1, <1>2, PTL DEF Spec

\* Type correctness of the store and of the runtimes that use it.
THEOREM TypeCorrect == Spec => []TypeOK
<1>1. IInv => TypeOK
  BY DEF IInv
<1>2. QED  BY <1>1, Invariance, PTL

\* No generation that was ever saved is lost, for any number of generations,
\* runtimes, crashes and fsync errors.
THEOREM NeverLost == Spec => []NoGenerationLost
<1>1. IInv => NoGenerationLost
  BY DEF IInv, NoGenerationLost, HeldOnDisk
<1>2. QED  BY <1>1, Invariance, PTL

\* The manifest a retirement leaves is never older than an acknowledged save.
THEOREM HistoryFresh == Spec => []ManifestIsFresh
<1>1. IInv => ManifestIsFresh
  BY DEF IInv, ManifestIsFresh, FreshRecords
<1>2. QED  BY <1>1, Invariance, PTL

\* Generation numbers grow: the visible one is above every retired one.
THEOREM NumbersGrow == Spec => []CurrentIsNewest
<1>1. IInv => CurrentIsNewest
  BY DEF IInv, NumbersOK
<1>2. QED  BY <1>1, Invariance, PTL

\* A lock-free List misses no generation saved before it began.
THEOREM ScanComplete == Spec => []ScanMissesNothing
<1>1. IInv => ScanMissesNothing
  BY DEF IInv, ScanMissesNothing, ScanOK
<1>2. QED  BY <1>1, Invariance, PTL

\* Manifests are immutable and hide their generation from every writer.
THEOREM HistoryImmutable == Spec => ManifestImmutable /\ RetiredNeverRevived
<1> DEFINE Keep ==
      \A g \in GenIds : HasManifest(g) =>
        /\ manifests'[g] = manifests[g]
        /\ current' # current => current' = NoRecord \/ current'.id # g
<1>1. ASSUME IInv, NEW g \in GenIds, GenStep(g)
      PROVE  Keep
  <2>1. CASE CreateSave(g)
    BY <1>1, <2>1, SaveCurrentFiles DEF CreateSave, SaveCurrent, HasManifest
  <2>2. ASSUME NEW reason \in Reasons \union {NoReason}, Mutate(g, reason)
        PROVE  Keep
    <3>1. rt[g] \in Record /\ rt[g].id = g
      BY <1>1, <2>2 DEF IInv, TypeOK, FreshRecords, Mutate
    <3>2. Updated(rt[g], reason).id = g
      BY <3>1 DEF Updated
    <3>3. CASE g \in retired
      <4>1. /\ manifests[g] \in {NoRecord, Updated(rt[g], reason)}
            /\ manifests' = [manifests EXCEPT ![g] = Updated(rt[g], reason)]
            /\ current' = current
        BY <2>2, <3>2, <3>3 DEF Mutate, SaveRetired
      <4>2. QED  BY <4>1 DEF HasManifest
    <3>4. CASE g \notin retired
      BY <2>2, <3>2, <3>4 DEF Mutate, SaveCurrent
    <3>5. QED  BY <3>3, <3>4
  <2>3. CASE RetireWrite(g)
    BY <2>3 DEF RetireWrite
  <2>4. CASE RetireRemove(g)
    BY <2>4 DEF RetireRemove
  <2>5. CASE UNCHANGED files
    BY <2>5 DEF files
  <2>6. QED
    BY <1>1, <2>1, <2>2, <2>3, <2>4, <2>5
       DEF GenStep, EnsureRuntime, RetireSnapshot, RetireRepeat, RetireFails,
           RetirePublish
<1>2. ASSUME IInv, [Next]_vars
      PROVE  Keep
  <2>1. CASE UNCHANGED files
    BY <2>1 DEF files
  <2>2. QED
    BY <1>1, <1>2, <2>1
       DEF Next, vars, CreateNumber, CreateFails, ScanCurrent, ScanCheck,
           ScanDir, Crash
<1>3. Keep => /\ \A g \in GenIds : HasManifest(g) => manifests'[g] = manifests[g]
              /\ \A g \in GenIds : HasManifest(g) /\ current' # current =>
                   current' = NoRecord \/ current'.id # g
  OBVIOUS
<1> HIDE DEF Keep
<1>4. QED
  BY <1>2, <1>3, Invariance, PTL DEF Spec, ManifestImmutable, RetiredNeverRevived

=============================================================================
