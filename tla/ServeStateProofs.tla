--------------------------- MODULE ServeStateProofs ---------------------------
(* What holds of the notices of failed messages, of what users have read   *)
(* and of the directories of a Workspace, for any bounds.                  *)
EXTENDS TerminalNotices, ReadState, WorkspaceTree, FiniteSetTheorems, WellFoundedInduction, TLAPS

-----------------------------------------------------------------------------
(* Notices.                                                                *)

Texts == {"none", "en", "zh-CN"}
Steps == {"rest", "queue", "requeue", "route", "report", "mark", "mirror", "close", "remove"}
Receipts == {"none", "waiting", "accepted", "delivered", "terminal"}
Notices == {"none", "queued", "expired", "delivered", "cancelled", "undeliverable", "delivery_unknown"}

NoticeTypeOK ==
  /\ failed \in BOOLEAN /\ breaks \in Nat
  /\ receipt \in Receipts
  /\ op \in [status: Receipts, text: Texts]
  /\ target \in [registered: BOOLEAN, archived: BOOLEAN, language: {"en", "zh-CN"}]
  /\ notice \in [status: Notices, text: Texts]
  /\ told \in [times: Nat, verdict: Notices]
  /\ step \in [at: Steps, saw: Notices]

(* The mailbox of the target and what was told go together; what a pass    *)
(* has read of a verdict stays true; a pass that still acts on a receipt   *)
(* acts on one that is not final.                                          *)
NoticeInv ==
  /\ told.times = (IF notice.status = "none" THEN 0 ELSE 1)
  /\ notice.status \in Verdicts => told.verdict = notice.status
  /\ receipt = "accepted" \/ op.status = "accepted" => told.times = 1
  /\ receipt = "delivered" => told.verdict = "delivered" /\ notice.status \notin {"none", "queued"}
  /\ step.at \in {"report", "mark", "mirror"} => told.times = 1
  /\ step.saw \in Verdicts => told.verdict = step.saw /\ notice.status \notin {"none", "queued"}
  /\ step.at \in {"queue", "route", "report", "mark", "mirror", "close"} => receipt \notin Final

NIInv == NoticeTypeOK /\ NoticeInv

LEMMA NoticesInitInv == NoticesInit => NIInv
<1>1. NoticesInit => NoticeTypeOK
  <2> USE DEF NoticesInit, NoOp, Rest, Texts, Steps, Receipts, Notices
  <2>0. NoticesInit => failed \in BOOLEAN
    OBVIOUS
  <2>1. NoticesInit => receipt \in Receipts /\ breaks \in Nat
    OBVIOUS
  <2>2. NoticesInit => op \in [status: Receipts, text: Texts]
    OBVIOUS
  <2>3. NoticesInit => target \in [registered: BOOLEAN, archived: BOOLEAN, language: {"en", "zh-CN"}]
    OBVIOUS
  <2>4. NoticesInit => notice \in [status: Notices, text: Texts]
    OBVIOUS
  <2>5. NoticesInit => told \in [times: Nat, verdict: Notices] /\ step \in [at: Steps, saw: Notices]
    OBVIOUS
  <2>6. QED  BY <2>0, <2>1, <2>2, <2>3, <2>4, <2>5 DEF NoticeTypeOK
<1>2. NoticesInit => NoticeInv
  BY DEF NoticesInit, NoticeInv, NoOp, Rest, Verdicts, Final
<1>3. QED  BY <1>1, <1>2 DEF NIInv

LEMMA NoticesStep ==
  ASSUME NIInv, [NoticesNext]_noticeVars
  PROVE  NIInv' /\ (receipt = "delivered" => receipt' = "delivered")
<1> USE DEF NIInv, NoticeTypeOK, NoticeInv, NoOp, Rest, Verdicts, Final, Texts, Steps, Receipts, Notices
<1>1. CASE NoticeFails
  BY <1>1 DEF NoticeFails
<1>2. CASE NoticeBegins
  BY <1>2 DEF NoticeBegins, Ensured
<1>3. CASE Queues
  BY <1>3 DEF Queues, AppendUnique, FromGenerated
<1>4. CASE FindsNoWorkspace
  BY <1>4 DEF FindsNoWorkspace
<1>5. CASE Consults
  BY <1>5 DEF Consults
<1>6. CASE IsRefused
  BY <1>6 DEF IsRefused
<1>7. CASE FindsExpired
  BY <1>7 DEF FindsExpired
<1>8. CASE Tells
  BY <1>8 DEF Tells
<1>9. CASE Reports
  BY <1>9 DEF Reports
<1>10. CASE Marks
  BY <1>10 DEF Marks
<1>11. CASE Mirrors
  BY <1>11 DEF Mirrors, Mirrored
<1>12. CASE Closes
  BY <1>12 DEF Closes
<1>13. CASE Removes
  BY <1>13 DEF Removes
<1>14. CASE Breaks
  BY <1>14 DEF Breaks
<1>15. CASE NoticeEnds
  BY <1>15 DEF NoticeEnds
<1>16. CASE NoticeExpires
  BY <1>16 DEF NoticeExpires
<1>17. CASE TargetChanges
  <2>1. target' \in [registered: BOOLEAN, archived: BOOLEAN, language: {"en", "zh-CN"}]
    BY <1>17 DEF TargetChanges
  <2>2. UNCHANGED <<failed, receipt, op, notice, told, step, breaks>>
    BY <1>17 DEF TargetChanges
  <2>3. QED  BY <2>1, <2>2
<1>18. CASE UNCHANGED noticeVars
  BY <1>18 DEF noticeVars
<1>19. QED
  BY <1>1, <1>2, <1>3, <1>4, <1>5, <1>6, <1>7, <1>8, <1>9, <1>10, <1>11, <1>12, <1>13, <1>14, <1>15, <1>16, <1>17, <1>18 DEF NoticesNext, Pass

(* Types of the receipt, the outbox, the mailbox of the target and a pass. *)
THEOREM NoticesTypeOK == NoticesSpec => []NoticeTypeOK
<1>1. NIInv /\ [NoticesNext]_noticeVars => NIInv'
  BY NoticesStep
<1>2. NIInv => NoticeTypeOK
  BY DEF NIInv
<1>3. QED  BY NoticesInitInv, <1>1, <1>2, PTL DEF NoticesSpec

(* A sender is told of a failure at most once, a receipt that says so is   *)
(* borne out by the target's mailbox, and one that says delivered goes on  *)
(* saying so, for any number of crashes and failed writes.                 *)
THEOREM SpecNoticesTold == NoticesSpec => NoticesTold
<1>1. NIInv /\ [NoticesNext]_noticeVars => NIInv' /\ (receipt = "delivered" => receipt' = "delivered")
  BY NoticesStep
<1>2. NIInv => ReceiptIsTrue
  BY DEF NIInv, NoticeInv, ReceiptIsTrue
<1>3. NIInv' => ReceiptIsTrue'
  BY DEF NIInv, NoticeInv, ReceiptIsTrue
<1>4. NIInv /\ [NoticesNext]_noticeVars
        => [ReceiptIsTrue' /\ (receipt = "delivered" => receipt' = "delivered")]_noticeVars
  BY <1>1, <1>3
<1>5. QED  BY NoticesInitInv, <1>1, <1>4, PTL DEF NoticesSpec, NoticesTold

-----------------------------------------------------------------------------
(* The greatest of a bounded set of numbers.                               *)
LEMMA MaxFacts ==
  ASSUME NEW n \in Nat, NEW S \in SUBSET (0 .. n), S # {}
  PROVE  Max(S) \in S /\ \A y \in S : y <= Max(S)
<1> DEFINE T == {n - i : i \in S}
<1>0. \A i \in S : i \in Nat /\ n - i \in Nat
  OBVIOUS
<1>1. T \in SUBSET Nat /\ T # {}
  BY <1>0
<1>2. PICK x \in T : \A y \in T : <<y, x>> \notin OpToRel(<, Nat)
  <2>1. \E x \in T : \A y \in T : ~ (<<y, x>> \in OpToRel(<, Nat))
    BY <1>1, NatLessThanWellFounded, WFMin
  <2>2. QED  BY <2>1
<1>3. \A y \in T : x <= y
  <2>1. ASSUME NEW y \in T PROVE x <= y
    <3>1. x \in Nat /\ y \in Nat
      BY <1>1
    <3>2. ~ (y < x)
      BY <1>2, <3>1 DEF OpToRel
    <3>3. QED  BY <3>1, <3>2
  <2>2. QED  BY <2>1
<1>4. PICK i \in S : x = n - i
  OBVIOUS
<1>5. \A y \in S : i >= y
  <2>1. ASSUME NEW y \in S PROVE i >= y
    <3>1. n - y \in T /\ i \in Nat /\ y \in Nat
      OBVIOUS
    <3>2. n - i <= n - y
      BY <1>3, <1>4, <3>1
    <3>3. QED  BY <3>1, <3>2
  <2>2. QED  BY <2>1
<1>6. QED  BY <1>5 DEF Max

-----------------------------------------------------------------------------
(* The directories of a Workspace.                                         *)
USE TreeAssumption

Dir ==
  [project: 1 .. MaxProjects, task: 0 .. MaxTasks, home: Nat, place: {"open", "archive"},
   slug: Slugs, good: BOOLEAN, hidden: BOOLEAN]

TreeTypeOK ==
  /\ tree \in Seq(Dir) /\ treeFaults \in Nat
  /\ creating \in SUBSET [by: {"server", "cli"}, dir: Dir]

(* A Task lies in a directory of the Project whose number it has.          *)
Placed(x) ==
  IF x.home = 0 THEN x.task = 0
  ELSE /\ x.task # 0 /\ x.home \in Dirs
       /\ IsProject(x.home) /\ tree[x.home].project = x.project

(* The id of a staged directory is new, but for Tasks that were unreadable *)
(* when it was chosen.                                                     *)
Staged(x) ==
  IF x.home = 0 THEN \A d \in Dirs : IsProject(d) => tree[d].project # x.project
  ELSE \A d \in TasksIn(x.home) : tree[d].task = x.task => tree[d].hidden

TreeInv ==
  /\ \A d \in Dirs : Placed(tree[d]) /\ (~tree[d].good => tree[d].hidden)
  /\ \A a, b \in Dirs : IsProject(a) /\ IsProject(b) /\ tree[a].project = tree[b].project => a = b
  /\ \A a, b \in Dirs : a < b /\ tree[a].home = tree[b].home /\ tree[a].task = tree[b].task
                          => IsProject(a) \/ tree[a].hidden
  /\ \A c \in creating : Placed(c.dir) /\ Staged(c.dir) /\ c.dir.good

LEMMA TreeFacts ==
  ASSUME TreeTypeOK
  PROVE  Len(tree) \in Nat /\ Dirs = 1 .. Len(tree) /\ \A d \in Dirs : tree[d] \in Dir
BY DEF TreeTypeOK, Dirs

LEMMA TreeIsUnique == TreeTypeOK /\ TreeInv => UniqueIds
<1> SUFFICES ASSUME TreeTypeOK, TreeInv, NEW a \in Dirs, NEW b \in Dirs, a < b, Id(a) = Id(b)
             PROVE  ~IsProject(a) /\ tree[a].hidden
  BY DEF UniqueIds
<1>1. tree[a].project = tree[b].project /\ tree[a].task = tree[b].task
  BY DEF Id
<1>2. a # b
  BY TreeFacts
<1>3. ~IsProject(a) /\ ~IsProject(b)
  <2>1. IsProject(a) <=> IsProject(b)
    BY <1>1 DEF TreeInv, Placed, IsProject
  <2>2. QED  BY <1>1, <1>2, <2>1 DEF TreeInv
<1>4. tree[a].home = tree[b].home
  <2>1. /\ tree[a].home \in Dirs /\ IsProject(tree[a].home)
        /\ tree[tree[a].home].project = tree[a].project
    BY <1>3 DEF TreeInv, Placed, IsProject
  <2>2. /\ tree[b].home \in Dirs /\ IsProject(tree[b].home)
        /\ tree[tree[b].home].project = tree[b].project
    BY <1>3 DEF TreeInv, Placed, IsProject
  <2>3. QED  BY <1>1, <2>1, <2>2 DEF TreeInv
<1>5. QED  BY <1>1, <1>3, <1>4 DEF TreeInv

(* The number chosen for a Project is none that is taken, that for a Task  *)
(* none of a readable Task.                                                *)
LEMMA NextNumbers ==
  ASSUME TreeTypeOK
  PROVE  /\ NextProject \in Nat \ {0} /\ \A d \in Dirs : IsProject(d) => tree[d].project # NextProject
         /\ \A p \in Dirs : /\ NextTask(p) \in Nat \ {0}
                            /\ \A d \in TasksIn(p) : tree[d].good => tree[d].task # NextTask(p)
<1>1. NextProject \in Nat \ {0} /\ \A d \in Dirs : IsProject(d) => tree[d].project # NextProject
  <2> DEFINE S == {0} \cup {tree[d].project : d \in {x \in Dirs : IsProject(x)}}
  <2>1. S \in SUBSET (0 .. MaxProjects) /\ S # {}
    BY TreeFacts DEF Dir
  <2>2. Max(S) \in S /\ \A y \in S : y <= Max(S)
    <3> HIDE DEF S
    <3>1. QED  BY <2>1, MaxFacts
  <2>3. NextProject = Max(S) + 1
    BY DEF NextProject
  <2>4. \A d \in Dirs : IsProject(d) => tree[d].project \in S
    OBVIOUS
  <2> HIDE DEF S
  <2>5. \A y \in S : y \in Nat
    BY <2>1
  <2>6. Max(S) \in Nat
    BY <2>2, <2>5
  <2>7. QED  BY <2>2, <2>3, <2>4, <2>5, <2>6
<1>2. ASSUME NEW p \in Dirs
      PROVE  /\ NextTask(p) \in Nat \ {0}
             /\ \A d \in TasksIn(p) : tree[d].good => tree[d].task # NextTask(p)
  <2> DEFINE S == {0} \cup {tree[d].task : d \in {x \in TasksIn(p) : tree[x].good}}
  <2>1. S \in SUBSET (0 .. MaxTasks) /\ S # {}
    BY TreeFacts DEF Dir, TasksIn
  <2>2. Max(S) \in S /\ \A y \in S : y <= Max(S)
    <3> HIDE DEF S
    <3>1. QED  BY <2>1, MaxFacts
  <2>3. NextTask(p) = Max(S) + 1
    BY DEF NextTask
  <2>4. \A d \in TasksIn(p) : tree[d].good => tree[d].task \in S
    OBVIOUS
  <2> HIDE DEF S
  <2>5. \A y \in S : y \in Nat
    BY <2>1
  <2>6. Max(S) \in Nat
    BY <2>2, <2>5
  <2>7. QED  BY <2>2, <2>3, <2>4, <2>5, <2>6
<1>3. QED  BY <1>1, <1>2

LEMMA FindFacts ==
  \A id : \A p \in FindProject(id) : p \in Dirs /\ IsProject(p) /\ tree[p].project = id[1]
BY DEF FindProject, Unique, ProjectOf, Id

LEMMA BeginsStep ==
  ASSUME TreeTypeOK, TreeInv, NEW by \in {"server", "cli"}, NEW project, NEW task, NEW home \in Nat,
         Begins(by, project, task, home),
         \A x \in Dir : /\ x.project = project /\ x.task = task /\ x.home = home
                        => Placed(x) /\ Staged(x)
  PROVE  TreeTypeOK' /\ TreeInv'
<1>1. PICK slug \in Slugs :
        creating' = {[by |-> by, dir |-> [project |-> project, task |-> task, home |-> home, place |-> "open",
                                          slug |-> slug, good |-> TRUE, hidden |-> FALSE]]}
  BY DEF Begins
<1> DEFINE x == [project |-> project, task |-> task, home |-> home, place |-> "open",
                 slug |-> slug, good |-> TRUE, hidden |-> FALSE]
<1>2. tree' = tree /\ treeFaults' = treeFaults
  BY DEF Begins
<1>3. x \in Dir
  <2>1. task \in 0 .. MaxTasks /\ project \in 1 .. MaxProjects
    BY DEF Begins, Ids
  <2>2. QED  BY <2>1 DEF Dir
<1>4. x.project = project /\ x.task = task /\ x.home = home /\ x.good
  OBVIOUS
<1>5. creating' = {[by |-> by, dir |-> x]}
  BY <1>1
<1> HIDE DEF x
<1>6. TreeTypeOK'
  BY <1>2, <1>3, <1>5 DEF TreeTypeOK
<1>7. Placed(x) /\ Staged(x)
  BY <1>3, <1>4
<1>8. Dirs' = Dirs
  BY <1>2 DEF Dirs
<1>9. \A y : Placed(y)' = Placed(y) /\ Staged(y)' = Staged(y)
  BY <1>2, <1>8 DEF Placed, Staged, IsProject, TasksIn
<1>10. \A c \in creating' : (Placed(c.dir) /\ Staged(c.dir))' /\ c.dir.good
  BY <1>4, <1>5, <1>7, <1>9
<1>11. QED  BY <1>2, <1>6, <1>8, <1>9, <1>10 DEF TreeInv, IsProject

LEMMA CreateStep ==
  ASSUME TreeTypeOK, TreeInv, NEW by \in {"server", "cli"},
         CreateProject(by) \/ \E id \in Ids : CreateTask(by, id)
  PROVE  TreeTypeOK' /\ TreeInv'
<1>1. CASE CreateProject(by)
  <2>1. \A x \in Dir : x.project = NextProject /\ x.task = 0 /\ x.home = 0 => Placed(x) /\ Staged(x)
    BY NextNumbers DEF Placed, Staged
  <2>2. Begins(by, NextProject, 0, 0)
    BY <1>1 DEF CreateProject
  <2>3. QED  BY <2>1, <2>2, BeginsStep
<1>2. CASE \E id \in Ids : CreateTask(by, id)
  <2>0. PICK id \in Ids : CreateTask(by, id)
    BY <1>2
  <2>1. PICK p \in OpenDir(id) : id[2] = 0 /\ Begins(by, id[1], NextTask(p), p)
    BY <2>0 DEF CreateTask
  <2>2. p \in Dirs /\ IsProject(p) /\ tree[p].project = id[1]
    BY <2>1, FindFacts DEF OpenDir, Find
  <2>3. p \in Nat /\ p # 0
    BY <2>2, TreeFacts
  <2>4. NextTask(p) # 0 /\ \A d \in TasksIn(p) : tree[d].task = NextTask(p) => ~tree[d].good
    BY <2>2, NextNumbers
  <2>5. \A d \in TasksIn(p) : tree[d].task = NextTask(p) => tree[d].hidden
    BY <2>4 DEF TreeInv, TasksIn
  <2>6. \A x \in Dir : x.project = id[1] /\ x.task = NextTask(p) /\ x.home = p => Placed(x) /\ Staged(x)
    BY <2>2, <2>3, <2>4, <2>5 DEF Placed, Staged
  <2>7. QED  BY <2>1, <2>3, <2>6, BeginsStep
<1>3. QED  BY <1>1, <1>2

(* A directory is edited or moved in place: the files that hide it stay    *)
(* known, and no id changes.                                               *)
EditsTree ==
  /\ Dirs' = Dirs /\ creating' = creating
  /\ \A d \in Dirs : /\ tree'[d].project = tree[d].project /\ tree'[d].task = tree[d].task
                     /\ tree'[d].home = tree[d].home
                     /\ (tree[d].hidden => tree'[d].hidden)
                     /\ (~tree'[d].good => tree'[d].hidden)

LEMMA EditStep ==
  ASSUME TreeTypeOK, TreeInv, EditsTree
  PROVE  TreeInv'
<1>1. /\ \A d \in Dirs : IsProject(d)' <=> IsProject(d)
      /\ \A p : TasksIn(p)' = TasksIn(p)
  BY DEF EditsTree, IsProject, TasksIn
<1>2. ASSUME NEW x, NEW y, x.home = y.home, x.task = y.task, x.project = y.project
      PROVE  (Placed(x) => Placed(y)') /\ (Staged(x) => Staged(y)')
  <2>1. Placed(x) => Placed(y)'
    BY <1>1, <1>2 DEF Placed, EditsTree
  <2>2. Staged(x) => Staged(y)'
    <3>1. CASE x.home = 0
      BY <1>1, <1>2, <3>1 DEF Staged, EditsTree
    <3>2. CASE x.home # 0
      BY <1>1, <1>2, <3>2 DEF Staged, EditsTree, TasksIn
    <3>3. QED  BY <3>1, <3>2
  <2>3. QED  BY <2>1, <2>2
<1>3. \A d \in Dirs' : Placed(tree[d])' /\ (~tree[d].good => tree[d].hidden)'
  BY <1>2 DEF EditsTree, TreeInv
<1>4. \A c \in creating' : Placed(c.dir)' /\ Staged(c.dir)' /\ c.dir.good
  BY <1>2 DEF EditsTree, TreeInv
<1>5. \A a, b \in Dirs' : IsProject(a)' /\ IsProject(b)' /\ tree'[a].project = tree'[b].project => a = b
  BY <1>1 DEF EditsTree, TreeInv
<1>6. \A a, b \in Dirs' : a < b /\ tree'[a].home = tree'[b].home /\ tree'[a].task = tree'[b].task
                          => IsProject(a)' \/ tree'[a].hidden
  BY <1>1 DEF EditsTree, TreeInv
<1>7. QED  BY <1>3, <1>4, <1>5, <1>6 DEF TreeInv

LEMMA DirEdits ==
  ASSUME NEW x \in Dir
  PROVE  /\ [x EXCEPT !.place = "archive"] \in Dir /\ [x EXCEPT !.good = TRUE] \in Dir
         /\ [x EXCEPT !.good = FALSE, !.hidden = TRUE] \in Dir
<1>1. [x EXCEPT !.place = "archive"] \in Dir
  BY DEF Dir
<1>2. [x EXCEPT !.good = TRUE] \in Dir
  BY DEF Dir
<1>3. [x EXCEPT !.good = FALSE, !.hidden = TRUE] \in Dir
  BY DEF Dir
<1>4. QED  BY <1>1, <1>2, <1>3

LEMMA EditsOf ==
  ASSUME TreeTypeOK, TreeInv,
         \/ \E id \in Ids : CliArchives(id)
         \/ \E d \in Dirs : Garble(d) \/ Repair(d)
  PROVE  TreeTypeOK' /\ EditsTree
<1>1. PICK d \in Dirs, e \in Dir :
        /\ tree' = [tree EXCEPT ![d] = e] /\ creating' = creating /\ treeFaults' \in Nat
        /\ e.project = tree[d].project /\ e.task = tree[d].task /\ e.home = tree[d].home
        /\ (tree[d].hidden => e.hidden) /\ (~e.good => e.hidden)
  <2>1. CASE \E id \in Ids : CliArchives(id)
    <3>0. PICK id \in Ids : CliArchives(id)
      BY <2>1
    <3>1. PICK d \in MayMove(id) : tree' = [tree EXCEPT ![d].place = "archive"]
      BY <3>0 DEF CliArchives, Moves
    <3>2. d \in Dirs
      BY FindFacts DEF MayMove, OpenDir, Find, FindProject, Unique
    <3>3. tree[d] \in Dir /\ [tree[d] EXCEPT !.place = "archive"] \in Dir
      BY <3>2, TreeFacts, DirEdits
    <3>4. tree' = [tree EXCEPT ![d] = [tree[d] EXCEPT !.place = "archive"]]
      BY <3>1
    <3>5. ~tree[d].good => tree[d].hidden
      BY <3>2 DEF TreeInv
    <3>6. creating' = creating /\ treeFaults' \in Nat
      BY <2>1 DEF CliArchives, TreeTypeOK
    <3>7. /\ [tree[d] EXCEPT !.place = "archive"].project = tree[d].project
          /\ [tree[d] EXCEPT !.place = "archive"].task = tree[d].task
          /\ [tree[d] EXCEPT !.place = "archive"].home = tree[d].home
          /\ [tree[d] EXCEPT !.place = "archive"].hidden = tree[d].hidden
          /\ [tree[d] EXCEPT !.place = "archive"].good = tree[d].good
      BY <3>3 DEF Dir
    <3>8. QED  BY <3>2, <3>3, <3>4, <3>5, <3>6, <3>7
  <2>2. CASE \E d \in Dirs : Garble(d)
    <3>1. PICK d \in Dirs : Garble(d)
      BY <2>2
    <3>2. tree' = [tree EXCEPT ![d] = [tree[d] EXCEPT !.good = FALSE, !.hidden = TRUE]]
      BY <3>1, TreeFacts DEF Garble, TreeTypeOK, Dir
    <3>3. tree[d] \in Dir /\ [tree[d] EXCEPT !.good = FALSE, !.hidden = TRUE] \in Dir
      BY <3>1, TreeFacts, DirEdits
    <3>4. creating' = creating /\ treeFaults' \in Nat
      BY <3>1 DEF Garble, Spoils, TreeTypeOK
    <3>5. /\ [tree[d] EXCEPT !.good = FALSE, !.hidden = TRUE].project = tree[d].project
          /\ [tree[d] EXCEPT !.good = FALSE, !.hidden = TRUE].task = tree[d].task
          /\ [tree[d] EXCEPT !.good = FALSE, !.hidden = TRUE].home = tree[d].home
          /\ [tree[d] EXCEPT !.good = FALSE, !.hidden = TRUE].hidden
      BY <3>3 DEF Dir
    <3>6. QED  BY <3>1, <3>2, <3>3, <3>4, <3>5
  <2>3. CASE \E d \in Dirs : Repair(d)
    <3>1. PICK d \in Dirs : Repair(d)
      BY <2>3
    <3>2. tree' = [tree EXCEPT ![d] = [tree[d] EXCEPT !.good = TRUE]]
      BY <3>1 DEF Repair
    <3>3. tree[d] \in Dir /\ [tree[d] EXCEPT !.good = TRUE] \in Dir
      BY <3>1, TreeFacts, DirEdits
    <3>4. creating' = creating /\ treeFaults' \in Nat
      BY <3>1 DEF Repair, TreeTypeOK
    <3>5. /\ [tree[d] EXCEPT !.good = TRUE].project = tree[d].project
          /\ [tree[d] EXCEPT !.good = TRUE].task = tree[d].task
          /\ [tree[d] EXCEPT !.good = TRUE].home = tree[d].home
          /\ [tree[d] EXCEPT !.good = TRUE].hidden = tree[d].hidden
          /\ [tree[d] EXCEPT !.good = TRUE].good
      BY <3>3 DEF Dir
    <3>6. QED  BY <3>1, <3>2, <3>3, <3>4, <3>5
  <2>4. QED  BY <2>1, <2>2, <2>3
<1>2. tree' \in Seq(Dir) /\ Dirs' = Dirs
  BY <1>1, TreeFacts DEF TreeTypeOK, Dirs
<1>3. \A x \in Dirs : tree'[x] = IF x = d THEN e ELSE tree[x]
  BY <1>1, TreeFacts DEF TreeTypeOK, Dirs
<1>4. \A x \in Dirs : ~tree[x].good => tree[x].hidden
  BY DEF TreeInv
<1>5. EditsTree
  BY <1>1, <1>2, <1>3, <1>4 DEF EditsTree
<1>6. QED  BY <1>1, <1>2, <1>5 DEF TreeTypeOK

LEMMA CommitStep ==
  ASSUME TreeTypeOK, TreeInv, CreateCommits
  PROVE  TreeTypeOK' /\ TreeInv'
<1>1. PICK c \in creating : tree' = tree \/ tree' = Append(tree, c.dir)
  BY DEF CreateCommits
<1>2. creating' = {} /\ treeFaults' = treeFaults
  BY DEF CreateCommits
<1>3. CASE tree' = tree
  <2>1. Dirs' = Dirs
    BY <1>3 DEF Dirs
  <2>2. TreeTypeOK'
    BY <1>2, <1>3 DEF TreeTypeOK
  <2>3. QED  BY <1>2, <1>3, <2>1, <2>2 DEF TreeInv, Placed, IsProject
<1>4. CASE tree' = Append(tree, c.dir)
  <2>0. PICK n : n = Len(tree) + 1
    OBVIOUS
  <2>1. c.dir \in Dir /\ Placed(c.dir) /\ Staged(c.dir) /\ c.dir.good
    BY DEF TreeTypeOK, TreeInv
  <2>2. /\ Dirs' = 1 .. n /\ tree'[n] = c.dir /\ n \in Nat /\ n \notin Dirs
        /\ \A d \in Dirs : tree'[d] = tree[d]
        /\ Dirs' = Dirs \cup {n} /\ \A d \in Dirs : d \in Nat /\ d < n
    BY <1>4, <2>0, <2>1, TreeFacts DEF TreeTypeOK, Dirs
  <2>3. TreeTypeOK'
    BY <1>2, <1>4, <2>1 DEF TreeTypeOK
  <2>4. \A d \in Dirs : IsProject(d)' = IsProject(d)
    BY <2>2 DEF IsProject
  <2>5. \A x \in Dir : Placed(x) => Placed(x)'
    BY <2>2, <2>4 DEF Placed
  <2>6. \A d \in Dirs' : Placed(tree[d])' /\ (~tree'[d].good => tree'[d].hidden)
    <3>1. \A d \in Dirs : Placed(tree[d])' /\ (~tree'[d].good => tree'[d].hidden)
      BY <2>2, <2>5, TreeFacts DEF TreeInv
    <3>2. Placed(tree[n])' /\ tree'[n].good
      <4>1. Placed(c.dir)'
        BY <2>1, <2>5
      <4>2. QED  BY <2>1, <2>2, <4>1 DEF Placed
    <3>3. QED  BY <2>2, <3>1, <3>2
  <2>7. \A a, b \in Dirs' : IsProject(a)' /\ IsProject(b)' /\ tree'[a].project = tree'[b].project => a = b
    <3>1. \A d \in Dirs : IsProject(d) /\ IsProject(n)' => tree[d].project # c.dir.project
      BY <2>1, <2>2 DEF Staged, IsProject
    <3>2. QED  BY <2>2, <2>4, <3>1 DEF TreeInv
  <2>8. \A a, b \in Dirs' : a < b /\ tree'[a].home = tree'[b].home /\ tree'[a].task = tree'[b].task
                             => IsProject(a)' \/ tree'[a].hidden
    <3>1. \A d \in Dirs : tree[d].home = c.dir.home /\ tree[d].task = c.dir.task
                          => IsProject(d) \/ tree[d].hidden
      BY <2>1 DEF Staged, IsProject, TasksIn
    <3>2. QED  BY <2>2, <2>4, <3>1 DEF TreeInv
  <2>9. QED  BY <1>2, <2>3, <2>6, <2>7, <2>8 DEF TreeInv
<1>5. QED  BY <1>1, <1>3, <1>4

LEMMA TreeStep ==
  ASSUME TreeTypeOK, TreeInv, [TreeNext]_treeVars
  PROVE  TreeTypeOK' /\ TreeInv'
<1>1. CASE \E by \in {"server", "cli"} : CreateProject(by) \/ \E id \in Ids : CreateTask(by, id)
  BY <1>1, CreateStep
<1>2. CASE CreateCommits
  BY <1>2, CommitStep
<1>3. CASE CreationFails \/ UNCHANGED treeVars
  <2>1. tree' = tree /\ creating' \in {creating, {}} /\ treeFaults' \in {treeFaults, treeFaults + 1}
    BY <1>3 DEF CreationFails, Spoils, treeVars
  <2>2. Dirs' = Dirs
    BY <2>1 DEF Dirs
  <2>3. TreeTypeOK'
    BY <2>1 DEF TreeTypeOK
  <2>4. QED  BY <2>1, <2>2, <2>3 DEF TreeInv, Placed, Staged, IsProject, TasksIn
<1>4. CASE \/ \E id \in Ids : CliArchives(id)
           \/ \E d \in Dirs : Garble(d) \/ Repair(d)
  BY <1>4, EditsOf, EditStep
<1>5. QED  BY <1>1, <1>2, <1>3, <1>4 DEF TreeNext

(* Types of the directories and of the creation under way.                 *)
THEOREM SpecTreeTypeOK == TreeSpec => [](TreeTypeOK /\ TreeInv)
<1>1. TreeInit => TreeTypeOK /\ TreeInv
  BY DEF TreeInit, TreeTypeOK, TreeInv, Dirs
<1>2. QED  BY <1>1, TreeStep, PTL DEF TreeSpec

(* The id of a resource is never given again, for any number of processes' *)
(* creations, archivings, unreadable and repaired files in between, but    *)
(* for a Task whose metadata was unreadable.                               *)
THEOREM SpecUniqueIds == TreeSpec => []UniqueIds
BY SpecTreeTypeOK, TreeIsUnique, PTL

-----------------------------------------------------------------------------
(* What users have read.                                                   *)
USE ReadAssumption

Gen == [number: Nat, active: BOOLEAN]
Number == [at: {"none", "due", "given"}, number: Nat, first: BOOLEAN]
Ops == {"read", "save", "register", "seed", "delete", "prune"}
OldFile == [read: [Resources -> {0, 1}], turns: [Resources -> {0, 1}]]

TurnTypeOK ==
  /\ records \in [Resources -> Seq(Gen)] /\ \A r \in Resources : Len(records[r]) # 0
  /\ numbering \in [Resources -> Number]
  /\ given \in [Resources -> Nat] /\ ended \in [Resources -> Nat]

ReadTypeOK ==
  /\ TurnTypeOK
  /\ legacy = {} \/ \E f \in OldFile : legacy = {f}
  /\ requests \in SUBSET [op: Ops, user: Users, resource: Resources \cup {NoResource}, n: Nat]

(* The generations g of a resource, what its pass is numbering, the number *)
(* e of the last Turn that ended and the highest number v given: the Turn  *)
(* that runs has the number given last or none, all others have ended; and *)
(* while no record shows a number, the one given last is a first one.      *)
Bare(g) == \A i \in DOMAIN g : g[i].number = 0

Runs(g, w) == w.at # "due" /\ g[Len(g)].active

TurnFine(g, w, e, v) ==
  /\ \A i \in DOMAIN g : g[i].active => i = Len(g)
  /\ w.at # "none" => g[Len(g)].active
  /\ w.number <= e + 1 /\ (~Runs(g, w) => w.number <= e)
  /\ v <= e \/ (Runs(g, w) /\ v <= w.number)
  /\ \A i \in DOMAIN g : \/ g[i].number <= e
                         \/ /\ i = Len(g) /\ w.at = "none" /\ g[i].active
                            /\ g[i].number <= w.number
  /\ w.at = "given" => w.number >= 1 /\ v <= w.number /\ \A i \in DOMAIN g : g[i].number < w.number
  /\ Bare(g) => w.number = 0 \/ w.first

(* What a cursor may say: a Turn that ended, or a first one, which runs;   *)
(* and no more than the records say, or where they say nothing, was given. *)
Allowed(g, w, e, v, n) ==
  /\ n <= e \/ (Runs(g, w) /\ w.first /\ n = w.number)
  /\ n <= 1 \/ (\E i \in DOMAIN g : n <= g[i].number) \/ (Bare(g) /\ n <= v)

(* What a request to read may say.                                         *)
Passed(g, e, n) == n <= e /\ \E i \in DOMAIN g : n <= g[i].number

ReadFine(read) ==
  /\ DOMAIN read \subseteq Resources
  /\ \A r \in DOMAIN read :
       read[r] \in Nat /\ Allowed(records[r], numbering[r], ended[r], given[r], read[r])

ReadInv ==
  /\ \A r \in Resources : TurnFine(records[r], numbering[r], ended[r], given[r])
  /\ \A f \in legacy, r \in Resources : f.read[r] <= ended[r] /\ f.turns[r] <= ended[r]
  /\ \A q \in requests : /\ q.op = "read" => q.resource \in Resources
                                             /\ Passed(records[q.resource], ended[q.resource], q.n)
                         /\ q.op = "prune" => q.resource \in archived
  /\ \A u \in DOMAIN ui : ReadFine(ui[u].read)

LEMMA TurnFacts ==
  ASSUME TurnTypeOK, NEW r \in Resources
  PROVE  /\ Len(records[r]) \in Nat \ {0} /\ DOMAIN records[r] = 1 .. Len(records[r])
         /\ records[r] \in Seq(Gen) /\ numbering[r] \in Number
         /\ Len(records[r]) \in DOMAIN records[r]
         /\ \A i \in DOMAIN records[r] : records[r][i] \in Gen /\ records[r][i].number \in Nat
         /\ given[r] \in Nat /\ ended[r] \in Nat /\ numbering[r].number \in Nat
<1>1. /\ records[r] \in Seq(Gen) /\ Len(records[r]) # 0 /\ numbering[r] \in Number
      /\ given[r] \in Nat /\ ended[r] \in Nat
  BY DEF TurnTypeOK
<1>2. Len(records[r]) \in Nat \ {0} /\ DOMAIN records[r] = 1 .. Len(records[r])
  BY <1>1
<1>3. \A i \in DOMAIN records[r] : records[r][i] \in Gen
  BY <1>1
<1>4. \A x \in Gen : x.number \in Nat
  BY DEF Gen
<1>5. numbering[r].number \in Nat
  BY <1>1 DEF Number
<1>6. QED  BY <1>1, <1>2, <1>3, <1>4, <1>5

LEMMA NumbersFacts ==
  ASSUME NEW r \in Resources
  PROVE  /\ \A y \in Numbers(r) : \E i \in DOMAIN records[r] : y = records[r][i].number
         /\ \A i \in DOMAIN records[r] : records[r][i].number \in Numbers(r)
BY DEF Numbers

(* The numbers of the records, and what of them is completed.              *)
LEMMA NumberFacts ==
  ASSUME TurnTypeOK, NEW r \in Resources, TurnFine(records[r], numbering[r], ended[r], given[r])
  PROVE  /\ \A i \in DOMAIN records[r] : records[r][i].number <= ended[r] + 1
         /\ given[r] <= ended[r] + 1
         /\ Completed(r) \in Nat /\ Completed(r) <= ended[r]
         /\ \E i \in DOMAIN records[r] : Completed(r) <= records[r][i].number
         /\ Max(Numbers(r)) \in Nat /\ (Max(Numbers(r)) = 0 <=> Bare(records[r]))
<1> DEFINE g == records[r]
           C == {CompletedNumber(g[i]) : i \in DOMAIN g}
           N == Numbers(r)
<1>1. /\ \A i \in DOMAIN g : g[i].number <= ended[r] + 1
      /\ given[r] <= ended[r] + 1
  BY SMTT(20), TurnFacts DEF TurnFine
<1>2. \A i \in DOMAIN g : /\ CompletedNumber(g[i]) \in 0 .. ended[r]
                          /\ CompletedNumber(g[i]) <= g[i].number
  <2>1. ASSUME NEW i \in DOMAIN g
        PROVE  CompletedNumber(g[i]) \in 0 .. ended[r] /\ CompletedNumber(g[i]) <= g[i].number
    <3>1. g[i].number \in Nat /\ ended[r] \in Nat /\ numbering[r].number \in Nat
      BY TurnFacts
    <3>2. \/ g[i].number <= ended[r]
          \/ g[i].active /\ g[i].number <= ended[r] + 1
      <4>1. numbering[r].number <= ended[r] + 1
        BY DEF TurnFine
      <4>2. g[i].number <= ended[r] \/ (g[i].active /\ g[i].number <= numbering[r].number)
        BY DEF TurnFine
      <4>3. QED  BY <3>1, <4>1, <4>2
    <3>3. QED  BY <3>1, <3>2 DEF CompletedNumber
  <2>2. QED  BY <2>1
<1>3. C \in SUBSET (0 .. ended[r]) /\ C # {}
  BY <1>2, TurnFacts
<1>4. Max(C) \in C
  <2> HIDE DEF C
  <2>1. QED  BY <1>3, MaxFacts, TurnFacts
<1>5. Completed(r) = Max(C)
  BY DEF Completed
<1>6. PICK top \in DOMAIN g : Completed(r) = CompletedNumber(g[top])
  BY <1>4, <1>5
<1>7. /\ Completed(r) \in Nat /\ Completed(r) <= ended[r]
      /\ \E k \in DOMAIN g : Completed(r) <= g[k].number
  BY <1>2, <1>6, TurnFacts
<1>8. N \in SUBSET (0 .. (ended[r] + 1)) /\ N # {}
  <2>1. \A i \in DOMAIN g : g[i].number \in 0 .. (ended[r] + 1)
    BY <1>1, TurnFacts
  <2>2. QED  BY <2>1, NumbersFacts, TurnFacts
<1>9. Max(N) \in N /\ \A y \in N : y <= Max(N)
  <2> HIDE DEF N
  <2>1. ended[r] + 1 \in Nat
    BY TurnFacts
  <2>2. QED  BY <1>8, <2>1, MaxFacts
<1>10. Max(N) \in Nat /\ (Max(N) = 0 <=> Bare(g))
  <2>1. Max(N) \in Nat
    BY <1>8, <1>9
  <2>2. Max(N) = 0 => Bare(g)
    <3>1. ASSUME Max(N) = 0, NEW i \in DOMAIN g PROVE g[i].number = 0
      <4>1. g[i].number \in Nat /\ g[i].number \in N
        BY NumbersFacts, TurnFacts
      <4>2. g[i].number <= 0
        BY <1>9, <3>1, <4>1
      <4>3. QED  BY <4>1, <4>2
    <3>2. QED  BY <3>1 DEF Bare
  <2>3. Bare(g) => \A y \in N : y = 0
    BY NumbersFacts DEF Bare
  <2>4. QED  BY <1>9, <2>1, <2>2, <2>3
<1>11. QED  BY <1>1, <1>7, <1>10

LEMMA HighestFacts ==
  ASSUME TurnTypeOK, NEW r \in Resources, TurnFine(records[r], numbering[r], ended[r], given[r])
  PROVE  /\ Highest(r) \in Nat /\ given[r] <= Highest(r)
         /\ \A i \in DOMAIN records[r] : records[r][i].number <= Highest(r)
         /\ numbering[r].at = "due" => Highest(r) <= ended[r]
<1> DEFINE S == Numbers(r) \cup {given[r]}
<1>1. S \in SUBSET (0 .. (ended[r] + 1)) /\ S # {}
  <2>1. \A i \in DOMAIN records[r] : records[r][i].number \in 0 .. (ended[r] + 1)
    BY NumberFacts, TurnFacts
  <2>2. given[r] \in 0 .. (ended[r] + 1)
    BY NumberFacts, TurnFacts
  <2>3. QED  BY <2>1, <2>2, NumbersFacts
<1>2. Max(S) \in S /\ \A y \in S : y <= Max(S)
  <2> HIDE DEF S
  <2>1. ended[r] + 1 \in Nat
    BY TurnFacts
  <2>2. QED  BY <1>1, <2>1, MaxFacts
<1>3. Highest(r) = Max(S)
  BY DEF Highest
<1>4. numbering[r].at = "due" => \A y \in S : y <= ended[r]
  BY NumbersFacts DEF TurnFine, Runs
<1>5. \A i \in DOMAIN records[r] : records[r][i].number \in S
  BY NumbersFacts
<1>6. Max(S) \in Nat
  BY <1>1, <1>2
<1> HIDE DEF S
<1>7. given[r] \in S
  BY DEF S
<1>8. QED  BY <1>2, <1>3, <1>4, <1>5, <1>6, <1>7

LEMMA MaxOfTwo ==
  ASSUME NEW a \in Nat, NEW b \in Nat
  PROVE  Max({a, b}) \in {a, b} /\ a <= Max({a, b}) /\ b <= Max({a, b})
<1> DEFINE S == {a, b}
<1>1. S \in SUBSET (0 .. (a + b)) /\ S # {} /\ a + b \in Nat
  OBVIOUS
<1>2. Max(S) \in S /\ \A y \in S : y <= Max(S)
  <2> HIDE DEF S
  <2>1. QED  BY <1>1, MaxFacts
<1>3. QED  BY <1>2

(* Editing the newest generation.                                          *)
LEMMA GenEdits ==
  ASSUME NEW g \in Seq(Gen), Len(g) # 0
  PROVE  /\ \A b \in BOOLEAN :
              LET h == [g EXCEPT ![Len(g)].active = b]
              IN  /\ h \in Seq(Gen) /\ Len(h) = Len(g) /\ DOMAIN h = DOMAIN g
                  /\ \A i \in DOMAIN g : /\ h[i].number = g[i].number
                                         /\ h[i].active = IF i = Len(g) THEN b ELSE g[i].active
         /\ \A n \in Nat :
              LET h == [g EXCEPT ![Len(g)].number = n]
              IN  /\ h \in Seq(Gen) /\ Len(h) = Len(g) /\ DOMAIN h = DOMAIN g
                  /\ \A i \in DOMAIN g : /\ h[i].active = g[i].active
                                         /\ h[i].number = IF i = Len(g) THEN n ELSE g[i].number
<1>0. Len(g) \in DOMAIN g /\ \A i \in DOMAIN g : g[i] \in Gen
  OBVIOUS
<1>1. ASSUME NEW b \in BOOLEAN
      PROVE  LET h == [g EXCEPT ![Len(g)].active = b]
             IN  /\ h \in Seq(Gen) /\ Len(h) = Len(g) /\ DOMAIN h = DOMAIN g
                 /\ \A i \in DOMAIN g : /\ h[i].number = g[i].number
                                        /\ h[i].active = IF i = Len(g) THEN b ELSE g[i].active
  <2> DEFINE h == [g EXCEPT ![Len(g)].active = b]
             x == [g[Len(g)] EXCEPT !.active = b]
  <2>1. x \in Gen /\ x.number = g[Len(g)].number /\ x.active = b
    BY <1>0 DEF Gen
  <2>2. h = [g EXCEPT ![Len(g)] = x]
    OBVIOUS
  <2> HIDE DEF x
  <2>3. h \in Seq(Gen) /\ Len(h) = Len(g) /\ DOMAIN h = DOMAIN g
    BY <1>0, <2>1, <2>2
  <2>4. \A i \in DOMAIN g : h[i] = IF i = Len(g) THEN x ELSE g[i]
    BY <1>0, <2>2
  <2>5. QED  BY <2>1, <2>3, <2>4
<1>2. ASSUME NEW n \in Nat
      PROVE  LET h == [g EXCEPT ![Len(g)].number = n]
             IN  /\ h \in Seq(Gen) /\ Len(h) = Len(g) /\ DOMAIN h = DOMAIN g
                 /\ \A i \in DOMAIN g : /\ h[i].active = g[i].active
                                        /\ h[i].number = IF i = Len(g) THEN n ELSE g[i].number
  <2> DEFINE h == [g EXCEPT ![Len(g)].number = n]
             x == [g[Len(g)] EXCEPT !.number = n]
  <2>1. x \in Gen /\ x.active = g[Len(g)].active /\ x.number = n
    BY <1>0 DEF Gen
  <2>2. h = [g EXCEPT ![Len(g)] = x]
    OBVIOUS
  <2> HIDE DEF x
  <2>3. h \in Seq(Gen) /\ Len(h) = Len(g) /\ DOMAIN h = DOMAIN g
    BY <1>0, <2>1, <2>2
  <2>4. \A i \in DOMAIN g : h[i] = IF i = Len(g) THEN x ELSE g[i]
    BY <1>0, <2>2
  <2>5. QED  BY <2>1, <2>3, <2>4
<1>3. QED  BY <1>1, <1>2

LEMMA ValueFacts ==
  ASSUME NEW g \in Seq(Gen), Len(g) # 0, NEW w \in Number
  PROVE  /\ Len(g) \in Nat \ {0} /\ Len(g) \in DOMAIN g /\ w.number \in Nat
         /\ \A i \in DOMAIN g : g[i] \in Gen /\ g[i].number \in Nat
<1>1. Len(g) \in Nat \ {0} /\ Len(g) \in DOMAIN g /\ \A i \in DOMAIN g : g[i] \in Gen
  OBVIOUS
<1>2. \A x \in Gen : x.number \in Nat
  BY DEF Gen
<1>3. w.number \in Nat
  BY DEF Number
<1>4. QED  BY <1>1, <1>2, <1>3

(* A step of one resource's Turns that keeps what may be read of it.       *)
Grows(g, w, e, v, h, x, f, y) ==
  /\ TurnFine(h, x, f, y) /\ e <= f
  /\ \A n \in Nat : /\ Allowed(g, w, e, v, n) => Allowed(h, x, f, y, n)
                    /\ Passed(g, e, n) => Passed(h, f, n)

TurnsGrow ==
  /\ TurnTypeOK'
  /\ \A r \in Resources : Grows(records[r], numbering[r], ended[r], given[r],
                                records'[r], numbering'[r], ended'[r], given'[r])

LEMMA OneGrows ==
  ASSUME TurnTypeOK, \A r \in Resources : TurnFine(records[r], numbering[r], ended[r], given[r]),
         NEW r \in Resources, NEW g \in Seq(Gen), NEW w \in Number, NEW e \in Nat, NEW v \in Nat,
         Len(g) # 0,
         records' = [records EXCEPT ![r] = g], numbering' = [numbering EXCEPT ![r] = w],
         ended' = [ended EXCEPT ![r] = e], given' = [given EXCEPT ![r] = v],
         Grows(records[r], numbering[r], ended[r], given[r], g, w, e, v)
  PROVE  TurnsGrow
<1>1. \A x \in Resources : records'[x] = IF x = r THEN g ELSE records[x]
  BY DEF TurnTypeOK
<1>2. \A x \in Resources : numbering'[x] = IF x = r THEN w ELSE numbering[x]
  BY DEF TurnTypeOK
<1>3. \A x \in Resources : ended'[x] = IF x = r THEN e ELSE ended[x]
  BY DEF TurnTypeOK
<1>4. \A x \in Resources : given'[x] = IF x = r THEN v ELSE given[x]
  BY DEF TurnTypeOK
<1>5. TurnTypeOK'
  <2>1. records' \in [Resources -> Seq(Gen)] /\ \A x \in Resources : Len(records'[x]) # 0
    BY <1>1 DEF TurnTypeOK
  <2>2. /\ numbering' \in [Resources -> Number]
        /\ ended' \in [Resources -> Nat] /\ given' \in [Resources -> Nat]
    BY DEF TurnTypeOK
  <2>3. QED  BY <2>1, <2>2 DEF TurnTypeOK
<1>6. ASSUME NEW x \in Resources, x # r
      PROVE  Grows(records[x], numbering[x], ended[x], given[x],
                   records'[x], numbering'[x], ended'[x], given'[x])
  <2>1. /\ records'[x] = records[x] /\ numbering'[x] = numbering[x]
        /\ ended'[x] = ended[x] /\ given'[x] = given[x] /\ ended[x] \in Nat
    BY <1>1, <1>2, <1>3, <1>4, <1>6 DEF TurnTypeOK
  <2>2. QED  BY <2>1 DEF Grows
<1>7. QED  BY <1>1, <1>2, <1>3, <1>4, <1>5, <1>6 DEF TurnsGrow

(* The steps of one resource, over the values of its variables.            *)
LEMMA StartGrows ==
  ASSUME NEW g \in Seq(Gen), Len(g) # 0, NEW w \in Number, NEW e \in Nat, NEW v \in Nat,
         TurnFine(g, w, e, v), w.at = "none", NEW f \in Nat, e <= f,
         g[Len(g)].active => w.number <= f
  PROVE  /\ Grows(g, w, e, v, [g EXCEPT ![Len(g)].active = TRUE], NoNumber("due"), f, v)
         /\ Grows(g, w, e, v, [g EXCEPT ![Len(g)].active = FALSE], w, f, v)
<1>0. /\ Len(g) \in Nat \ {0} /\ Len(g) \in DOMAIN g /\ w.number \in Nat
      /\ \A i \in DOMAIN g : g[i] \in Gen /\ g[i].number \in Nat
  BY ValueFacts
<1>1. /\ w.number <= f /\ v <= f /\ \A i \in DOMAIN g : g[i].number <= f
  BY <1>0 DEF TurnFine, Runs
<1>2. ASSUME NEW b \in BOOLEAN, NEW x \in Number,
             (x = w /\ ~b) \/ (x = NoNumber("due") /\ b)
      PROVE  Grows(g, w, e, v, [g EXCEPT ![Len(g)].active = b], x, f, v)
  <2> DEFINE h == [g EXCEPT ![Len(g)].active = b]
  <2>1. /\ Len(h) = Len(g) /\ DOMAIN h = DOMAIN g
        /\ \A i \in DOMAIN g : /\ h[i].number = g[i].number
                               /\ h[i].active = IF i = Len(g) THEN b ELSE g[i].active
    BY GenEdits
  <2> HIDE DEF h
  <2>2. x.number <= f /\ x.number \in Nat /\ x.at \in {"none", "due"} /\ (x.at = "due" => b) /\ (x.at = "none" => x = w)
    BY <1>0, <1>1, <1>2 DEF Number, NoNumber
  <2>3. TurnFine(h, x, f, v)
    <3>1. \A i \in DOMAIN h : h[i].active => i = Len(h)
      BY <2>1 DEF TurnFine
    <3>2. x.at # "none" => h[Len(h)].active
      BY <1>0, <2>1, <2>2
    <3>3. \A i \in DOMAIN h : h[i].number <= f
      BY <1>1, <2>1
    <3>4. x.at # "given" /\ x.number <= f + 1
      BY <2>2
    <3>5. Bare(h) => x.number = 0 \/ x.first
      BY <1>2, <2>1 DEF TurnFine, Bare, NoNumber
    <3>6. QED  BY <1>1, <2>2, <3>1, <3>2, <3>3, <3>4, <3>5 DEF TurnFine
  <2>4. ASSUME NEW n \in Nat, Allowed(g, w, e, v, n) PROVE Allowed(h, x, f, v, n)
    <3>1. n <= f
      BY <1>0, <1>1, <2>4 DEF Allowed
    <3>2. n <= 1 \/ (\E i \in DOMAIN h : n <= h[i].number) \/ (Bare(h) /\ n <= v)
      BY <2>1, <2>4 DEF Allowed, Bare
    <3>3. QED  BY <3>1, <3>2 DEF Allowed
  <2>5. \A n \in Nat : Passed(g, e, n) => Passed(h, f, n)
    BY <2>1 DEF Passed
  <2>6. QED  BY <2>3, <2>4, <2>5 DEF Grows, h
<1>3. NoNumber("due") \in Number
  BY DEF Number, NoNumber
<1>4. Grows(g, w, e, v, [g EXCEPT ![Len(g)].active = TRUE], NoNumber("due"), f, v)
  BY <1>2, <1>3
<1>5. Grows(g, w, e, v, [g EXCEPT ![Len(g)].active = FALSE], w, f, v)
  BY <1>2
<1>6. QED  BY <1>4, <1>5

LEMMA AllocateGrows ==
  ASSUME NEW g \in Seq(Gen), Len(g) # 0, NEW w \in Number, NEW e \in Nat, NEW v \in Nat,
         TurnFine(g, w, e, v), w.at = "due", NEW m \in Nat, m <= e, v <= m,
         \A i \in DOMAIN g : g[i].number <= m, NEW b \in BOOLEAN, Bare(g) => b
  PROVE  /\ Grows(g, w, e, v, g, [at |-> "given", number |-> m + 1, first |-> b], e, m + 1)
         /\ Grows(g, w, e, v, g, [w EXCEPT !.at = "none"], e, v)
<1>0. /\ Len(g) \in Nat \ {0} /\ Len(g) \in DOMAIN g /\ w.number \in Nat
      /\ \A i \in DOMAIN g : g[i] \in Gen /\ g[i].number \in Nat
  BY ValueFacts
<1>1. w.number <= e /\ ~Runs(g, w) /\ g[Len(g)].active
  BY DEF TurnFine, Runs
<1>2. \A n \in Nat : Allowed(g, w, e, v, n) => n <= e
  BY <1>1 DEF Allowed
<1>3. \A n \in Nat : \A x : Allowed(g, w, e, v, n) => Allowed(g, x, e, v, n) /\ Allowed(g, x, e, m + 1, n)
  BY <1>2 DEF Allowed
<1>4. TurnFine(g, [at |-> "given", number |-> m + 1, first |-> b], e, m + 1)
  <2>1. \A i \in DOMAIN g : g[i].number <= e /\ g[i].number < m + 1
    BY <1>0
  <2>2. QED  BY <1>0, <1>1, <2>1 DEF TurnFine, Runs
<1>5. TurnFine(g, [w EXCEPT !.at = "none"], e, v)
  <2>1. [w EXCEPT !.at = "none"].number = w.number /\ [w EXCEPT !.at = "none"].at = "none"
    BY DEF Number
  <2>2. \A i \in DOMAIN g : g[i].number <= e
    BY <1>0
  <2>3. v <= e
    OBVIOUS
  <2>4. QED  BY <1>0, <1>1, <2>1, <2>2, <2>3 DEF TurnFine, Runs
<1>6. QED  BY <1>3, <1>4, <1>5 DEF Grows

LEMMA NumberedGrows ==
  ASSUME NEW g \in Seq(Gen), Len(g) # 0, NEW w \in Number, NEW e \in Nat, NEW v \in Nat,
         TurnFine(g, w, e, v), w.at # "due"
  PROVE  /\ w.at = "given" =>
              Grows(g, w, e, v, [g EXCEPT ![Len(g)].number = w.number], [w EXCEPT !.at = "none"], e, v)
         /\ Grows(g, w, e, v, g, [w EXCEPT !.at = "none"], e, v)
<1>0. /\ Len(g) \in Nat \ {0} /\ Len(g) \in DOMAIN g /\ w.number \in Nat
      /\ \A i \in DOMAIN g : g[i] \in Gen /\ g[i].number \in Nat
  BY ValueFacts
<1> DEFINE x == [w EXCEPT !.at = "none"]
           h == [g EXCEPT ![Len(g)].number = w.number]
<1>1. x.number = w.number /\ x.at = "none" /\ x.first = w.first
  BY DEF Number
<1>2. /\ Len(h) = Len(g) /\ DOMAIN h = DOMAIN g
      /\ \A i \in DOMAIN g : /\ h[i].active = g[i].active
                             /\ h[i].number = IF i = Len(g) THEN w.number ELSE g[i].number
  BY <1>0, GenEdits
<1> HIDE DEF x, h
<1>3. Grows(g, w, e, v, g, x, e, v)
  <2>1. TurnFine(g, x, e, v)
    BY <1>0, <1>1 DEF TurnFine, Runs
  <2>2. \A n \in Nat : Allowed(g, w, e, v, n) => Allowed(g, x, e, v, n)
    BY <1>1 DEF Allowed, Runs
  <2>3. QED  BY <2>1, <2>2 DEF Grows
<1>4. ASSUME w.at = "given" PROVE Grows(g, w, e, v, h, x, e, v)
  <2>1. /\ w.number >= 1 /\ v <= w.number /\ \A i \in DOMAIN g : g[i].number < w.number
        /\ g[Len(g)].active
    BY <1>4 DEF TurnFine
  <2>2. TurnFine(h, x, e, v)
    <3>1. \A i \in DOMAIN h : h[i].active => i = Len(h)
      BY <1>2 DEF TurnFine
    <3>2. Runs(h, x) /\ Runs(g, w)
      BY <1>0, <1>1, <1>2, <1>4, <2>1 DEF Runs
    <3>3. x.number <= e + 1 /\ (v <= e \/ v <= x.number)
      BY <1>1, <2>1 DEF TurnFine
    <3>4. \A i \in DOMAIN g : g[i].number <= e \/ i = Len(g)
      BY DEF TurnFine
    <3>5. \A i \in DOMAIN h : \/ h[i].number <= e
                              \/ /\ i = Len(h) /\ h[i].active
                                /\ h[i].number <= x.number
      BY <1>0, <1>1, <1>2, <2>1, <3>4
    <3>6. Bare(h) => x.number = 0 \/ x.first
      BY <1>1, <1>2 DEF TurnFine, Bare
    <3>7. QED  BY <1>1, <3>1, <3>2, <3>3, <3>5, <3>6 DEF TurnFine, Runs
  <2>3. ASSUME NEW n \in Nat, Allowed(g, w, e, v, n) PROVE Allowed(h, x, e, v, n)
    <3>1. n <= e \/ (Runs(h, x) /\ x.first /\ n = x.number)
      BY <1>1, <1>2, <2>1, <2>3 DEF Allowed, Runs
    <3>2. n <= 1 \/ \E i \in DOMAIN h : n <= h[i].number
      BY <1>0, <1>2, <2>1, <2>3 DEF Allowed
    <3>3. QED  BY <3>1, <3>2 DEF Allowed
  <2>4. \A n \in Nat : Passed(g, e, n) => Passed(h, e, n)
    BY <1>0, <1>2, <2>1 DEF Passed
  <2>5. QED  BY <2>2, <2>3, <2>4 DEF Grows
<1>5. QED  BY <1>3, <1>4 DEF x, h

LEMMA ReplacedGrows ==
  ASSUME NEW g \in Seq(Gen), Len(g) # 0, NEW w \in Number, NEW e \in Nat, NEW v \in Nat,
         TurnFine(g, w, e, v), ~g[Len(g)].active
  PROVE  Grows(g, w, e, v, Append(g, [number |-> 0, active |-> FALSE]), w, e, v)
<1>0. /\ Len(g) \in Nat \ {0} /\ Len(g) \in DOMAIN g /\ w.number \in Nat
      /\ \A i \in DOMAIN g : g[i] \in Gen /\ g[i].number \in Nat
  BY ValueFacts
<1> DEFINE x == [number |-> 0, active |-> FALSE]
           h == Append(g, x)
<1>1. /\ Len(h) = Len(g) + 1 /\ DOMAIN h = DOMAIN g \cup {Len(g) + 1}
      /\ h[Len(g) + 1] = x /\ \A i \in DOMAIN g : h[i] = g[i]
  <2>1. x \in Gen
    BY DEF Gen
  <2> HIDE DEF x
  <2>2. QED  BY <2>1
<1>2. w.at = "none" /\ ~Runs(g, w)
  BY DEF TurnFine, Runs, Number
<1>3. \A i \in DOMAIN g : ~g[i].active /\ g[i].number <= e
  BY <1>0 DEF TurnFine
<1>4. ~x.active /\ x.number = 0
  OBVIOUS
<1> HIDE DEF x, h
<1>5. \A i \in DOMAIN h : ~h[i].active /\ h[i].number <= e
  BY <1>1, <1>3, <1>4
<1>6. Len(h) \in DOMAIN h
  BY <1>1
<1>11. Bare(h) => Bare(g)
  BY <1>1 DEF Bare
<1>7. TurnFine(h, w, e, v)
  BY <1>2, <1>5, <1>6, <1>11 DEF TurnFine, Runs
<1>8. \A n \in Nat : Allowed(g, w, e, v, n) => Allowed(h, w, e, v, n)
  BY <1>1, <1>2, <1>4 DEF Allowed, Bare
<1>9. \A n \in Nat : Passed(g, e, n) => Passed(h, e, n)
  BY <1>1 DEF Passed
<1>10. QED  BY <1>7, <1>8, <1>9 DEF Grows, h, x

LEMMA TurnsGrowing ==
  ASSUME ReadTypeOK, ReadInv, NEW r \in Resources,
         TurnStarts(r) \/ Allocates(r) \/ Numbered(r) \/ TurnCloses(r) \/ Replaced(r)
  PROVE  TurnsGrow
<1> DEFINE g == records[r]
           w == numbering[r]
           e == ended[r]
           v == given[r]
<1>1. TurnTypeOK /\ \A x \in Resources : TurnFine(records[x], numbering[x], ended[x], given[x])
  BY DEF ReadTypeOK, ReadInv
<1>2. /\ g \in Seq(Gen) /\ Len(g) # 0 /\ w \in Number /\ e \in Nat /\ v \in Nat
      /\ TurnFine(g, w, e, v) /\ w.number \in Nat /\ Len(g) \in DOMAIN g
  BY <1>1, TurnFacts
<1>3. /\ records = [records EXCEPT ![r] = g] /\ numbering = [numbering EXCEPT ![r] = w]
      /\ ended = [ended EXCEPT ![r] = e] /\ given = [given EXCEPT ![r] = v]
  BY <1>1 DEF TurnTypeOK
<1>4. e <= e
  BY <1>2
<1>5. CASE TurnStarts(r)
  <2>1. PICK f \in Nat : /\ ended' = [ended EXCEPT ![r] = f] /\ e <= f
                         /\ g[Len(g)].active => w.number <= f
    <3>1. CASE g[Len(g)].active
      <4>1. ended' = [ended EXCEPT ![r] = Max({e, w.number})]
        BY <1>5, <3>1 DEF TurnStarts
      <4>2. Max({e, w.number}) \in {e, w.number} /\ e <= Max({e, w.number}) /\ w.number <= Max({e, w.number})
        BY <1>2, MaxOfTwo
      <4>3. Max({e, w.number}) \in Nat
        BY <1>2, <4>2
      <4>4. QED  BY <4>1, <4>2, <4>3
    <3>2. CASE ~g[Len(g)].active
      <4>1. ended' = ended
        BY <1>5, <3>2 DEF TurnStarts
      <4>2. QED  BY <1>2, <1>3, <1>4, <3>2, <4>1
    <3>3. QED  BY <3>1, <3>2
  <2>2. /\ records' = [records EXCEPT ![r] = [g EXCEPT ![Len(g)].active = TRUE]]
        /\ numbering' = [numbering EXCEPT ![r] = NoNumber("due")]
        /\ given' = given /\ w.at = "none"
    BY <1>5 DEF TurnStarts
  <2>3. /\ [g EXCEPT ![Len(g)].active = TRUE] \in Seq(Gen) /\ Len([g EXCEPT ![Len(g)].active = TRUE]) # 0
        /\ NoNumber("due") \in Number
    BY <1>2, GenEdits DEF Number, NoNumber
  <2>4. Grows(g, w, e, v, [g EXCEPT ![Len(g)].active = TRUE], NoNumber("due"), f, v)
    BY <1>2, <2>1, <2>2, StartGrows
  <2>5. given' = [given EXCEPT ![r] = v]
    BY <1>3, <2>2
  <2>6. QED  BY <1>1, <1>2, <2>1, <2>2, <2>3, <2>4, <2>5, OneGrows
<1>6. CASE TurnCloses(r)
  <2>1. PICK f \in Nat : /\ ended' = [ended EXCEPT ![r] = f] /\ e <= f /\ w.number <= f
    <3>1. ended' = [ended EXCEPT ![r] = Max({e, w.number})]
      BY <1>6 DEF TurnCloses
    <3>2. Max({e, w.number}) \in {e, w.number} /\ e <= Max({e, w.number}) /\ w.number <= Max({e, w.number})
      BY <1>2, MaxOfTwo
    <3>3. Max({e, w.number}) \in Nat
      BY <1>2, <3>2
    <3>4. QED  BY <3>1, <3>2, <3>3
  <2>2. /\ records' = [records EXCEPT ![r] = [g EXCEPT ![Len(g)].active = FALSE]]
        /\ numbering' = numbering /\ given' = given /\ w.at = "none"
    BY <1>6 DEF TurnCloses
  <2>3. [g EXCEPT ![Len(g)].active = FALSE] \in Seq(Gen) /\ Len([g EXCEPT ![Len(g)].active = FALSE]) # 0
    BY <1>2, GenEdits
  <2>4. Grows(g, w, e, v, [g EXCEPT ![Len(g)].active = FALSE], w, f, v)
    BY <1>2, <2>1, <2>2, StartGrows
  <2>5. given' = [given EXCEPT ![r] = v] /\ numbering' = [numbering EXCEPT ![r] = w]
    BY <1>3, <2>2
  <2>6. QED  BY <1>1, <1>2, <2>1, <2>2, <2>3, <2>4, <2>5, OneGrows
<1>7. CASE Allocates(r)
  <2>1. w.at = "due" /\ records' = records /\ ended' = ended
    BY <1>7 DEF Allocates
  <2>2. PICK m \in Nat : /\ m = Highest(r) /\ m <= e /\ v <= m /\ \A i \in DOMAIN g : g[i].number <= m
    BY <1>1, <2>1, HighestFacts
  <2>8. PICK b \in BOOLEAN : b = Unnumbered(r)
    BY DEF Unnumbered
  <2>9. Bare(g) => b
    BY <1>1, <1>2, <2>8, NumberFacts DEF Unnumbered
  <2>3. /\ Grows(g, w, e, v, g, [at |-> "given", number |-> m + 1, first |-> b], e, m + 1)
        /\ Grows(g, w, e, v, g, [w EXCEPT !.at = "none"], e, v)
    BY <1>2, <2>1, <2>2, <2>9, AllocateGrows
  <2>4. /\ [at |-> "given", number |-> m + 1, first |-> b] \in Number /\ [w EXCEPT !.at = "none"] \in Number
        /\ m + 1 \in Nat
    BY <1>2 DEF Number
  <2>5. CASE /\ given' = [given EXCEPT ![r] = m + 1]
             /\ numbering' = [numbering EXCEPT ![r] = [at |-> "given", number |-> m + 1, first |-> b]]
    <3>1. records' = [records EXCEPT ![r] = g] /\ ended' = [ended EXCEPT ![r] = e]
      BY <1>3, <2>1
    <3>2. QED  BY <1>1, <1>2, <2>3, <2>4, <2>5, <3>1, OneGrows
  <2>6. CASE numbering' = [numbering EXCEPT ![r] = [w EXCEPT !.at = "none"]] /\ given' = given
    <3>1. /\ records' = [records EXCEPT ![r] = g] /\ ended' = [ended EXCEPT ![r] = e]
          /\ given' = [given EXCEPT ![r] = v]
      BY <1>3, <2>1, <2>6
    <3>2. QED  BY <1>1, <1>2, <2>3, <2>4, <2>6, <3>1, OneGrows
  <2>7. QED  BY <1>7, <2>2, <2>5, <2>6, <2>8 DEF Allocates
<1>8. CASE Numbered(r)
  <2>1. w.at = "given" /\ given' = given /\ ended' = ended
    BY <1>8 DEF Numbered
  <2>2. /\ Grows(g, w, e, v, [g EXCEPT ![Len(g)].number = w.number], [w EXCEPT !.at = "none"], e, v)
        /\ Grows(g, w, e, v, g, [w EXCEPT !.at = "none"], e, v)
    BY <1>2, <2>1, NumberedGrows
  <2>3. /\ [g EXCEPT ![Len(g)].number = w.number] \in Seq(Gen)
        /\ Len([g EXCEPT ![Len(g)].number = w.number]) # 0
        /\ [w EXCEPT !.at = "none"] \in Number
    BY <1>2, GenEdits DEF Number
  <2>4. numbering' = [numbering EXCEPT ![r] = [w EXCEPT !.at = "none"]]
    BY <1>8 DEF Numbered
  <2>5. CASE records' = [records EXCEPT ![r] = [g EXCEPT ![Len(g)].number = w.number]]
    <3>1. given' = [given EXCEPT ![r] = v] /\ ended' = [ended EXCEPT ![r] = e]
      BY <1>3, <2>1
    <3>2. Grows(g, w, e, v, [g EXCEPT ![Len(g)].number = w.number], [w EXCEPT !.at = "none"], e, v)
      BY <2>1, <2>2
    <3>3. QED  BY <1>1, <1>2, <2>3, <2>4, <2>5, <3>1, <3>2, OneGrows
  <2>6. CASE records' = records
    <3>1. /\ given' = [given EXCEPT ![r] = v] /\ ended' = [ended EXCEPT ![r] = e]
          /\ records' = [records EXCEPT ![r] = g]
      BY <1>3, <2>1, <2>6
    <3>2. QED  BY <1>1, <1>2, <2>2, <2>3, <2>4, <3>1, OneGrows
  <2>7. QED  BY <1>8, <2>5, <2>6 DEF Numbered
<1>9. CASE Replaced(r)
  <2>0. PICK h : h = Append(g, [number |-> 0, active |-> FALSE])
    OBVIOUS
  <2>1. /\ records' = [records EXCEPT ![r] = h] /\ ~g[Len(g)].active
        /\ given' = given /\ ended' = ended /\ numbering' = numbering
    BY <1>9, <2>0 DEF Replaced
  <2>2. [number |-> 0, active |-> FALSE] \in Gen
    BY DEF Gen
  <2>3. h \in Seq(Gen) /\ Len(h) # 0
    BY <1>2, <2>0, <2>2
  <2>4. Grows(g, w, e, v, h, w, e, v)
    BY <1>2, <2>0, <2>1, ReplacedGrows
  <2>5. /\ given' = [given EXCEPT ![r] = v] /\ ended' = [ended EXCEPT ![r] = e]
        /\ numbering' = [numbering EXCEPT ![r] = w]
    BY <1>3, <2>1
  <2>6. records' = [records EXCEPT ![r] = h]
    BY <2>1
  <2>7. QED  BY <1>1, <1>2, <2>3, <2>4, <2>5, <2>6, OneGrows
<1>10. QED  BY <1>5, <1>6, <1>7, <1>8, <1>9

LEMMA CrashGrows ==
  ASSUME ReadTypeOK, ReadInv, ReadCrash
  PROVE  TurnsGrow
<1>1. TurnTypeOK /\ \A x \in Resources : TurnFine(records[x], numbering[x], ended[x], given[x])
  BY DEF ReadTypeOK, ReadInv
<1>2. /\ records' = records /\ ended' = ended /\ given' = given
      /\ numbering' = [r \in Resources |-> [numbering[r] EXCEPT !.at = "none"]]
  BY DEF ReadCrash
<1>3. \A w \in Number : [w EXCEPT !.at = "none"] \in Number
  BY DEF Number
<1>4. TurnTypeOK'
  BY <1>1, <1>2, <1>3 DEF TurnTypeOK
<1>5. ASSUME NEW r \in Resources
      PROVE  Grows(records[r], numbering[r], ended[r], given[r],
                   records[r], [numbering[r] EXCEPT !.at = "none"], ended[r], given[r])
  <2>1. /\ records[r] \in Seq(Gen) /\ Len(records[r]) # 0 /\ numbering[r] \in Number
        /\ ended[r] \in Nat /\ given[r] \in Nat
    BY <1>1, TurnFacts
  <2>2. CASE numbering[r].at = "due"
    <3>1. PICK m \in Nat : /\ m = Highest(r) /\ m <= ended[r] /\ given[r] <= m
                           /\ \A i \in DOMAIN records[r] : records[r][i].number <= m
      BY <1>1, <2>2, HighestFacts
    <3>2. QED  BY <1>1, <2>1, <2>2, <3>1, AllocateGrows
  <2>3. CASE numbering[r].at # "due"
    BY <1>1, <2>1, <2>3, NumberedGrows
  <2>4. QED  BY <2>2, <2>3
<1>6. QED  BY <1>2, <1>4, <1>5 DEF TurnsGrow


(* Requests and files over a step that keeps what may be read.             *)
Requests == [op: Ops, user: Users, resource: Resources \cup {NoResource}, n: Nat]

RequestFine(q, moved) ==
  /\ q.op = "read" => /\ q.resource \in Resources
                      /\ Passed(records[q.resource], ended[q.resource], q.n)
  /\ q.op = "prune" => q.resource \in moved

LEMMA GrowsRead ==
  ASSUME TurnsGrow, NEW read, ReadFine(read)
  PROVE  ReadFine(read)'
BY DEF TurnsGrow, Grows, ReadFine

TurnsPass ==
  /\ TurnTypeOK'
  /\ \A r \in Resources :
       /\ TurnFine(records'[r], numbering'[r], ended'[r], given'[r])
       /\ ended[r] <= ended'[r]
       /\ \A n \in Nat : Passed(records[r], ended[r], n) => Passed(records'[r], ended'[r], n)

LEMMA FilesPass ==
  ASSUME ReadTypeOK, ReadInv, TurnsPass, legacy' \in {legacy, {}}, archived \subseteq archived',
         \A q \in requests' : q \in requests \/ (q \in Requests /\ RequestFine(q, archived')),
         \A u \in DOMAIN ui' : \E read : read = ui'[u].read /\ ReadFine(read)'
  PROVE  ReadTypeOK' /\ ReadInv'
<1>1. ReadTypeOK'
  BY DEF ReadTypeOK, TurnsPass, Requests
<1>2. \A r \in Resources : ended[r] \in Nat /\ ended'[r] \in Nat /\ ended[r] <= ended'[r]
  BY DEF TurnsPass, TurnTypeOK, ReadTypeOK
<1>3. \A f \in legacy', r \in Resources : f.read[r] <= ended'[r] /\ f.turns[r] <= ended'[r]
  <2>1. ASSUME NEW f \in legacy', NEW r \in Resources
        PROVE  f.read[r] <= ended'[r] /\ f.turns[r] <= ended'[r]
    <3>1. f \in legacy /\ f \in OldFile
      BY DEF ReadTypeOK
    <3>2. f.read[r] \in Nat /\ f.turns[r] \in Nat
      BY <3>1 DEF OldFile
    <3>3. f.read[r] <= ended[r] /\ f.turns[r] <= ended[r]
      BY <3>1 DEF ReadInv
    <3>4. QED  BY <1>2, <3>2, <3>3
  <2>2. QED  BY <2>1
<1>4. \A q \in requests' : /\ q.op = "read" => q.resource \in Resources
                                               /\ Passed(records'[q.resource], ended'[q.resource], q.n)
                           /\ q.op = "prune" => q.resource \in archived'
  <2>1. ASSUME NEW q \in requests' PROVE RequestFine(q, archived') /\ q.n \in Nat
    <3>1. q \in Requests
      BY DEF ReadTypeOK, Requests
    <3>2. RequestFine(q, archived')
      BY DEF ReadInv, RequestFine
    <3>3. QED  BY <3>1, <3>2 DEF Requests
  <2>2. QED  BY <2>1 DEF RequestFine, TurnsPass
<1>5. \A r \in Resources : TurnFine(records'[r], numbering'[r], ended'[r], given'[r])
  BY DEF TurnsPass
<1>6. \A u \in DOMAIN ui' : ReadFine(ui[u].read)'
  BY DEF ReadFine
<1>7. ReadInv'
  BY <1>3, <1>4, <1>5, <1>6 DEF ReadInv
<1>8. QED  BY <1>1, <1>7

LEMMA FilesStep ==
  ASSUME ReadTypeOK, ReadInv, TurnsGrow, legacy' \in {legacy, {}}, archived \subseteq archived',
         \A q \in requests' : q \in requests \/ (q \in Requests /\ RequestFine(q, archived')),
         \A u \in DOMAIN ui' : \E read : read = ui'[u].read /\ ReadFine(read)'
  PROVE  ReadTypeOK' /\ ReadInv'
<1>1. TurnsPass
  BY DEF TurnsGrow, TurnsPass, Grows
<1>2. QED  BY <1>1, FilesPass

(* Where the Turns do not change, everything that may be read stays so.    *)
LEMMA SameTurns ==
  ASSUME ReadTypeOK, ReadInv, UNCHANGED <<turnVars, given>>
  PROVE  TurnsGrow
BY DEF ReadTypeOK, ReadInv, turnVars, TurnsGrow, Grows, TurnTypeOK

(* Raising the numbers given to what records and old file know.            *)
LEMMA RaisedGrows ==
  ASSUME ReadTypeOK, ReadInv, UNCHANGED turnVars, NEW old, old \subseteq legacy, given' = Raised(old)
  PROVE  TurnsGrow
<1>1. TurnTypeOK /\ \A x \in Resources : TurnFine(records[x], numbering[x], ended[x], given[x])
  BY DEF ReadTypeOK, ReadInv
<1>2. ASSUME NEW r \in Resources
      PROVE  /\ given'[r] \in Nat
             /\ Grows(records[r], numbering[r], ended[r], given[r],
                      records[r], numbering[r], ended[r], given'[r])
  <2> DEFINE S == Numbers(r) \cup {given[r]} \cup {f.turns[r] : f \in old}
  <2>1. /\ \A i \in DOMAIN records[r] : /\ records[r][i].number \in 0 .. (ended[r] + 1)
                                        /\ records[r][i].number \in Nat
        /\ given[r] \in 0 .. (ended[r] + 1) /\ given[r] \in Nat
        /\ ended[r] \in Nat /\ ended[r] + 1 \in Nat /\ numbering[r].number \in Nat
    BY <1>1, NumberFacts, TurnFacts
  <2>2. \A f \in old : f.turns[r] \in {0, 1} /\ f.turns[r] <= ended[r] /\ f.turns[r] \in 0 .. (ended[r] + 1)
    <3>1. ASSUME NEW f \in old
          PROVE  f.turns[r] \in {0, 1} /\ f.turns[r] <= ended[r]
      <4>1. f \in OldFile
        BY DEF ReadTypeOK
      <4>2. QED  BY <4>1 DEF OldFile, ReadInv
    <3>2. QED  BY <2>1, <3>1
  <2>3. S \in SUBSET (0 .. (ended[r] + 1)) /\ S # {}
    BY <2>1, <2>2, NumbersFacts
  <2>4. given[r] \in S
    OBVIOUS
  <2>5. \A y \in S : \/ \E i \in DOMAIN records[r] : y = records[r][i].number
                     \/ y = given[r]
                     \/ y \in {0, 1} /\ y <= ended[r]
    BY <2>2, NumbersFacts
  <2>6. given'[r] = Max(S)
    BY DEF Raised
  <2> HIDE DEF S
  <2>7. given'[r] \in S /\ given[r] <= given'[r] /\ given'[r] \in Nat
    <3>1. Max(S) \in S /\ \A y \in S : y <= Max(S)
      BY <2>1, <2>3, MaxFacts
    <3>2. Max(S) \in Nat
      <4>1. \A y \in 0 .. (ended[r] + 1) : y \in Nat
        OBVIOUS
      <4>2. S \subseteq 0 .. (ended[r] + 1) /\ Max(S) \in S
        BY <2>3, <3>1
      <4>3. QED  BY <4>1, <4>2, Zenon
    <3>3. QED  BY <2>4, <2>6, <3>1, <3>2
  <2>8. PICK v \in Nat : /\ v = given'[r] /\ given[r] <= v
                         /\ \/ \E i \in DOMAIN records[r] : v = records[r][i].number
                            \/ v = given[r]
                            \/ v \in {0, 1} /\ v <= ended[r]
    BY <2>5, <2>7
  <2>9. TurnFine(records[r], numbering[r], ended[r], v)
    <3>1. TurnFine(records[r], numbering[r], ended[r], given[r])
      BY <1>1
    <3>2. v <= ended[r] \/ (Runs(records[r], numbering[r]) /\ v <= numbering[r].number)
      BY <2>1, <2>8, <3>1 DEF TurnFine, Runs
    <3>3. numbering[r].at = "given" => v <= numbering[r].number
      BY <2>1, <2>8, <3>1 DEF TurnFine
    <3>4. QED  BY <3>1, <3>2, <3>3 DEF TurnFine
  <2>10. \A n \in Nat : Allowed(records[r], numbering[r], ended[r], given[r], n)
                          => Allowed(records[r], numbering[r], ended[r], v, n)
    BY <2>1, <2>8 DEF Allowed
  <2>11. QED  BY <2>1, <2>7, <2>8, <2>9, <2>10 DEF Grows
<1>3. given' \in [Resources -> Nat]
  BY <1>2 DEF Raised
<1>4. QED  BY <1>1, <1>2, <1>3 DEF TurnsGrow, TurnTypeOK, turnVars

(* A new user's cursors, and those an older file is given.                 *)
LEMMA SeededFine ==
  ASSUME ReadTypeOK, ReadInv, UNCHANGED turnVars, NEW old, old \subseteq legacy, given' = Raised(old),
         NEW read, ReadFine(read), NEW s, s = Seeded(read, given')
  PROVE  ReadFine(s)'
<1>1. TurnTypeOK /\ \A x \in Resources : TurnFine(records[x], numbering[x], ended[x], given[x])
  BY DEF ReadTypeOK, ReadInv
<1>2. TurnsGrow /\ ReadFine(read)'
  BY RaisedGrows, GrowsRead
<1> DEFINE known(r) == IF Max(Numbers(r)) > 0 THEN Completed(r) ELSE given'[r]
<1>3. ASSUME NEW r \in Resources
      PROVE  /\ known(r) \in Nat
             /\ Allowed(records[r], numbering[r], ended[r], given'[r], known(r))
  <2>1. /\ Completed(r) \in Nat /\ Completed(r) <= ended[r]
        /\ \E i \in DOMAIN records[r] : Completed(r) <= records[r][i].number
        /\ Max(Numbers(r)) \in Nat /\ (Max(Numbers(r)) = 0 <=> Bare(records[r]))
    BY <1>1, NumberFacts
  <2>2. CASE Max(Numbers(r)) > 0
    BY <2>1, <2>2 DEF Allowed
  <2>3. CASE ~(Max(Numbers(r)) > 0)
    <3>1. Bare(records[r]) /\ known(r) = given'[r]
      BY <2>1, <2>3
    <3>2. PICK v \in Nat : v = given'[r] /\ TurnFine(records[r], numbering[r], ended[r], v)
      BY <1>2 DEF TurnsGrow, TurnTypeOK, Grows, turnVars
    <3>3. ended[r] \in Nat /\ numbering[r].number \in Nat
      BY <1>1, TurnFacts
    <3>4. v <= ended[r] \/ (Runs(records[r], numbering[r]) /\ v = numbering[r].number)
      BY <3>2, <3>3 DEF TurnFine
    <3>5. Allowed(records[r], numbering[r], ended[r], v, v)
      BY <3>1, <3>2, <3>3, <3>4 DEF Allowed, Bare, TurnFine
    <3>6. QED  BY <3>1, <3>2, <3>5
  <2>4. QED  BY <2>2, <2>3
<1>4. Baseline(given') = [r \in {x \in Resources : known(x) > 0} |-> known(r)]
  BY DEF Baseline
<1> DEFINE B == Baseline(given')
<1>5. DOMAIN B \subseteq Resources /\ \A r \in DOMAIN B : B[r] = known(r)
  BY <1>4
<1> HIDE DEF known, B
<1>6. Seeded(read, given') = [r \in DOMAIN read \cup DOMAIN B |-> IF r \in DOMAIN read THEN read[r] ELSE B[r]]
  BY DEF Seeded, B
<1>8. /\ DOMAIN s \subseteq Resources
      /\ \A r \in DOMAIN s : /\ s[r] \in Nat
                             /\ Allowed(records'[r], numbering'[r], ended'[r], given'[r], s[r])
  <2>1. /\ DOMAIN read \subseteq Resources
        /\ \A r \in DOMAIN read :
             read[r] \in Nat /\ Allowed(records'[r], numbering'[r], ended'[r], given'[r], read[r])
    BY <1>2 DEF ReadFine
  <2>2. UNCHANGED <<records, numbering, ended>>
    BY DEF turnVars
  <2>3. QED  BY <1>3, <1>5, <1>6, <2>1, <2>2
<1>9. QED  BY <1>8 DEF ReadFine

(* Files that a step keeps, drops or writes.                               *)
LEMMA KeptFiles ==
  ASSUME TurnsGrow, ReadInv, NEW S, S \subseteq DOMAIN ui, NEW file, DOMAIN file = S,
         \A u \in S : file[u] = ui[u]
  PROVE  \A u \in DOMAIN file : \E read : read = file[u].read /\ ReadFine(read)'
<1>1. ASSUME NEW u \in S
      PROVE  \E read : read = file[u].read /\ ReadFine(read)'
  <2>1. PICK read : read = ui[u].read
    OBVIOUS
  <2>2. ReadFine(read)
    BY <2>1 DEF ReadInv
  <2>3. QED  BY <2>1, <2>2, GrowsRead
<1>2. QED  BY <1>1

LEMMA SavedFiles ==
  ASSUME TurnsGrow, ReadInv, NEW u, NEW read, ReadFine(read)', ui' = Saved(u, read)
  PROVE  \A x \in DOMAIN ui' : \E s : s = ui'[x].read /\ ReadFine(s)'
<1>1. /\ DOMAIN ui' = DOMAIN ui \cup {u}
      /\ \A x \in DOMAIN ui' : ui'[x].read = IF x = u THEN read ELSE ui[x].read
  BY DEF Saved, Put
<1>2. ASSUME NEW x \in DOMAIN ui', x # u
      PROVE  \E s : s = ui'[x].read /\ ReadFine(s)'
  <2>1. PICK s : s = ui[x].read
    OBVIOUS
  <2>2. ReadFine(s)
    BY <1>1, <1>2, <2>1 DEF ReadInv
  <2>3. QED  BY <1>1, <1>2, <2>1, <2>2, GrowsRead
<1>3. QED  BY <1>1, <1>2

LEMMA LoadedFine ==
  ASSUME ReadInv, NEW u, NEW read, read = Loaded(u).read
  PROVE  ReadFine(read)
BY DEF ReadInv, Loaded, NoFile, NoCursors, ReadFine

LEMMA OldFine ==
  ASSUME ReadTypeOK, ReadInv, NEW f \in legacy
  PROVE  f \in OldFile /\ legacy = {f} /\ DOMAIN f.read = Resources /\ ReadFine(f.read)
<1>1. f \in OldFile /\ legacy = {f}
  BY DEF ReadTypeOK
<1>2. DOMAIN f.read = Resources /\ \A r \in Resources : f.read[r] \in {0, 1} /\ f.read[r] \in Nat
  BY <1>1 DEF OldFile
<1>3. \A r \in Resources : f.read[r] <= ended[r] /\ f.read[r] <= 1
  BY <1>2 DEF ReadInv
<1>4. QED  BY <1>1, <1>2, <1>3 DEF ReadFine, Allowed

LEMMA PutFine ==
  ASSUME NEW read, ReadFine(read), NEW r \in Resources, NEW n \in Nat,
         Passed(records[r], ended[r], n)
  PROVE  ReadFine(Put(read, r, n))
<1>1. Allowed(records[r], numbering[r], ended[r], given[r], n)
  BY DEF Passed, Allowed
<1>2. DOMAIN Put(read, r, n) = DOMAIN read \cup {r}
  BY DEF Put
<1>3. \A x \in DOMAIN Put(read, r, n) : Put(read, r, n)[x] = IF x = r THEN n ELSE read[x]
  BY DEF Put
<1>4. QED  BY <1>1, <1>2, <1>3 DEF ReadFine

(* The actions: those of the Turns and a crash, the beginnings, the ends.  *)
LEMMA TurnsAndCrash ==
  ASSUME ReadTypeOK, ReadInv,
         ReadCrash \/ UNCHANGED readVars
         \/ \E r \in Resources : TurnStarts(r) \/ Allocates(r) \/ Numbered(r)
                                 \/ TurnCloses(r) \/ Replaced(r)
  PROVE  ReadTypeOK' /\ ReadInv'
<1>1. CASE UNCHANGED readVars
  <2>1. TurnsGrow
    BY <1>1, SameTurns DEF readVars, turnVars
  <2>2. \A u \in DOMAIN ui' : \E read : read = ui'[u].read /\ ReadFine(read)'
    BY <1>1, <2>1, KeptFiles DEF readVars
  <2>3. legacy' = legacy /\ archived' = archived /\ requests' = requests
    BY <1>1 DEF readVars
  <2>4. QED  BY <2>1, <2>2, <2>3, FilesStep
<1>2. CASE ReadCrash
  <2>1. TurnsGrow
    BY <1>2, CrashGrows
  <2>2. \E S \in SUBSET DOMAIN ui : DOMAIN ui' = S /\ \A u \in S : ui'[u] = ui[u]
    BY <1>2 DEF ReadCrash, Restrict
  <2>3. \A u \in DOMAIN ui' : \E read : read = ui'[u].read /\ ReadFine(read)'
    BY <2>1, <2>2, KeptFiles
  <2>4. legacy' = legacy /\ archived' = archived /\ requests' = {}
    BY <1>2 DEF ReadCrash
  <2>5. QED  BY <2>1, <2>3, <2>4, FilesStep
<1>3. ASSUME NEW r \in Resources,
             TurnStarts(r) \/ Allocates(r) \/ Numbered(r) \/ TurnCloses(r) \/ Replaced(r)
      PROVE  ReadTypeOK' /\ ReadInv'
  <2>1. TurnsGrow
    BY <1>3, TurnsGrowing
  <2>2. ui' = ui /\ legacy' = legacy /\ archived' = archived /\ requests' = requests
    BY <1>3 DEF TurnStarts, Allocates, Numbered, TurnCloses, Replaced
  <2>3. \A u \in DOMAIN ui' : \E read : read = ui'[u].read /\ ReadFine(read)'
    BY <2>1, <2>2, KeptFiles
  <2>4. QED  BY <2>1, <2>2, <2>3, FilesStep
<1>4. QED  BY <1>1, <1>2, <1>3

LEMMA Beginnings ==
  ASSUME ReadTypeOK, ReadInv,
         \E u \in Users : \/ \E r \in Resources, n \in 0..MaxTurnNo : ReadBegins(u, r, n)
                          \/ SaveBegins(u) \/ Registers(u) \/ DeleteBegins(u)
                          \/ \E r \in Resources : ArchiveMoves(r)
  PROVE  ReadTypeOK' /\ ReadInv'
<1>1. UNCHANGED <<turnVars, given, ui, legacy>>
  BY DEF ReadBegins, SaveBegins, Registers, DeleteBegins, ArchiveMoves
<1>2. TurnsGrow
  BY <1>1, SameTurns
<1>3. \A u \in DOMAIN ui' : \E read : read = ui'[u].read /\ ReadFine(read)'
  BY <1>1, <1>2, KeptFiles
<1>4. archived \subseteq archived' /\ \E q \in Requests : requests' = requests \cup {q} /\ RequestFine(q, archived')
  <2>1. ASSUME NEW u \in Users, NEW r \in Resources, NEW n \in 0..MaxTurnNo, ReadBegins(u, r, n)
        PROVE  archived \subseteq archived'
               /\ \E q \in Requests : requests' = requests \cup {q} /\ RequestFine(q, archived')
    <3>1. Request("read", u, r, n) \in Requests
      BY DEF Request, Requests, Ops
    <3>2. archived' = archived /\ requests' = requests \cup {Request("read", u, r, n)} /\ n <= Completed(r)
      BY <2>1 DEF ReadBegins, Begin
    <3>3. TurnTypeOK /\ TurnFine(records[r], numbering[r], ended[r], given[r])
      BY DEF ReadTypeOK, ReadInv
    <3>4. /\ Completed(r) \in Nat /\ Completed(r) <= ended[r] /\ ended[r] \in Nat
          /\ \E i \in DOMAIN records[r] : Completed(r) <= records[r][i].number
          /\ \A i \in DOMAIN records[r] : records[r][i].number \in Nat
      BY <3>3, NumberFacts, TurnFacts
    <3>5. Passed(records[r], ended[r], n)
      BY <3>2, <3>4 DEF Passed
    <3>6. RequestFine(Request("read", u, r, n), archived')
      BY <3>5 DEF RequestFine, Request
    <3>7. QED  BY <3>1, <3>2, <3>6
  <2>2. ASSUME NEW u \in Users, NEW o \in {"save", "register", "delete"},
               archived' = archived, Begin(Request(o, u, NoResource, 0))
        PROVE  archived \subseteq archived'
               /\ \E q \in Requests : requests' = requests \cup {q} /\ RequestFine(q, archived')
    <3>1. Request(o, u, NoResource, 0) \in Requests /\ RequestFine(Request(o, u, NoResource, 0), archived')
      BY DEF Request, Requests, Ops, RequestFine
    <3>2. QED  BY <2>2, <3>1 DEF Begin
  <2>3. ASSUME NEW r \in Resources, ArchiveMoves(r)
        PROVE  archived \subseteq archived'
               /\ \E q \in Requests : requests' = requests \cup {q} /\ RequestFine(q, archived')
    <3>1. archived' = archived \cup {r} /\ Begin(Request("prune", LegacyUser, r, 0))
      BY <2>3 DEF ArchiveMoves
    <3>2. /\ Request("prune", LegacyUser, r, 0) \in Requests
          /\ RequestFine(Request("prune", LegacyUser, r, 0), archived')
      BY <3>1 DEF Request, Requests, Ops, RequestFine
    <3>3. QED  BY <3>1, <3>2 DEF Begin
  <2>4. QED  BY <2>1, <2>2, <2>3 DEF SaveBegins, Registers, DeleteBegins
<1>5. QED  BY <1>1, <1>2, <1>3, <1>4, FilesStep

LEMMA RequestFacts ==
  ASSUME ReadTypeOK, ReadInv, NEW q \in requests
  PROVE  /\ q \in Requests /\ q.n \in Nat /\ q.user \in Users /\ q.op \in Ops
         /\ RequestFine(q, archived)
BY DEF ReadTypeOK, ReadInv, Requests, RequestFine

LEMMA Writings ==
  ASSUME ReadTypeOK, ReadInv, NEW q \in requests, ReadEnds(q) \/ SaveEnds(q) \/ DeleteEnds(q) \/ RegisterLists(q)
  PROVE  ReadTypeOK' /\ ReadInv'
<1>1. UNCHANGED <<turnVars, given, legacy, archived>>
  BY DEF ReadEnds, SaveEnds, DeleteEnds, RegisterLists
<1>2. TurnsGrow
  BY <1>1, SameTurns
<1>3. q \in Requests /\ q.n \in Nat /\ RequestFine(q, archived)
  BY RequestFacts
<1>4. ASSUME ReadEnds(q) \/ SaveEnds(q)
      PROVE  \A x \in DOMAIN ui' : \E s : s = ui'[x].read /\ ReadFine(s)'
  <2>1. PICK read : read = Loaded(q.user).read
    OBVIOUS
  <2>2. ReadFine(read)
    BY <2>1, LoadedFine
  <2>3. PICK s : s = Put(read, q.resource, q.n)
    OBVIOUS
  <2>4. (q.op = "read" /\ ui' = Saved(q.user, s)) \/ ui' = Saved(q.user, read)
    BY <1>4, <2>1, <2>3 DEF ReadEnds, SaveEnds
  <2>5. q.op = "read" => ReadFine(s)
    BY <1>3, <2>2, <2>3, PutFine DEF RequestFine
  <2>6. QED  BY <1>2, <2>2, <2>4, <2>5, GrowsRead, SavedFiles
<1>5. ASSUME DeleteEnds(q) \/ RegisterLists(q)
      PROVE  \A x \in DOMAIN ui' : \E s : s = ui'[x].read /\ ReadFine(s)'
  <2>1. \E S \in SUBSET DOMAIN ui : DOMAIN ui' = S /\ \A u \in S : ui'[u] = ui[u]
    <3>1. CASE ui' = ui
      BY <3>1
    <3>2. CASE ui' = Restrict(ui, DOMAIN ui \ {q.user})
      BY <3>2 DEF Restrict
    <3>3. QED  BY <1>5, <3>1, <3>2 DEF DeleteEnds, RegisterLists
  <2>2. QED  BY <1>2, <2>1, KeptFiles
<1>6. \A x \in requests' : x \in requests \/ (x \in Requests /\ RequestFine(x, archived'))
  <2>1. CASE requests' = requests \ {q}
    BY <2>1
  <2>2. CASE RegisterLists(q)
    <3>1. ASSUME NEW n \in {0, 1}, NEW x, x = [q EXCEPT !.op = "seed", !.n = n]
          PROVE  x \in Requests /\ RequestFine(x, archived')
      <4>1. x = [op |-> "seed", user |-> q.user, resource |-> q.resource, n |-> n]
        BY <1>3, <3>1 DEF Requests
      <4>2. QED  BY <1>3, <4>1 DEF Requests, RequestFine, Ops
    <3>2. QED  BY <2>2, <3>1 DEF RegisterLists
  <2>3. QED  BY <2>1, <2>2 DEF ReadEnds, SaveEnds, DeleteEnds, Finish
<1>7. QED  BY <1>1, <1>2, <1>4, <1>5, <1>6, FilesStep

LEMMA Seedings ==
  ASSUME ReadTypeOK, ReadInv, NEW q \in requests, RegisterSeeds(q)
  PROVE  ReadTypeOK' /\ ReadInv'
<1>1. archived' = archived /\ UNCHANGED turnVars /\ requests' = requests \ {q}
  BY DEF RegisterSeeds, Finish
<1>2. CASE UNCHANGED <<ui, legacy, given>>
  <2>1. TurnsGrow
    BY <1>1, <1>2, SameTurns
  <2>2. \A u \in DOMAIN ui' : \E read : read = ui'[u].read /\ ReadFine(read)'
    BY <1>2, <2>1, KeptFiles
  <2>3. QED  BY <1>1, <1>2, <2>1, <2>2, FilesStep
<1>3. CASE ~UNCHANGED <<ui, legacy, given>>
  <2>1. PICK old : old = IF q.n = 1 /\ q.user \notin DOMAIN ui THEN legacy ELSE {}
    OBVIOUS
  <2>2. PICK base : base = IF old = {} THEN Loaded(q.user).read ELSE (CHOOSE f \in old : TRUE).read
    OBVIOUS
  <2>3. given' = Raised(old) /\ ui' = Saved(q.user, Seeded(base, Raised(old))) /\ legacy' = legacy \ old
    BY <1>3, <2>1, <2>2 DEF RegisterSeeds
  <2>4. ReadFine(base)
    <3>1. CASE old = {}
      BY <2>2, <3>1, LoadedFine
    <3>2. CASE old # {}
      <4>1. PICK f \in legacy : base = f.read
        BY <2>1, <2>2, <3>2
      <4>2. QED  BY <4>1, OldFine
    <3>3. QED  BY <3>1, <3>2
  <2>5. old \subseteq legacy /\ legacy' \in {legacy, {}}
    BY <2>1, <2>3
  <2>6. TurnsGrow
    BY <1>1, <2>3, <2>5, RaisedGrows
  <2>7. PICK s : s = Seeded(base, given')
    OBVIOUS
  <2>8. ReadFine(s)'
    BY <1>1, <2>3, <2>4, <2>5, <2>7, SeededFine
  <2>9. ui' = Saved(q.user, s)
    BY <2>3, <2>7
  <2>10. \A x \in DOMAIN ui' : \E t : t = ui'[x].read /\ ReadFine(t)'
    BY <2>6, <2>8, <2>9, SavedFiles
  <2>11. QED  BY <1>1, <2>5, <2>6, <2>10, FilesStep
<1>4. QED  BY <1>2, <1>3

LEMMA Adding ==
  ASSUME ReadTypeOK, ReadInv, WorkspaceAdded
  PROVE  ReadTypeOK' /\ ReadInv'
<1>1. archived' = archived /\ UNCHANGED turnVars /\ requests' = requests /\ given' = Raised(legacy)
  BY DEF WorkspaceAdded
<1>2. TurnsGrow
  BY <1>1, RaisedGrows
<1>3. CASE UNCHANGED <<ui, legacy>>
  <2>1. \A u \in DOMAIN ui' : \E read : read = ui'[u].read /\ ReadFine(read)'
    BY <1>2, <1>3, KeptFiles
  <2>2. QED  BY <1>1, <1>2, <1>3, <2>1, FilesStep
<1>4. CASE ~UNCHANGED <<ui, legacy>>
  <2> DEFINE heir == {u \in LegacyTarget : legacy # {} /\ u \notin DOMAIN ui}
             base(u) == IF u \in heir THEN (CHOOSE f \in legacy : TRUE).read ELSE Loaded(u).read
             late == {u \in profiles : u \notin DOMAIN ui \/ ui[u].version < 2}
  <2>1. /\ ui' = [u \in DOMAIN ui \cup late |->
                     IF u \in late THEN [version |-> 2, read |-> Seeded(base(u), Raised(legacy))] ELSE ui[u]]
        /\ legacy' = Remaining(heir)
    BY <1>4 DEF WorkspaceAdded
  <2>2. legacy' \in {legacy, {}}
    BY <2>1 DEF Remaining
  <2>3. ASSUME NEW u, NEW t, t = base(u)
        PROVE  ReadFine(t)
    <3>1. CASE u \in heir
      <4>1. PICK f \in legacy : t = f.read
        BY <2>3, <3>1
      <4>2. QED  BY <4>1, OldFine
    <3>2. CASE u \notin heir
      BY <2>3, <3>2, LoadedFine
    <3>3. QED  BY <3>1, <3>2
  <2> HIDE DEF base, heir, late
  <2>4. ASSUME NEW u \in DOMAIN ui'
        PROVE  \E s : s = ui'[u].read /\ ReadFine(s)'
    <3>1. CASE u \in late
      <4>1. PICK t : t = base(u)
        OBVIOUS
      <4>2. ReadFine(t)
        BY <2>3, <4>1
      <4>3. PICK s : s = Seeded(t, given')
        OBVIOUS
      <4>4. ReadFine(s)'
        BY <1>1, <4>2, <4>3, SeededFine
      <4>5. ui'[u].read = s
        BY <1>1, <2>1, <3>1, <4>1, <4>3
      <4>6. QED  BY <4>4, <4>5
    <3>2. CASE u \notin late
      <4>1. u \in DOMAIN ui /\ ui'[u] = ui[u]
        BY <2>1, <3>2
      <4>2. PICK s : s = ui[u].read
        OBVIOUS
      <4>3. ReadFine(s)
        BY <4>1, <4>2 DEF ReadInv
      <4>4. QED  BY <1>2, <4>1, <4>2, <4>3, GrowsRead
    <3>3. QED  BY <3>1, <3>2
  <2>5. QED  BY <1>1, <1>2, <2>2, <2>4, FilesStep
<1>5. QED  BY <1>3, <1>4

LEMMA Pruning ==
  ASSUME ReadTypeOK, ReadInv, NEW q \in requests, Prunes(q)
  PROVE  ReadTypeOK' /\ ReadInv'
<1>1. archived' = archived /\ UNCHANGED turnVars /\ requests' = requests \ {q} /\ legacy' = legacy
  BY DEF Prunes, Finish
<1>2. CASE UNCHANGED <<ui, given>>
  <2>1. TurnsGrow
    BY <1>1, <1>2, SameTurns
  <2>2. \A u \in DOMAIN ui' : \E read : read = ui'[u].read /\ ReadFine(read)'
    BY <1>2, <2>1, KeptFiles
  <2>3. QED  BY <1>1, <2>1, <2>2, FilesStep
<1>3. CASE ~UNCHANGED <<ui, given>>
  <2>1. /\ ui' = [u \in DOMAIN ui |->
                     IF q.resource \in DOMAIN ui[u].read
                     THEN [version |-> 2, read |-> Restrict(ui[u].read, DOMAIN ui[u].read \ {q.resource})]
                     ELSE ui[u]]
        /\ given' = [given EXCEPT ![q.resource] = 0]
    BY <1>3 DEF Prunes
  <2>2. TurnTypeOK /\ \A x \in Resources : TurnFine(records[x], numbering[x], ended[x], given[x])
    BY DEF ReadTypeOK, ReadInv
  <2>3. given' \in [Resources -> Nat] /\ \A r \in Resources : given'[r] = IF r = q.resource THEN 0 ELSE given[r]
    BY <2>1, <2>2 DEF TurnTypeOK
  <2>4. records' = records /\ numbering' = numbering /\ ended' = ended
    BY <1>1 DEF turnVars
  <2>5. ASSUME NEW r \in Resources
        PROVE  /\ TurnFine(records[r], numbering[r], ended[r], 0)
               /\ ended[r] <= ended[r]
    <3>1. ended[r] \in Nat /\ numbering[r].number \in Nat /\ TurnFine(records[r], numbering[r], ended[r], given[r])
      BY <2>2, TurnFacts
    <3>2. QED  BY <3>1 DEF TurnFine
  <2>6. TurnsPass
    <3>1. TurnTypeOK'
      BY <2>2, <2>3, <2>4 DEF TurnTypeOK
    <3>2. ASSUME NEW r \in Resources PROVE TurnFine(records[r], numbering[r], ended[r], given'[r])
      BY <2>2, <2>3, <2>5
    <3>3. QED  BY <2>4, <2>5, <3>1, <3>2 DEF TurnsPass
  <2>7. ASSUME NEW u \in DOMAIN ui'
        PROVE  \E s : s = ui'[u].read /\ ReadFine(s)'
    <3>1. PICK s : s = ui'[u].read
      OBVIOUS
    <3>2. /\ u \in DOMAIN ui /\ DOMAIN s = DOMAIN ui[u].read \ {q.resource}
          /\ \A r \in DOMAIN s : s[r] = ui[u].read[r]
      <4>1. CASE q.resource \in DOMAIN ui[u].read
        BY <2>1, <3>1, <4>1 DEF Restrict
      <4>2. CASE q.resource \notin DOMAIN ui[u].read
        BY <2>1, <3>1, <4>2
      <4>3. QED  BY <4>1, <4>2
    <3>3. ReadFine(ui[u].read)
      BY <3>2 DEF ReadInv
    <3>4. \A r \in DOMAIN s : r \in Resources /\ given'[r] = given[r]
      BY <2>3, <3>2, <3>3 DEF ReadFine
    <3>5. ReadFine(s)'
      BY <2>4, <3>2, <3>3, <3>4 DEF ReadFine
    <3>6. QED  BY <3>1, <3>5
  <2>8. QED  BY <1>1, <2>6, <2>7, FilesPass
<1>4. QED  BY <1>2, <1>3

LEMMA ReadStepInv ==
  ASSUME ReadTypeOK, ReadInv, [ReadNext]_readVars
  PROVE  ReadTypeOK' /\ ReadInv'
BY TurnsAndCrash, Beginnings, Writings, Seedings, Adding, Pruning DEF ReadNext

LEMMA ReadInitInv == ReadInit => ReadTypeOK /\ ReadInv
<1> SUFFICES ASSUME ReadInit PROVE ReadTypeOK /\ ReadInv
  OBVIOUS
<1>1. PICK n \in [Resources -> {0, 1}], old \in BOOLEAN :
         /\ records = [r \in Resources |-> <<[number |-> n[r], active |-> FALSE]>>]
         /\ ended = [r \in Resources |-> IF old THEN 1 ELSE n[r]]
         /\ legacy = IF old THEN {[read |-> [r \in Resources |-> n[r]], turns |-> ended]} ELSE {}
  BY DEF ReadInit
<1>2. /\ given = [r \in Resources |-> 0]
      /\ numbering = [r \in Resources |-> NoNumber("none")]
      /\ archived = {} /\ requests = {}
  BY DEF ReadInit
<1>3. \A r \in Resources : n[r] \in {0, 1} /\ ended[r] \in {0, 1} /\ n[r] <= ended[r] /\ (old => ended[r] = 1)
  BY <1>1
<1>4. ASSUME NEW r \in Resources
      PROVE  /\ [number |-> n[r], active |-> FALSE] \in Gen
             /\ records[r] \in Seq(Gen) /\ Len(records[r]) = 1 /\ DOMAIN records[r] = {1}
             /\ records[r][1].number = n[r] /\ ~records[r][1].active
  BY <1>1, <1>3 DEF Gen
<1>5. ended \in [Resources -> {0, 1}] /\ ended \in [Resources -> Nat]
  BY <1>1, <1>3
<1>6. TurnTypeOK
  <2>1. records \in [Resources -> Seq(Gen)] /\ \A r \in Resources : Len(records[r]) # 0
    BY <1>1, <1>4
  <2>2. numbering \in [Resources -> Number] /\ given \in [Resources -> Nat]
    BY <1>2 DEF Number, NoNumber
  <2>3. QED  BY <1>5, <2>1, <2>2 DEF TurnTypeOK
<1>7. legacy = {} \/ \E f \in OldFile : legacy = {f}
  BY <1>1, <1>5 DEF OldFile
<1>8. ASSUME NEW r \in Resources PROVE TurnFine(records[r], numbering[r], ended[r], given[r])
  <2>1. /\ numbering[r] = NoNumber("none") /\ given[r] = 0 /\ ended[r] \in Nat
        /\ \A i \in DOMAIN records[r] : i = 1 /\ records[r][i].number = n[r] /\ ~records[r][i].active
    <3>1. numbering[r] = NoNumber("none") /\ given[r] = 0
      BY <1>2
    <3>2. ended[r] \in Nat
      BY <1>3
    <3>3. QED  BY ZenonT(30), <1>4, <3>1, <3>2
  <2>2. ~records[r][Len(records[r])].active
    BY <1>4
  <2>3. QED  BY <1>3, <2>1, <2>2 DEF TurnFine, Runs, NoNumber
<1>9. \A f \in legacy, r \in Resources : f.read[r] <= ended[r] /\ f.turns[r] <= ended[r]
  BY <1>1, <1>3
<1>10. \A u \in DOMAIN ui : ReadFine(ui[u].read)
  <2>1. \A u \in DOMAIN ui : ui[u].read = ended
    BY DEF ReadInit
  <2>2. ReadFine(ended)
    BY <1>3, <1>5 DEF ReadFine, Allowed
  <2>3. QED  BY <2>1, <2>2 DEF ReadFine
<1>11. QED  BY <1>2, <1>6, <1>7, <1>8, <1>9, <1>10 DEF ReadTypeOK, ReadInv

(* The turns of every resource are numbered in order and every cursor says *)
(* what it may, in every state of the specification, for any number of     *)
(* users, resources, generations, requests and faults.                     *)
THEOREM SpecReadInv == ReadSpec => [](ReadTypeOK /\ ReadInv)
<1>1. ReadInit => ReadTypeOK /\ ReadInv
  BY ReadInitInv
<1>2. (ReadTypeOK /\ ReadInv) /\ [ReadNext]_readVars => (ReadTypeOK /\ ReadInv)'
  BY ReadStepInv
<1>3. QED  BY <1>1, <1>2, PTL DEF ReadSpec

LEMMA CursorFacts ==
  ASSUME ReadTypeOK, ReadInv, NEW u \in Users, NEW r \in Resources
  PROVE  /\ Cursor(u, r) \in Nat
         /\ Allowed(records[r], numbering[r], ended[r], given[r], Cursor(u, r))
<1>1. ended[r] \in Nat
  BY DEF ReadTypeOK, TurnTypeOK
<1>2. CASE u \in DOMAIN ui /\ r \in DOMAIN ui[u].read
  <2>1. ReadFine(ui[u].read)
    BY <1>2 DEF ReadInv
  <2>2. QED  BY <1>2, <2>1 DEF ReadFine, Cursor
<1>3. CASE ~(u \in DOMAIN ui /\ r \in DOMAIN ui[u].read)
  BY <1>1, <1>3 DEF Cursor, Allowed
<1>4. QED  BY <1>2, <1>3

(* No user has read a Turn that has not ended, but for one that runs and   *)
(* whose number was given while no record of the resource showed any.      *)
THEOREM SpecReadNeverAhead == ReadSpec => []ReadNeverAhead
<1>1. ReadTypeOK /\ ReadInv => ReadNeverAhead
  <2> SUFFICES ASSUME ReadTypeOK, ReadInv, NEW u \in Users, NEW r \in Resources
               PROVE  \/ Cursor(u, r) <= ended[r]
                      \/ numbering[r].first /\ Cursor(u, r) = numbering[r].number
    BY DEF ReadNeverAhead
  <2>1. PICK n \in Nat : n = Cursor(u, r) /\ Allowed(records[r], numbering[r], ended[r], given[r], n)
    BY CursorFacts
  <2>2. QED  BY <2>1 DEF Allowed
<1>2. QED  BY <1>1, SpecReadInv, PTL

-----------------------------------------------------------------------------
(* What a step may do to numbers, cursors and the older file.              *)
LEMMA NewTurnStep ==
  ASSUME ReadTypeOK, ReadInv, ReadNext, NEW r \in Resources, NEW i \in DOMAIN records[r],
         records'[r][i].number # records[r][i].number, ~Unnumbered(r)
  PROVE  /\ \A m \in Numbers(r) : records'[r][i].number > m
         /\ \A u \in Users : records'[r][i].number > Cursor(u, r)
<1> DEFINE g == records[r]
           n == numbering[r].number
<1>1. TurnTypeOK /\ TurnFine(g, numbering[r], ended[r], given[r])
  BY DEF ReadTypeOK, ReadInv
<1>2. /\ g \in Seq(Gen) /\ Len(g) # 0 /\ n \in Nat
      /\ \A k \in DOMAIN g : g[k].number \in Nat
  BY <1>1, TurnFacts
<1>3. numbering[r].at = "given" /\ records'[r] = [g EXCEPT ![Len(g)].number = n]
  <2>1. CASE records'[r] = g
    BY <2>1
  <2>2. ASSUME NEW b \in BOOLEAN PROVE records'[r] # [g EXCEPT ![Len(g)].active = b]
    <3>1. PICK h : h = [g EXCEPT ![Len(g)].active = b]
      OBVIOUS
    <3>2. h[i].number = g[i].number
      BY <1>2, <3>1, GenEdits
    <3>3. QED  BY <3>1, <3>2
  <2>3. records'[r] # Append(g, [number |-> 0, active |-> FALSE])
    <3>1. [number |-> 0, active |-> FALSE] \in Gen
      BY DEF Gen
    <3>2. QED  BY <1>2, <3>1
  <2>4. \A x \in Resources : TurnStarts(x) => records'[r] \in {g, [g EXCEPT ![Len(g)].active = TRUE]}
    BY <1>1 DEF TurnStarts, TurnTypeOK
  <2>5. \A x \in Resources : TurnCloses(x) => records'[r] \in {g, [g EXCEPT ![Len(g)].active = FALSE]}
    BY <1>1 DEF TurnCloses, TurnTypeOK
  <2>6. \A x \in Resources : Replaced(x) => records'[r] \in {g, Append(g, [number |-> 0, active |-> FALSE])}
    BY <1>1 DEF Replaced, TurnTypeOK
  <2>7. \A x \in Resources : Numbered(x) =>
           records'[r] = g \/ (numbering[r].at = "given" /\ records'[r] = [g EXCEPT ![Len(g)].number = n])
    BY <1>1 DEF Numbered, TurnTypeOK
  <2>8. \/ records' = records
        \/ \E x \in Resources : TurnStarts(x) \/ TurnCloses(x) \/ Replaced(x) \/ Numbered(x)
    BY DEF ReadNext, Allocates, ArchiveMoves, ReadBegins, SaveBegins, Registers, DeleteBegins, ReadEnds,
           SaveEnds, RegisterLists, RegisterSeeds, DeleteEnds, Prunes, WorkspaceAdded, ReadCrash, turnVars
  <2>9. QED  BY <2>1, <2>2, <2>3, <2>4, <2>5, <2>6, <2>7, <2>8
<1>4. records'[r][i].number = n
  BY <1>2, <1>3, GenEdits
<1>5. \A k \in DOMAIN g : g[k].number < n
  BY <1>1, <1>3 DEF TurnFine
<1>6. PICK k \in DOMAIN g : g[k].number # 0
  <2>1. ~Bare(g)
    BY <1>1, NumberFacts DEF Unnumbered
  <2>2. QED  BY <2>1 DEF Bare
<1>7. n > 1
  BY <1>2, <1>5, <1>6
<1>8. ASSUME NEW u \in Users PROVE n > Cursor(u, r)
  <2>1. PICK c \in Nat : c = Cursor(u, r) /\ Allowed(g, numbering[r], ended[r], given[r], c)
    BY CursorFacts
  <2>2. c <= 1 \/ \E j \in DOMAIN g : c <= g[j].number
    BY <1>6, <2>1 DEF Allowed, Bare
  <2>3. QED  BY <1>2, <1>5, <1>7, <2>1, <2>2
<1>9. \A m \in Numbers(r) : n > m
  BY <1>2, <1>5, NumbersFacts
<1>10. QED  BY <1>4, <1>8, <1>9

LEMMA SeededKeeps ==
  ASSUME NEW read, NEW shared, NEW s, s = Seeded(read, shared)
  PROVE  DOMAIN read \subseteq DOMAIN s /\ \A r \in DOMAIN read : s[r] = read[r]
<1>1. PICK B : B = Baseline(shared)
  OBVIOUS
<1>2. s = [r \in DOMAIN read \cup DOMAIN B |-> IF r \in DOMAIN read THEN read[r] ELSE B[r]]
  BY <1>1 DEF Seeded
<1>3. QED  BY <1>2

LEMMA CursorStep ==
  ASSUME ReadTypeOK, ReadInv, [ReadNext]_readVars, NEW u \in Users, NEW r \in Resources,
         Cursor(u, r)' < Cursor(u, r), u \in DOMAIN ui'
  PROVE  r \in archived
<1>1. Cursor(u, r) \in Nat
  BY CursorFacts
<1>2. Cursor(u, r)' \in Nat
  <2>1. ReadTypeOK' /\ ReadInv'
    BY ReadStepInv
  <2>2. ReadFine(ui[u].read)'
    BY <2>1 DEF ReadInv
  <2>3. QED  BY <2>2 DEF ReadFine, Cursor
<1>3. u \in DOMAIN ui /\ r \in DOMAIN ui[u].read /\ Cursor(u, r) = ui[u].read[r]
  BY <1>1, <1>2 DEF Cursor
<1>4. ASSUME NEW s, ui'[u].read = s, r \in DOMAIN s, s[r] >= ui[u].read[r]
      PROVE  FALSE
  <2>1. Cursor(u, r)' = s[r]
    BY <1>4 DEF Cursor
  <2>2. QED  BY <1>1, <1>2, <1>3, <1>4, <2>1
<1>5. ui'[u].read # ui[u].read
  BY <1>1, <1>3, <1>4
<1>6. PICK old : old = ui[u].read
  OBVIOUS
<1>7. Loaded(u).read = old
  BY <1>3, <1>6 DEF Loaded
<1>8. \A v, s : ui' = Saved(v, s) => v = u /\ ui'[u].read = s
  BY <1>3, <1>5 DEF Saved, Put
<1>9. ASSUME NEW q \in requests, ReadEnds(q) \/ SaveEnds(q)
      PROVE  FALSE
  <2>1. PICK s : s = Put(old, q.resource, q.n)
    OBVIOUS
  <2>2. q.user = u /\ \/ ui'[u].read = old
                      \/ ui'[u].read = s /\ ~(q.resource \in DOMAIN old /\ old[q.resource] >= q.n)
    BY <1>7, <1>8, <1>9, <2>1 DEF ReadEnds, SaveEnds
  <2>3. r \in DOMAIN s /\ s[r] = IF r = q.resource THEN q.n ELSE old[r]
    BY <1>3, <1>6, <2>1 DEF Put
  <2>4. q.n \in Nat
    BY RequestFacts
  <2>5. ui'[u].read = s => s[r] >= old[r]
    BY <1>1, <1>3, <1>5, <1>6, <2>2, <2>3, <2>4
  <2>6. QED  BY <1>4, <1>5, <1>6, <2>2, <2>3, <2>5
<1>10. ASSUME NEW s, ui'[u].read = s, NEW shared, s = Seeded(old, shared)
       PROVE  FALSE
  <2>1. r \in DOMAIN s /\ s[r] = old[r]
    BY <1>3, <1>6, <1>10, SeededKeeps
  <2>2. QED  BY <1>1, <1>3, <1>4, <1>6, <1>10, <2>1
<1>11. ASSUME NEW q \in requests, RegisterSeeds(q)
       PROVE  FALSE
  <2>1. ui' # ui
    BY <1>5
  <2>2. PICK v, base : /\ v = q.user /\ ui' = Saved(q.user, Seeded(base, given'))
                       /\ v \in DOMAIN ui => base = Loaded(v).read
    BY <1>11, <2>1 DEF RegisterSeeds
  <2>3. q.user = u /\ ui'[u].read = Seeded(base, given')
    BY <1>8, <2>2
  <2>4. base = old
    BY <1>3, <1>7, <2>2, <2>3
  <2>5. QED  BY <1>10, <2>3, <2>4
<1>12. ASSUME WorkspaceAdded
       PROVE  FALSE
  <2> DEFINE heir == {x \in LegacyTarget : legacy # {} /\ x \notin DOMAIN ui}
             base(x) == IF x \in heir THEN (CHOOSE f \in legacy : TRUE).read ELSE Loaded(x).read
             late == {x \in profiles : x \notin DOMAIN ui \/ ui[x].version < 2}
  <2>1. ui' = [x \in DOMAIN ui \cup late |->
                  IF x \in late THEN [version |-> 2, read |-> Seeded(base(x), Raised(legacy))] ELSE ui[x]]
    BY <1>5, <1>12 DEF WorkspaceAdded
  <2>2. base(u) = old
    BY <1>3, <1>7
  <2> HIDE DEF heir, base, late
  <2>3. ui'[u].read = Seeded(base(u), Raised(legacy))
    BY <1>3, <1>5, <2>1
  <2>4. QED  BY <1>10, <2>2, <2>3
<1>13. ASSUME NEW q \in requests, Prunes(q)
       PROVE  r \in archived
  <2>1. q.resource \in archived
    BY <1>13, RequestFacts DEF Prunes, RequestFine
  <2>2. ui' = [x \in DOMAIN ui |->
                  IF q.resource \in DOMAIN ui[x].read
                  THEN [version |-> 2, read |-> Restrict(ui[x].read, DOMAIN ui[x].read \ {q.resource})]
                  ELSE ui[x]]
    BY <1>5, <1>13 DEF Prunes
  <2>3. ui'[u].read = Restrict(old, DOMAIN old \ {q.resource})
    BY <1>3, <1>5, <1>6, <2>2
  <2>4. r # q.resource => r \in DOMAIN ui'[u].read /\ ui'[u].read[r] = old[r]
    BY <1>3, <1>6, <2>3 DEF Restrict
  <2>5. QED  BY <1>1, <1>3, <1>4, <1>6, <2>1, <2>4
<1>14. (\E S \in SUBSET DOMAIN ui : ui' = Restrict(ui, S)) => FALSE
  BY <1>5 DEF Restrict
<1>15. ui' # ui
  BY <1>5
<1>16. ASSUME NEW q \in requests, DeleteEnds(q)
       PROVE  FALSE
  BY <1>14, <1>15, <1>16 DEF DeleteEnds
<1>17. ~ReadCrash
  BY <1>14, <1>15 DEF ReadCrash
<1>18. \/ \E q \in requests : ReadEnds(q) \/ SaveEnds(q) \/ RegisterSeeds(q) \/ DeleteEnds(q) \/ Prunes(q)
       \/ WorkspaceAdded \/ ReadCrash
  BY <1>15 DEF ReadNext, readVars, TurnStarts, Allocates, Numbered, TurnCloses, Replaced, ArchiveMoves,
               ReadBegins, SaveBegins, Registers, DeleteBegins, RegisterLists
<1>19. QED  BY <1>9, <1>11, <1>12, <1>13, <1>16, <1>17, <1>18

LEMMA LegacyStep ==
  ASSUME ReadTypeOK, ReadInv, [ReadNext]_readVars, legacy # {}, legacy' = {}
  PROVE  \E u \in DOMAIN ui' \ DOMAIN ui :
            \A f \in legacy, r \in Resources : ui'[u].read[r] >= f.read[r]
<1>1. PICK f \in legacy : f = (CHOOSE x \in legacy : TRUE)
  OBVIOUS
<1>2. legacy = {f} /\ DOMAIN f.read = Resources /\ f \in OldFile
  BY OldFine
<1>3. \A r \in Resources : f.read[r] \in Nat
  BY <1>2 DEF OldFile
<1>4. ASSUME NEW u \in DOMAIN ui', u \notin DOMAIN ui, NEW shared, ui'[u].read = Seeded(f.read, shared)
      PROVE  \E x \in DOMAIN ui' \ DOMAIN ui :
                \A y \in legacy, r \in Resources : ui'[x].read[r] >= y.read[r]
  <2>1. PICK s : s = Seeded(f.read, shared)
    OBVIOUS
  <2>2. \A r \in Resources : s[r] = f.read[r]
    BY <1>2, <2>1, SeededKeeps
  <2>3. \A r \in Resources : ui'[u].read[r] >= f.read[r]
    BY <1>3, <1>4, <2>1, <2>2
  <2>4. QED  BY <1>2, <1>4, <2>3
<1>5. ASSUME NEW q \in requests, RegisterSeeds(q)
      PROVE  \E u \in DOMAIN ui' : /\ u \notin DOMAIN ui
                                   /\ ui'[u].read = Seeded(f.read, Raised(legacy))
  <2>1. ~UNCHANGED <<ui, legacy, given>>
    OBVIOUS
  <2>2. q.n = 1 /\ q.user \notin DOMAIN ui
    BY <1>5, <2>1 DEF RegisterSeeds
  <2>3. ui' = Saved(q.user, Seeded(f.read, Raised(legacy)))
    BY <1>1, <1>5, <2>1, <2>2 DEF RegisterSeeds
  <2>4. q.user \in DOMAIN ui' /\ ui'[q.user].read = Seeded(f.read, Raised(legacy))
    BY <2>3 DEF Saved, Put
  <2>5. QED  BY <2>2, <2>4
<1>6. ASSUME WorkspaceAdded
      PROVE  \E u \in DOMAIN ui' : /\ u \notin DOMAIN ui
                                   /\ ui'[u].read = Seeded(f.read, Raised(legacy))
  <2> DEFINE heir == {x \in LegacyTarget : legacy # {} /\ x \notin DOMAIN ui}
             base(x) == IF x \in heir THEN (CHOOSE y \in legacy : TRUE).read ELSE Loaded(x).read
             late == {x \in profiles : x \notin DOMAIN ui \/ ui[x].version < 2}
  <2>1. /\ ui' = [x \in DOMAIN ui \cup late |->
                     IF x \in late THEN [version |-> 2, read |-> Seeded(base(x), Raised(legacy))] ELSE ui[x]]
        /\ legacy' = Remaining(heir)
    BY <1>6 DEF WorkspaceAdded
  <2>2. PICK u : u \in heir
    BY <2>1 DEF Remaining
  <2>3. u \notin DOMAIN ui /\ u \in late
    BY <2>2 DEF LegacyTarget
  <2>4. base(u) = f.read
    BY <1>1, <2>2
  <2> HIDE DEF heir, base, late
  <2>5. u \in DOMAIN ui' /\ ui'[u].read = Seeded(base(u), Raised(legacy))
    BY <2>1, <2>3
  <2>6. QED  BY <2>3, <2>4, <2>5
<1>7. WorkspaceAdded \/ \E q \in requests : RegisterSeeds(q)
  <2>1. legacy' # legacy
    OBVIOUS
  <2>2. QED
    BY <2>1 DEF ReadNext, readVars, TurnStarts, Allocates, Numbered, TurnCloses, Replaced, ArchiveMoves,
                ReadBegins, SaveBegins, Registers, DeleteBegins, RegisterLists, ReadEnds, SaveEnds,
                DeleteEnds, Prunes, ReadCrash
<1>8. QED  BY <1>4, <1>5, <1>6, <1>7

(* A Turn that gets its number is unread for everyone, a cursor falls only *)
(* with its user or its resource, and the file of an older version goes    *)
(* only to a user who had none, over every interleaving of browsers,       *)
(* registrations, archive moves, prunes, restarts and failed writes.       *)
THEOREM SpecReadStateKept == ReadSpec => ReadStateKept
<1>1. ReadTypeOK /\ ReadInv /\ [ReadNext]_readVars
        => [\A r \in Resources : \A i \in DOMAIN records[r] :
              LET n == records'[r][i].number
              IN (n # records[r][i].number /\ ~Unnumbered(r)) =>
                    /\ \A m \in Numbers(r) : n > m
                    /\ \A u \in Users : n > Cursor(u, r)]_readVars
  BY NewTurnStep
<1>2. ReadTypeOK /\ ReadInv /\ [ReadNext]_readVars
        => [\A u \in Users, r \in Resources :
              Cursor(u, r)' < Cursor(u, r) => u \notin DOMAIN ui' \/ r \in archived]_readVars
  BY CursorStep
<1>3. ReadTypeOK /\ ReadInv /\ [ReadNext]_readVars
        => [(legacy # {} /\ legacy' = {}) =>
              \E u \in DOMAIN ui' \ DOMAIN ui :
                 \A f \in legacy, r \in Resources : ui'[u].read[r] >= f.read[r]]_readVars
  BY LegacyStep
<1>4. QED
  BY <1>1, <1>2, <1>3, SpecReadInv, PTL
     DEF ReadSpec, ReadStateKept, NewTurnIsUnread, CursorsKept, LegacyKept
=============================================================================
