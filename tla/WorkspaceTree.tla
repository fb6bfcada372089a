---------------------------- MODULE WorkspaceTree ----------------------------
(***************************************************************************)
(* The directories of a Workspace (app/task.go, app/api.go).  A Project is a *)
(* directory of the root, a Task one of its Project; the archived ones lie   *)
(* in the archive directory beside the open ones, so a resource is archived  *)
(* by one rename and a Project takes its Tasks along.  No index exists: ids  *)
(* are found, and the next one chosen, by reading the directories.           *)
(*                                                                           *)
(* Every PUA process may create and archive; application.lock serializes     *)
(* them.  Agents edit the files directly and take no lock: metadata may be   *)
(* unreadable for a while, which hides a directory from every lookup.  The   *)
(* staging directory of a creation matches no name a lookup accepts.         *)
(***************************************************************************)
EXTENDS Naturals, Sequences, FiniteSets, FiniteSetsExt

CONSTANTS
    Slugs,        \* readable suffixes of directory names
    MaxProjects, MaxTasks, \* numbers of Projects, and of the Tasks of one (bounds)
    MaxDirs,      \* directories of the Workspace (bound)
    MaxTreeFaults \* edits that spoil metadata, failed creations (bound)

ASSUME TreeAssumption ==
    Slugs # {} /\ {MaxProjects, MaxTasks, MaxDirs, MaxTreeFaults} \subseteq Nat

VARIABLES
    tree,      \* the directories in the order they appeared, each where it lies now
    creating,  \* the creation that holds application.lock
    treeFaults

treeVars == <<tree, creating, treeFaults>>

Dirs == DOMAIN tree
Id(d) == <<tree[d].project, tree[d].task>>
Ids == (1..MaxProjects) \X (0..MaxTasks)
ProjectOf(id) == <<id[1], 0>>

IsProject(d) == tree[d].home = 0

(* The mutant of ArchivedSettles looks at the directory's own place. *)
IsArchivedItself(d) == tree[d].place = "archive"

(* isArchivedPath: any part of the path is an archive directory. *)
IsArchived(d) ==
    \/ tree[d].place = "archive"
    \/ tree[d].home # 0 /\ tree[tree[d].home].place = "archive"

TasksIn(p) == {d \in Dirs : tree[d].home = p}

(* findResourceDir: exactly one readable directory has the id, and for a    *)
(* Task only the directory of its Project is searched.  {} is an error.     *)
Unique(S) == IF Cardinality(S) = 1 THEN S ELSE {}
FindProject(id) == Unique({d \in Dirs : IsProject(d) /\ Id(d) = ProjectOf(id) /\ tree[d].good})
Find(id) ==
    IF id[2] = 0 THEN FindProject(id)
    ELSE Unique({d \in Dirs : tree[d].good /\ Id(d) = id /\ tree[d].home \in FindProject(id)})

Archived(id) == \E d \in Find(id) : IsArchived(d)
OpenDir(id) == {d \in Find(id) : ~IsArchived(d)}

(* The number of a new Project is above every directory name, readable or   *)
(* not; that of a new Task above every readable Task of its Project.        *)
NextProject == Max({0} \cup {tree[d].project : d \in {x \in Dirs : IsProject(x)}}) + 1

(* Mutant of UniqueIds: the archive directory is not read. *)
NextTaskOfOpen(p) == Max({0} \cup {tree[d].task : d \in {x \in TasksIn(p) : tree[x].good /\ tree[x].place = "open"}}) + 1

NextTask(p) == Max({0} \cup {tree[d].task : d \in {x \in TasksIn(p) : tree[x].good}}) + 1

Free == creating = {}

Spoils == /\ treeFaults < MaxTreeFaults
          /\ treeFaults' = treeFaults + 1

(* A process takes the lock, chooses the id and stages the files ... *)
Begins(by, project, task, home) ==
    /\ Free /\ Len(tree) < MaxDirs /\ <<project, task>> \in Ids
    /\ \E slug \in Slugs :
          creating' = {[by |-> by, dir |-> [project |-> project, task |-> task, home |-> home, place |-> "open",
                                            slug |-> slug, good |-> TRUE, hidden |-> FALSE]]}
    /\ UNCHANGED <<tree, treeFaults>>

CreateProject(by) == Begins(by, NextProject, 0, 0)

CreateTask(by, id) ==
    \E p \in OpenDir(id) : id[2] = 0 /\ Begins(by, id[1], NextTask(p), p)

(* ... and the rename is the commit.  It fails when the name is taken. *)
SameName(a, b) == a.home = b.home /\ a.place = b.place /\ a.slug = b.slug
                  /\ a.project = b.project /\ a.task = b.task

CreateCommits ==
    \E c \in creating :
       /\ tree' = IF \E d \in Dirs : SameName(tree[d], c.dir) THEN tree ELSE Append(tree, c.dir)
       /\ creating' = {}
       /\ UNCHANGED treeFaults

CreationFails == Spoils /\ creating # {} /\ creating' = {} /\ UNCHANGED tree

(* archiveResource, under the lock from the lookup to the rename. *)
MayMove(id) ==
    {d \in OpenDir(id) : \A e \in Dirs : ~SameName(tree[e], [tree[d] EXCEPT !.place = "archive"])}

Moves(id) == \E d \in MayMove(id) : tree' = [tree EXCEPT ![d].place = "archive"]

CliArchives(id) == Free /\ Moves(id) /\ UNCHANGED <<creating, treeFaults>>

(* An agent edits the metadata file of a resource in its own directory. *)
Garble(d) ==
    /\ Spoils /\ tree[d].good
    /\ tree' = [tree EXCEPT ![d].good = FALSE, ![d].hidden = TRUE]
    /\ UNCHANGED creating

Repair(d) ==
    /\ ~tree[d].good
    /\ tree' = [tree EXCEPT ![d].good = TRUE]
    /\ UNCHANGED <<creating, treeFaults>>

TreeInit == tree = <<>> /\ creating = {} /\ treeFaults = 0

TreeNext ==
    \/ \E by \in {"server", "cli"} : CreateProject(by) \/ \E id \in Ids : CreateTask(by, id)
    \/ CreateCommits \/ CreationFails
    \/ \E id \in Ids : CliArchives(id)
    \/ \E d \in Dirs : Garble(d) \/ Repair(d)

TreeSpec == TreeInit /\ [][TreeNext]_treeVars
-----------------------------------------------------------------------------
(* The id of a resource is never given again, whoever creates and archives  *)
(* in between (archived ids included), unless the older directory is a Task *)
(* whose metadata was unreadable: then two directories claim the id, and    *)
(* neither is found.                                                        *)
UniqueIds ==
    \A a, b \in Dirs : (a < b /\ Id(a) = Id(b)) => ~IsProject(a) /\ tree[a].hidden
=============================================================================
