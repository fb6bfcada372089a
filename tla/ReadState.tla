------------------------------ MODULE ReadState ------------------------------
(***************************************************************************)
(* What each Workspace user has read (resource_attention.go, users.go).     *)
(* Three files tell it together: the generation records number the Turns of *)
(* a resource, resource-state.json keeps the highest number given, and the  *)
(* ui-state.json of a user keeps a cursor per resource.  The last two are   *)
(* written under uiStateMu; profiles and archive moves happen under the     *)
(* Workspace's own file lock; the records under neither.  A step below is   *)
(* one critical section, so requests interleave between their checks and    *)
(* their writes.                                                            *)
(*                                                                          *)
(* Number 0 of a record or of resource-state.json is an absent entry.  A    *)
(* cursor may be absent (not in the domain).  Order, folders and expansion  *)
(* of the tree travel in the same file and are left out.                    *)
(***************************************************************************)
EXTENDS Naturals, Sequences, FiniteSets, FiniteSetsExt, Functions

CONSTANTS
    Users,        \* user names
    LegacyUser,   \* the name older versions gave the only user
    Resources,
    MaxTurnNo,    \* Turns of a resource (bound)
    MaxRecords,   \* generations of a resource (bound)
    MaxRequests,  \* requests in progress at once (bound)
    MaxReadFaults \* crashes and failed writes (bound)

ASSUME ReadAssumption == LegacyUser \in Users /\ MaxTurnNo \in Nat /\ MaxRecords \in Nat \ {0}

VARIABLES
    profiles,  \* users with a profile.json
    ui,        \* ui-state.json of those who have one: version and cursors
    legacy,    \* the Workspace-wide file older versions wrote, {} once it is gone
    given,     \* resource-state.json: the highest Turn number given
    records,   \* the generation records of a resource, the newest last
    numbering, \* how far the reconcile pass is with the number of a new Turn;
               \* first: no record showed a number when it was given
    archived,
    requests,  \* HTTP requests between two of their steps
    ended,     \* the highest number given to a Turn that has ended
    readFaults

readVars == <<profiles, ui, legacy, given, records, numbering, archived, requests, ended, readFaults>>
turnVars == <<records, numbering, ended>>

NoCursors == [r \in {} |-> 0]
NoFile == [version |-> 2, read |-> NoCursors]
Put(f, r, n) == [x \in DOMAIN f \cup {r} |-> IF x = r THEN n ELSE f[x]]

(* loadUIStateFile: a missing file is an empty one of version 2. *)
Loaded(u) == IF u \in DOMAIN ui THEN ui[u] ELSE NoFile

(* saveUIStateFile writes version 2 whatever it read, and makes the directory. *)
Saved(u, read) == Put(ui, u, [version |-> 2, read |-> read])

(* Users fails for everyone when a directory holds no profile. *)
Listable == DOMAIN ui \subseteq profiles

-----------------------------------------------------------------------------
(* Turn numbers *)

Numbers(r) == {records[r][i].number : i \in DOMAIN records[r]}

CompletedNumber(g) == IF g.active /\ g.number > 0 THEN g.number - 1 ELSE g.number

Completed(r) == Max({CompletedNumber(records[r][i]) : i \in DOMAIN records[r]})

(* Mutant of NewTurnIsUnread: the number comes from the live generation alone. *)
HighestOfGeneration(r) == records[r][Len(records[r])].number

Highest(r) == Max(Numbers(r) \cup {given[r]})

Unnumbered(r) == Max(Numbers(r)) = 0

(* completedTurnBaseline: the records tell, where a record has a number at all. *)
Baseline(shared) ==
    LET known(r) == IF Max(Numbers(r)) > 0 THEN Completed(r) ELSE shared[r]
    IN [r \in {x \in Resources : known(x) > 0} |-> known(r)]

(* seedUnreadBaseline: cursors that exist are kept. *)
Seeded(read, shared) ==
    [r \in DOMAIN read \cup DOMAIN Baseline(shared) |->
        IF r \in DOMAIN read THEN read[r] ELSE Baseline(shared)[r]]

(* A restart and a registration first raise resource-state.json to what the *)
(* records and the old file know.                                           *)
Raised(old) ==
    [r \in Resources |->
        Max(Numbers(r) \cup {given[r]} \cup {f.turns[r] : f \in old})]

NoNumber(at) == [at |-> at, number |-> 0, first |-> FALSE]

(* applyAgentHubSession saves that the Turn runs, then asks for its number, *)
(* then saves the number: three writes, none of which undoes another.  A    *)
(* pass may miss the end of the Turn before and see the next one at once.   *)
TurnStarts(r) ==
    LET g == Len(records[r])
    IN /\ numbering[r].at = "none"
       /\ Highest(r) < MaxTurnNo
       /\ records' = [records EXCEPT ![r][g].active = TRUE]
       /\ numbering' = [numbering EXCEPT ![r] = NoNumber("due")]
       /\ ended' = IF records[r][g].active THEN [ended EXCEPT ![r] = Max({@, numbering[r].number})]
                   ELSE ended
       /\ UNCHANGED <<profiles, ui, legacy, given, archived, requests, readFaults>>

Allocates(r) ==
    /\ numbering[r].at = "due"
    /\ \/ /\ given' = [given EXCEPT ![r] = Highest(r) + 1]
          /\ numbering' = [numbering EXCEPT ![r] =
                               [at |-> "given", number |-> Highest(r) + 1, first |-> Unnumbered(r)]]
          /\ UNCHANGED readFaults
       \/ /\ readFaults < MaxReadFaults
          /\ readFaults' = readFaults + 1
          /\ numbering' = [numbering EXCEPT ![r].at = "none"]
          /\ UNCHANGED given
    /\ UNCHANGED <<profiles, ui, legacy, records, archived, requests, ended>>

Numbered(r) ==
    /\ numbering[r].at = "given"
    /\ \/ /\ records' = [records EXCEPT ![r][Len(records[r])].number = numbering[r].number]
          /\ UNCHANGED readFaults
       \/ /\ readFaults < MaxReadFaults
          /\ readFaults' = readFaults + 1
          /\ UNCHANGED records
    /\ numbering' = [numbering EXCEPT ![r].at = "none"]
    /\ UNCHANGED <<profiles, ui, legacy, given, archived, requests, ended>>

(* The end of the Turn is seen by a later pass over the same runtime. *)
TurnCloses(r) ==
    LET g == Len(records[r])
    IN /\ records[r][g].active /\ numbering[r].at = "none"
       /\ records' = [records EXCEPT ![r][g].active = FALSE]
       /\ ended' = [ended EXCEPT ![r] = Max({@, numbering[r].number})]
       /\ UNCHANGED <<profiles, ui, legacy, given, numbering, archived, requests, readFaults>>

(* A replacement generation starts without a number. *)
Replaced(r) ==
    LET g == Len(records[r])
    IN /\ ~records[r][g].active
       /\ g < MaxRecords
       /\ records' = [records EXCEPT ![r] = Append(@, [number |-> 0, active |-> FALSE])]
       /\ UNCHANGED <<profiles, ui, legacy, given, numbering, archived, requests, ended, readFaults>>

-----------------------------------------------------------------------------
(* Requests *)

Begin(q) == /\ Cardinality(requests) < MaxRequests
            /\ q \notin requests
            /\ requests' = requests \cup {q}

Finish(q) == requests' = requests \ {q}

Request(op, u, r, n) == [op |-> op, user |-> u, resource |-> r, n |-> n]

NoResource == CHOOSE r \in Resources : TRUE  \* requests that are about none

(* Mutant of ReadNeverAhead: the boundary is checked against the numbers given. *)
ReadBeginsAnywhere(u, r, n) ==
    /\ u \in profiles
    /\ r \notin archived
    /\ n <= Highest(r)
    /\ Begin(Request("read", u, r, n))
    /\ UNCHANGED <<profiles, ui, legacy, given, archived, turnVars, readFaults>>

(* The user exists, the resource is open and the boundary is completed: all *)
(* of this is decided before the lock is taken.                             *)
ReadBegins(u, r, n) ==
    /\ u \in profiles
    /\ r \notin archived
    /\ n <= Completed(r)
    /\ Begin(Request("read", u, r, n))
    /\ UNCHANGED <<profiles, ui, legacy, given, archived, turnVars, readFaults>>

ReadEnds(q) ==
    LET read == Loaded(q.user).read
    IN /\ q.op = "read"
       /\ ui' = Saved(q.user, IF q.resource \in DOMAIN read /\ read[q.resource] >= q.n
                              THEN read ELSE Put(read, q.resource, q.n))
       /\ Finish(q)
       /\ UNCHANGED <<profiles, legacy, given, archived, turnVars, readFaults>>

(* A browser saves its view: what it sends of the cursors is not taken. *)
SaveBegins(u) ==
    /\ u \in profiles
    /\ Begin(Request("save", u, NoResource, 0))
    /\ UNCHANGED <<profiles, ui, legacy, given, archived, turnVars, readFaults>>

SaveEnds(q) ==
    /\ q.op = "save"
    /\ ui' = Saved(q.user, Loaded(q.user).read)
    /\ Finish(q)
    /\ UNCHANGED <<profiles, legacy, given, archived, turnVars, readFaults>>

Registers(u) ==
    /\ profiles' = profiles \cup {u}
    /\ Begin(Request("register", u, NoResource, 0))
    /\ UNCHANGED <<ui, legacy, given, archived, turnVars, readFaults>>

(* ensureUserUIStateBaseline lists the users to know whether this one takes *)
(* over the old file ...                                                    *)
RegisterLists(q) ==
    /\ q.op = "register"
    /\ requests' = (requests \ {q}) \cup
           (IF Listable
            THEN {[q EXCEPT !.op = "seed",
                            !.n = IF q.user = LegacyUser \/ Cardinality(profiles) = 1 THEN 1 ELSE 0]}
            ELSE {})
    /\ UNCHANGED <<profiles, ui, legacy, given, archived, turnVars, readFaults>>

(* ... and writes the first state, unless a newer one is there. *)
RegisterSeeds(q) ==
    LET old == IF q.n = 1 /\ q.user \notin DOMAIN ui THEN legacy ELSE {}
        base == IF old = {} THEN Loaded(q.user).read ELSE (CHOOSE f \in old : TRUE).read
    IN /\ q.op = "seed"
       /\ IF q.user \in DOMAIN ui /\ ui[q.user].version = 2
          THEN UNCHANGED <<ui, legacy, given>>
          ELSE /\ given' = Raised(old)
               /\ ui' = Saved(q.user, Seeded(base, Raised(old)))
               /\ legacy' = legacy \ old
       /\ Finish(q)
       /\ UNCHANGED <<profiles, archived, turnVars, readFaults>>

DeleteBegins(u) ==
    /\ Listable /\ u \in profiles /\ Cardinality(profiles) > 1
    /\ Begin(Request("delete", u, NoResource, 0))
    /\ UNCHANGED <<profiles, ui, legacy, given, archived, turnVars, readFaults>>

(* DeleteUser asks again under the file lock, and removes the directory. *)
DeleteEnds(q) ==
    /\ q.op = "delete"
    /\ IF Listable /\ q.user \in profiles /\ Cardinality(profiles) > 1
       THEN /\ profiles' = profiles \ {q.user}
            /\ ui' = Restrict(ui, DOMAIN ui \ {q.user})
       ELSE UNCHANGED <<profiles, ui>>
    /\ Finish(q)
    /\ UNCHANGED <<legacy, given, archived, turnVars, readFaults>>

(* The move of the resource is the commit; its state is pruned afterwards. *)
ArchiveMoves(r) ==
    /\ r \notin archived
    /\ archived' = archived \cup {r}
    /\ Begin(Request("prune", LegacyUser, r, 0))
    /\ UNCHANGED <<profiles, ui, legacy, given, turnVars, readFaults>>

(* A failure is a warning in the answer: nothing prunes again. *)
Prunes(q) ==
    /\ q.op = "prune"
    /\ IF Listable
       THEN /\ ui' = [u \in DOMAIN ui |->
                         IF q.resource \in DOMAIN ui[u].read
                         THEN [version |-> 2, read |-> Restrict(ui[u].read, DOMAIN ui[u].read \ {q.resource})]
                         ELSE ui[u]]
            /\ given' = [given EXCEPT ![q.resource] = 0]
       ELSE UNCHANGED <<ui, given>>
    /\ Finish(q)
    /\ UNCHANGED <<profiles, legacy, archived, turnVars, readFaults>>

-----------------------------------------------------------------------------
(* The Workspace is added: every user without a state of this version gets  *)
(* the baseline, and one of them the old file.                              *)
LegacyTarget ==
    IF LegacyUser \in profiles THEN {LegacyUser}
    ELSE IF Cardinality(profiles) = 1 THEN profiles ELSE {}

(* The file stays until somebody has taken it. *)
Remaining(heir) == IF heir # {} THEN {} ELSE legacy

WorkspaceAdded ==
    LET shared == Raised(legacy)
        heir == {u \in LegacyTarget : legacy # {} /\ u \notin DOMAIN ui}
        base(u) == IF u \in heir THEN (CHOOSE f \in legacy : TRUE).read ELSE Loaded(u).read
        late == {u \in profiles : u \notin DOMAIN ui \/ ui[u].version < 2}
    IN /\ given' = shared
       /\ IF Listable
          THEN /\ ui' = [u \in DOMAIN ui \cup late |->
                            IF u \in late THEN [version |-> 2, read |-> Seeded(base(u), shared)]
                            ELSE ui[u]]
               /\ legacy' = Remaining(heir)
          ELSE UNCHANGED <<ui, legacy>>
       /\ UNCHANGED <<profiles, archived, requests, turnVars, readFaults>>

(* The process ends: requests are lost, and the number of a Turn with them. *)
(* A directory that was being removed may keep one of its two files.        *)
ReadCrash ==
    /\ readFaults < MaxReadFaults
    /\ readFaults' = readFaults + 1
    /\ requests' = {}
    /\ numbering' = [r \in Resources |-> [numbering[r] EXCEPT !.at = "none"]]
    /\ \E lost \in SUBSET {q \in requests : q.op = "delete"} :
          \/ profiles' = profiles \ {q.user : q \in lost} /\ UNCHANGED ui
          \/ ui' = Restrict(ui, DOMAIN ui \ {q.user : q \in lost}) /\ UNCHANGED profiles
    /\ UNCHANGED <<legacy, given, records, archived, ended>>

(* A Workspace of an older version, or of this one. *)
ReadInit ==
    /\ profiles \in {{}, {LegacyUser}}
    /\ \E n \in [Resources -> {0, 1}], old \in BOOLEAN :
          /\ records = [r \in Resources |-> <<[number |-> n[r], active |-> FALSE]>>]
          /\ ended = [r \in Resources |-> IF old THEN 1 ELSE n[r]]
          /\ legacy = IF old THEN {[read |-> [r \in Resources |-> n[r]], turns |-> ended]} ELSE {}
    /\ ui \in {[u \in {} |-> NoFile]} \cup
             {[u \in {LegacyUser} |-> [version |-> 1, read |-> ended]] : x \in profiles}
    /\ given = [r \in Resources |-> 0]
    /\ numbering = [r \in Resources |-> NoNumber("none")]
    /\ archived = {} /\ requests = {} /\ readFaults = 0

ReadNext ==
    \/ \E r \in Resources : \/ TurnStarts(r) \/ Allocates(r) \/ Numbered(r)
                            \/ TurnCloses(r) \/ Replaced(r) \/ ArchiveMoves(r)
    \/ \E u \in Users : \/ \E r \in Resources, n \in 0..MaxTurnNo : ReadBegins(u, r, n)
                        \/ SaveBegins(u) \/ Registers(u) \/ DeleteBegins(u)
    \/ \E q \in requests : \/ ReadEnds(q) \/ SaveEnds(q) \/ RegisterLists(q) \/ RegisterSeeds(q)
                           \/ DeleteEnds(q) \/ Prunes(q)
    \/ WorkspaceAdded
    \/ ReadCrash

ReadSpec == ReadInit /\ [][ReadNext]_readVars
-----------------------------------------------------------------------------
Cursor(u, r) == IF u \in DOMAIN ui /\ r \in DOMAIN ui[u].read THEN ui[u].read[r] ELSE 0

(* No user has read a Turn that has not ended, however registrations, reads *)
(* and the three writes of a new number interleave.  One Turn is excepted,  *)
(* and only while it runs: the one whose number was given while no record   *)
(* of the resource showed any, where a new user's baseline takes the number *)
(* given for that of an ended Turn.                                         *)
ReadNeverAhead ==
    \A u \in Users, r \in Resources :
        \/ Cursor(u, r) <= ended[r]
        \/ numbering[r].first /\ Cursor(u, r) = numbering[r].number

(* A Turn that gets its number is unread for everyone: the number is above  *)
(* all others of the resource and above every cursor, across replacement,   *)
(* archive, the old file and lost numbers (again but for the first Turn).   *)
NewTurnIsUnread ==
    [][\A r \in Resources : \A i \in DOMAIN records[r] :
          LET n == records'[r][i].number
          IN (n # records[r][i].number /\ ~Unnumbered(r)) =>
                /\ \A m \in Numbers(r) : n > m
                /\ \A u \in Users : n > Cursor(u, r)]_readVars

(* A cursor falls only with its user or its resource: no save of a browser, *)
(* no registration and no restart takes it back.                            *)
CursorsKept ==
    [][\A u \in Users, r \in Resources :
          Cursor(u, r)' < Cursor(u, r) => u \notin DOMAIN ui' \/ r \in archived]_readVars

(* The state of an older version goes only to a user who had none, and its  *)
(* cursors with it.                                                         *)
LegacyKept ==
    [][(legacy # {} /\ legacy' = {}) =>
          \E u \in DOMAIN ui' \ DOMAIN ui :
             \A f \in legacy, r \in Resources : ui'[u].read[r] >= f.read[r]]_readVars

(* What a user has read stays read, and what is new is unread, over saves of *)
(* several browsers, replacement, archive, restarts and the older file.      *)
ReadStateKept == NewTurnIsUnread /\ CursorsKept /\ LegacyKept
=============================================================================
