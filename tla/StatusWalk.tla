----------------------------- MODULE StatusWalk -----------------------------
(***************************************************************************)
(* GET admin/status beside the engine's other calls (pathStatusRead and    *)
(* walkAllMappings in src/backend/paths_status.go).  The counters are      *)
(* copied in one critical section; the mappings are then listed directory  *)
(* by directory and read one by one, with nothing locked, while reads      *)
(* quarantine them and admin/map writes and deletes them.                  *)
(*                                                                         *)
(* A view's path is abstracted to its place in the tree of "/"-separated   *)
(* prefixes.  The order in which a listing's keys are visited is left      *)
(* open.  What else the answer copies of the client and the governor is    *)
(* not kept: no property here is about it.                                 *)
(***************************************************************************)
EXTENDS Dereference

CONSTANTS
    Statuses,       \* admin/status requests that may be in flight together
    Dirs,           \* prefixes of views that end in "/", the empty one included
    Root,           \* the empty prefix
    DirOf,          \* the prefix a view or a non-empty prefix is a direct child of
    Above           \* per view, the prefixes that lead to it

ASSUME TreeAssumption ==
    /\ Root \in Dirs
    /\ Dirs \cap Views = {}
    /\ Above \in [Views -> SUBSET Dirs]
    /\ \A v \in Views :
          /\ Root \in Above[v]
          /\ \A d \in Above[v] : DirOf[v] = d \/ \E e \in Above[v] \ {Root} : DirOf[e] = d

VARIABLES
    spc,            \* where each status request is
    todo,           \* the directories and views its walk has yet to visit
    found,          \* walkAllMappings' result
    counted,        \* its copy of failureCounters: the views of the violations in it
    steady,         \* history: views mapped ever since its walk began
    lifted          \* history: views whose quarantine admin/map took away

wvars == <<spc, counted, todo, found, steady, lifted>>
statusvars == <<allvars, wvars>>

Mapped == {v \in Views : store[v] # NoEntry}

NoneFound == [v \in Views |-> NoEntry]

\* A violation is counted in the step that answers the read with it.  The code's
\* counters start anew with the process; condemned does not, so what is claimed
\* of a counted violation is claimed of those of earlier processes too.
ViolationsCounted == {k[1] : k \in condemned}

StatusInit ==
    /\ DerefInit
    /\ spc = [s \in Statuses |-> "idle"]
    /\ todo = [s \in Statuses |-> {}]
    /\ found = [s \in Statuses |-> NoneFound]
    /\ counted = [s \in Statuses |-> {}]
    /\ steady = [s \in Statuses |-> {}]
    /\ lifted = {}

\* storage.List: the keys directly under a prefix, those of directories ending
\* in "/".
Children(d) ==
    {v \in Mapped : DirOf[v] = d}
        \cup {e \in Dirs \ {Root} : DirOf[e] = d /\ \E v \in Mapped : e \in Above[v]}

-----------------------------------------------------------------------------
\* The snapshot under RLock, and walk("").
StatusBegin(s) ==
    /\ spc[s] = "idle"
    /\ spc' = [spc EXCEPT ![s] = "walk"]
    /\ counted' = [counted EXCEPT ![s] = ViolationsCounted]
    /\ todo' = [todo EXCEPT ![s] = {Root}]
    /\ steady' = [steady EXCEPT ![s] = Mapped]
    /\ UNCHANGED <<found, lifted>>

\* Mutant: only the views of a listing are followed.
WalkListFlat(s) ==
    /\ spc[s] = "walk"
    /\ \E d \in todo[s] \cap Dirs :
          todo' = [todo EXCEPT ![s] = (@ \ {d}) \cup (Children(d) \cap Views)]
    /\ UNCHANGED <<spc, found, counted, steady, lifted>>

\* walk(d): its keys join the ones to visit.
WalkList(s) ==
    /\ spc[s] = "walk"
    /\ \E d \in todo[s] \cap Dirs :
          todo' = [todo EXCEPT ![s] = (@ \ {d}) \cup Children(d)]
    /\ UNCHANGED <<spc, found, counted, steady, lifted>>

\* getMappingFromStorage of a view that was listed; it may be gone by now.
WalkGet(s) ==
    /\ spc[s] = "walk"
    /\ \E v \in todo[s] \cap Views :
          /\ todo' = [todo EXCEPT ![s] = @ \ {v}]
          /\ found' = [found EXCEPT ![s][v] = store[v]]
    /\ UNCHANGED <<spc, counted, steady, lifted>>

\* Mutant: the answer is built from the live counters.
WalkDoneAliased(s) ==
    /\ spc[s] = "walk" /\ todo[s] = {}
    /\ spc' = [spc EXCEPT ![s] = "built"]
    /\ counted' = [counted EXCEPT ![s] = ViolationsCounted]
    /\ UNCHANGED <<todo, found, steady, lifted>>

\* Mutant: the walk ends with directories it has not listed.
WalkDoneEarly(s) ==
    /\ spc[s] = "walk" /\ todo[s] \cap Views = {}
    /\ spc' = [spc EXCEPT ![s] = "built"]
    /\ UNCHANGED <<todo, found, counted, steady, lifted>>

\* The walk is over: the answer is built from the copies.
WalkDone(s) ==
    /\ spc[s] = "walk" /\ todo[s] = {}
    /\ spc' = [spc EXCEPT ![s] = "built"]
    /\ UNCHANGED <<todo, found, counted, steady, lifted>>

\* The request returns: with its answer, or with the error of a storage access.
StatusReturn(s) ==
    /\ spc[s] # "idle"
    /\ spc' = [spc EXCEPT ![s] = "idle"]
    /\ todo' = [todo EXCEPT ![s] = {}]
    /\ found' = [found EXCEPT ![s] = NoneFound]
    /\ counted' = [counted EXCEPT ![s] = {}]
    /\ steady' = [steady EXCEPT ![s] = {}]
    /\ UNCHANGED lifted

StatusStep(s) == WalkList(s) \/ WalkGet(s) \/ WalkDone(s) \/ StatusReturn(s)

-----------------------------------------------------------------------------
\* What a status request, and the history of its walk, sees of other steps.
Beside ==
    /\ steady' = [s \in Statuses |-> steady[s] \cap Mapped']
    /\ UNCHANGED <<spc, todo, found, counted>>

\* The quarantined views an admin/map step has taken the entry of.
Lifts == {v \in Mapped : store[v].quarantined /\ store'[v] # store[v]}

StatusReset ==
    /\ spc' = [s \in Statuses |-> "idle"]
    /\ todo' = [s \in Statuses |-> {}]
    /\ found' = [s \in Statuses |-> NoneFound]
    /\ counted' = [s \in Statuses |-> {}]
    /\ steady' = [s \in Statuses |-> {}]
    /\ UNCHANGED lifted

StatusNext ==
    \/ /\ \/ \E p \in Procs : ClientStep(p)
          \/ \E p \in Readers : DataRead(p) \/ ReaderStep(p)
          \/ TokenDiesWithLeases
          \/ BackoffElapses /\ Quiet
          \/ ConfigWrite /\ UNCHANGED lvars /\ Quiet
       /\ Beside /\ UNCHANGED lifted
    \/ MapStep /\ UNCHANGED vars /\ Beside /\ lifted' = lifted \cup Lifts
    \/ ConfigRestart /\ LoopbackReset /\ DerefReset /\ StatusReset
    \/ \E s \in Statuses : (StatusBegin(s) \/ StatusStep(s)) /\ UNCHANGED allvars

StatusSpec == StatusInit /\ [][StatusNext]_statusvars

-----------------------------------------------------------------------------
\* The places and copies of status requests; a walk has something to visit
\* only while it runs.
StatusTypeOK ==
    /\ spc \in [Statuses -> {"idle", "walk", "built"}]
    /\ todo \in [Statuses -> SUBSET (Dirs \cup Views)]
    /\ found \in [Statuses -> [Views -> Entries \cup {NoEntry}]]
    /\ counted \in [Statuses -> SUBSET Views]
    /\ steady \in [Statuses -> SUBSET Views]
    /\ lifted \subseteq Views
    /\ \A s \in Statuses : spc[s] # "walk" => todo[s] = {}

\* mapping_count counts every view that was mapped all the while the walk ran:
\* directories that appear, vanish or are emptied meanwhile hide none
\* (paths_status.go: walkAllMappings is "a full inventory").
WalkComplete ==
    \A s \in Statuses : spc[s] = "built" => \A v \in steady[s] : found[s][v] # NoEntry

\* An answer that counts a static-contract violation lists its view among
\* quarantined_mappings, although counters and mappings are not read at one
\* moment: unless admin/map has lifted that quarantine, which a slow walk may
\* see before or after.
CountedViolationShown ==
    \A s \in Statuses : spc[s] = "built" =>
        \A v \in counted[s] :
            v \in lifted \/ (found[s][v] # NoEntry /\ found[s][v].quarantined)
=============================================================================
