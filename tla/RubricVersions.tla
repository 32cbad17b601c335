---------------------------- MODULE RubricVersions ----------------------------
(***************************************************************************)
(* The versions of one required format: rubric/service.py (upload, save,   *)
(* confirm, activate, delete, the family's program), rubric/annotate.py    *)
(* and the part of pipeline/service.py that pins a check to a version.     *)
(*                                                                         *)
(* Rows are locked one by one, by the statements that lock them; a request *)
(* then decides on what it reads and commits what it writes.               *)
(***************************************************************************)
EXTENDS Integers

CONSTANTS
  Initial,    \* versions of the family at first
  LastId,     \* ids of versions are 1..LastId
  Requests,   \* each is one request
  Programs,
  None,
  MaxDeaths   \* bound of the model: requests whose process dies

RubricAssumption ==
  /\ LastId \in Nat \ {0} /\ Initial \in 1..LastId /\ MaxDeaths \in Nat
  /\ None \notin Requests \union Programs

VARIABLES
  rows,       \* the versions that exist
  used,       \* ids given out
  number,     \* row -> its version
  criteria,   \* row -> how often its criteria have been written
  revision,   \* row -> revision
  open,       \* rows with an open parse issue
  noted,      \* rows with parse_issue_details
  active,     \* rows with is_active
  program,    \* row -> program of the family, as this row has it
  pinned,     \* rows some check is pinned to
  writer,     \* row -> request with its lock FOR UPDATE
  readers,    \* row -> requests with its lock FOR SHARE
  at,         \* request -> "idle", "asked", "lock", "write", "parse" or "done"
  op,         \* request -> what it is
  target,     \* request -> row it is about
  loaded,     \* request -> what its user, or its session, saw of the target
  todo,       \* request -> rows it has still to lock
  deaths

Ids == 1..LastId
Ops == {"save", "confirm", "activate", "delete", "program", "upload", "check", "annotate"}

table == <<rows, used, number, criteria, revision, open, noted, active, program, pinned>>
locks == <<writer, readers>>
asked == <<op, target, loaded>>
vars == <<table, locks, at, asked, todo, deaths>>

\* The versions of the family are parsed, and nobody is at work.
Init ==
  /\ rows = 1..Initial /\ used = rows
  /\ number = [v \in Ids |-> IF v \in rows THEN v ELSE 0]
  /\ criteria = [v \in Ids |-> 0]
  /\ revision = [v \in Ids |-> 0]
  /\ open \in SUBSET rows /\ noted = open
  /\ active \in {{}} \union {{v} : v \in rows \ open}
  /\ pinned \in SUBSET rows
  /\ program = [v \in Ids |-> None]
  /\ writer = [v \in Ids |-> None]
  /\ readers = [v \in Ids |-> {}]
  /\ at = [q \in Requests |-> "idle"]
  /\ op = [q \in Requests |-> "save"]
  /\ target = [q \in Requests |-> 1]
  /\ loaded = [q \in Requests |-> [criteria |-> 0, revision |-> 0, active |-> FALSE]]
  /\ todo = [q \in Requests |-> {}]
  /\ deaths = 0

-----------------------------------------------------------------------------
(* Locks.                                                                  *)

Goto(q, place) == at' = [at EXCEPT ![q] = place]

Release(q) ==
  /\ writer' = [v \in Ids |-> IF writer[v] = q THEN None ELSE writer[v]]
  /\ readers' = [v \in Ids |-> readers[v] \ {q}]

\* Nobody else's lock keeps q from writing the row.
Writable(q, v) == writer[v] \in {q, None} /\ readers[v] \subseteq {q}

\* A request arrives; a save says which revision its user saw.
Ask(q, o, v) ==
  /\ at[q] = "idle" /\ v \in rows
  /\ op' = [op EXCEPT ![q] = o]
  /\ target' = [target EXCEPT ![q] = v]
  /\ loaded' = IF o \notin {"save", "confirm", "check"} THEN loaded
                ELSE [loaded EXCEPT ![q] = [criteria |-> criteria[v],
                                            revision |-> revision[v],
                                            active |-> v \in active]]
  /\ Goto(q, "asked")
  /\ UNCHANGED <<table, locks, todo, deaths>>

\* Faulty variant of ToLock: a new check takes no lock.
ToLockWithoutCheck(q) ==
  IF op[q] = "check" THEN {}
  ELSE IF op[q] = "annotate" THEN rows \intersect {target[q]} ELSE rows

\* A check and the operator's command lock one row, the others the family.
ToLock(q) ==
  IF op[q] \in {"check", "annotate"} THEN rows \intersect {target[q]} ELSE rows

\* The locking statement finds the rows that are committed when it starts ...
Start(q) ==
  /\ at[q] = "asked"
  /\ todo' = [todo EXCEPT ![q] = ToLock(q)]
  /\ Goto(q, "lock")
  /\ UNCHANGED <<table, locks, asked, deaths>>

\* Faulty variant of NextRow: the target first.
NextRowTargetFirst(q) ==
  IF target[q] \in todo[q] THEN {target[q]}
  ELSE {v \in todo[q] : \A w \in todo[q] : v <= w}

\* ... and locks them in the order of their ids, without those deleted since.
NextRow(q) == {v \in todo[q] : \A w \in todo[q] : v <= w}

Free(q, v) == writer[v] = None /\ (op[q] = "check" \/ readers[v] = {})

Lock(q) ==
  /\ at[q] = "lock"
  /\ \E v \in NextRow(q) :
       /\ \/ v \notin rows /\ UNCHANGED locks
          \/ /\ v \in rows /\ Free(q, v)
             /\ IF op[q] = "check"
                THEN readers' = [readers EXCEPT ![v] = @ \union {q}] /\ UNCHANGED writer
                ELSE writer' = [writer EXCEPT ![v] = q] /\ UNCHANGED readers
       /\ todo' = [todo EXCEPT ![q] = @ \ {v}]
  /\ UNCHANGED <<table, at, asked, deaths>>

-----------------------------------------------------------------------------
(* What is decided under the locks.                                        *)

IsLatest(v) == \A w \in rows : number[w] <= number[v]

CanEdit(v) == IsLatest(v) /\ v \notin pinned

\* update_criteria, activate_rubric, delete_rubric, create_check_run, ...
May(q) ==
  LET v == target[q] IN
  \/ op[q] \in {"program", "upload"} /\ \E w \in rows : writer[w] = q
  \/ /\ v \in rows
     /\ \/ op[q] \in {"save", "confirm"} /\ CanEdit(v) /\ loaded[q].revision = revision[v]
        \/ op[q] = "activate" /\ v \notin active /\ v \notin open
        \/ op[q] = "delete" /\ v \notin pinned
        \/ op[q] = "check" /\ v \in active
        \/ op[q] = "annotate" /\ v \notin noted

Decide(q) ==
  /\ at[q] = "lock" /\ todo[q] = {}
  /\ IF May(q) THEN Goto(q, "write") /\ UNCHANGED locks ELSE Goto(q, "done") /\ Release(q)
  /\ UNCHANGED <<table, asked, todo, deaths>>

-----------------------------------------------------------------------------
(* What is written and committed.                                          *)

ActivateOnly(q) ==
  /\ \A v \in rows : Writable(q, v)
  /\ active' = {target[q]}

\* A save leaves the issues that are open after the edit; a confirmed version
\* is active unless one is, and an active version never keeps one.
Save(q) ==
  /\ at[q] = "write" /\ op[q] \in {"save", "confirm"}
  /\ LET v == target[q] IN
       /\ criteria' = [criteria EXCEPT ![v] = @ + 1]
       /\ revision' = [revision EXCEPT ![v] = @ + 1]
       /\ \/ open' = open \ {v} /\ UNCHANGED noted
          \/ v \notin active /\ open' = open \union {v} /\ noted' = noted \union {v}
       /\ IF op[q] = "confirm" /\ v \notin open' THEN ActivateOnly(q) ELSE UNCHANGED active
  /\ Goto(q, "done") /\ Release(q)
  /\ UNCHANGED <<rows, used, number, program, pinned, asked, todo, deaths>>

\* The instructor edits the active version into one with an open issue.
RefuseOpen(q) ==
  /\ at[q] = "write" /\ op[q] \in {"save", "confirm"} /\ target[q] \in active
  /\ Goto(q, "done") /\ Release(q)
  /\ UNCHANGED <<table, asked, todo, deaths>>

Activate(q) ==
  /\ at[q] = "write" /\ op[q] = "activate"
  /\ ActivateOnly(q)
  /\ revision' = [revision EXCEPT ![target[q]] = @ + 1]
  /\ Goto(q, "done") /\ Release(q)
  /\ UNCHANGED <<rows, used, number, criteria, open, noted, program, pinned, asked, todo, deaths>>

Delete(q) ==
  /\ at[q] = "write" /\ op[q] = "delete"
  /\ rows' = rows \ {target[q]}
  /\ active' = active \ {target[q]}
  /\ Goto(q, "done") /\ Release(q)
  /\ UNCHANGED <<used, number, criteria, revision, open, noted, program, pinned, asked, todo, deaths>>

\* Every row of the family, those the lock has not seen included.
SetProgram(q) ==
  /\ at[q] = "write" /\ op[q] = "program"
  /\ \A v \in rows : Writable(q, v)
  /\ \E p \in Programs \union {None} :
       program' = [v \in Ids |-> IF v \in rows THEN p ELSE program[v]]
  /\ Goto(q, "done") /\ Release(q)
  /\ UNCHANGED <<rows, used, number, criteria, revision, open, noted, active, pinned, asked, todo, deaths>>

CreateCheck(q) ==
  /\ at[q] = "write" /\ op[q] = "check"
  /\ pinned' = pinned \union {target[q]}
  /\ Goto(q, "done") /\ Release(q)
  /\ UNCHANGED <<rows, used, number, criteria, revision, open, noted, active, program, asked, todo, deaths>>

\* An operator records the issues of a version that was parsed without.
Annotate(q) ==
  /\ at[q] = "write" /\ op[q] = "annotate"
  /\ revision' = [revision EXCEPT ![target[q]] = @ + 1]
  /\ \E issues \in SUBSET {target[q]} :
       open' = open \union issues /\ noted' = noted \union issues
  /\ Goto(q, "done") /\ Release(q)
  /\ UNCHANGED <<rows, used, number, criteria, active, program, pinned, asked, todo, deaths>>

-----------------------------------------------------------------------------
(* The upload of a new version.                                            *)

NextNumber == 1 + number[CHOOSE v \in rows : IsLatest(v)]

\* Any row of the family names its program.
SiblingProgram == program[CHOOSE v \in rows : TRUE]

\* The row is committed, and unlocked, before its file is read.
Insert(q) ==
  /\ at[q] = "write" /\ op[q] = "upload" /\ used # Ids
  /\ LET v == CHOOSE w \in Ids \ used : \A u \in Ids \ used : w <= u IN
       /\ rows' = rows \union {v} /\ used' = used \union {v}
       /\ number' = [number EXCEPT ![v] = NextNumber]
       /\ program' = [program EXCEPT ![v] = SiblingProgram]
       /\ target' = [target EXCEPT ![q] = v]
  /\ Goto(q, "parse") /\ Release(q)
  /\ UNCHANGED <<criteria, revision, open, noted, active, pinned, op, loaded, todo, deaths>>

\* The parsed criteria and issues are added, unless the version was deleted.
Finish(q) ==
  /\ at[q] = "parse"
  /\ LET v == target[q] IN
       \/ v \notin rows /\ UNCHANGED <<criteria, open, noted>>
       \/ /\ v \in rows /\ Writable(q, v)
          /\ criteria' = [criteria EXCEPT ![v] = @ + 1]
          /\ \E issues \in SUBSET {v} :
               open' = (open \ {v}) \union issues /\ noted' = (noted \ {v}) \union issues
  /\ Goto(q, "done")
  /\ UNCHANGED <<rows, used, number, revision, active, program, pinned, locks, asked, todo, deaths>>

\* The file cannot be read: the version is deleted, unless a check uses it.
Fail(q) ==
  /\ at[q] = "parse"
  /\ LET v == target[q] IN
       \/ v \in rows \intersect pinned /\ UNCHANGED <<rows, active>>
       \/ /\ v \notin rows \/ (Writable(q, v) /\ v \notin pinned)
          /\ rows' = rows \ {v} /\ active' = active \ {v}
  /\ Goto(q, "done")
  /\ UNCHANGED <<used, number, criteria, revision, open, noted, program, pinned, locks, asked, todo, deaths>>

\* The process dies; what was not committed is rolled back.
Die(q) ==
  /\ at[q] \notin {"idle", "done"} /\ deaths < MaxDeaths
  /\ deaths' = deaths + 1
  /\ Goto(q, "done") /\ Release(q)
  /\ UNCHANGED <<table, asked, todo>>

-----------------------------------------------------------------------------

Step(q) ==
  \/ Start(q) \/ Lock(q) \/ Decide(q)
  \/ Save(q) \/ RefuseOpen(q) \/ Activate(q) \/ Delete(q)
  \/ SetProgram(q) \/ CreateCheck(q) \/ Annotate(q)
  \/ Insert(q) \/ Finish(q) \/ Fail(q)

Next ==
  \E q \in Requests :
    Step(q) \/ Die(q) \/ \E o \in Ops, v \in Ids : Ask(q, o, v)

Spec == Init /\ [][Next]_vars

-----------------------------------------------------------------------------
(* Properties.                                                             *)

TypeOK ==
  /\ rows \subseteq used /\ used \subseteq Ids
  /\ number \in [Ids -> 0..LastId]
  /\ criteria \in [Ids -> Nat] /\ revision \in [Ids -> Nat]
  /\ open \subseteq used /\ noted \subseteq used /\ open \subseteq noted
  /\ active \subseteq rows /\ pinned \subseteq rows
  /\ program \in [Ids -> Programs \union {None}]
  /\ writer \in [Ids -> Requests \union {None}]
  /\ readers \in [Ids -> SUBSET Requests]
  /\ at \in [Requests -> {"idle", "asked", "lock", "write", "parse", "done"}]
  /\ op \in [Requests -> Ops] /\ target \in [Requests -> Ids]
  /\ loaded \in [Requests -> [criteria : Nat, revision : Nat, active : BOOLEAN]]
  /\ todo \in [Requests -> SUBSET Ids]
  /\ deaths \in 0..MaxDeaths

\* A family never has two active versions.
OneActive == \A v, w \in active : v = w

\* All versions of a family name the same program.
FamilyAgrees == \A v, w \in rows : program[v] = program[w]

\* The unique constraint on the version of a family never refuses an upload.
NumbersDistinct == \A v, w \in rows : v # w => number[v] # number[w]

\* Nobody edits a version that a check uses or that a later one has replaced
\* (of a step).
UsedIsNotEdited ==
  \A q \in Requests : Save(q) => target[q] \notin pinned /\ IsLatest(target[q])

\* A check is pinned to the version that is active at that moment (of a step).
CheckOnActive == pinned' \ pinned \subseteq active

\* Why.  Ids and version numbers rise together; a request of the whole family
\* has locked, or is about to lock, every row up to the last one it began with;
\* so two of them never decide side by side, and a version added meanwhile is
\* newer than all that either has seen.
VersionsRise ==
  /\ \E k \in 1..LastId : used = 1..k
  /\ \A v \in Ids : number[v] <= v
  /\ \A v, w \in rows : v < w => number[v] < number[w]

LocksApart == \A v \in Ids : writer[v] # None => readers[v] = {} /\ v \in used

Locking(q) == at[q] \in {"lock", "write"}

\* Rows that q has locked for writing or is about to.
Claimed(q) == todo[q] \union {v \in Ids : writer[v] = q}

ClaimsAllBefore(q) ==
  Locking(q) /\ op[q] \notin {"check", "annotate"} =>
    \A v \in rows, w \in Claimed(q) : v <= w => v \in Claimed(q)

ClaimsTarget(q) ==
  Locking(q) /\ target[q] \in rows =>
    \/ op[q] \in {"upload", "program"}
    \/ target[q] \in todo[q]
    \/ IF op[q] = "check" THEN q \in readers[target[q]] ELSE writer[target[q]] = q

\* What was decided under the locks still stands when it is written.
StillMay(q) ==
  at[q] = "write" =>
    /\ todo[q] = {}
    /\ IF op[q] \in {"upload", "program"} THEN \E w \in rows : writer[w] = q
       ELSE target[q] \in rows
    /\ op[q] \in {"save", "confirm"} => CanEdit(target[q])
    /\ op[q] = "delete" => target[q] \notin pinned
    /\ op[q] = "check" => target[q] \in active

VersionsInv ==
  /\ TypeOK /\ OneActive /\ FamilyAgrees
  /\ VersionsRise /\ LocksApart
  /\ \A q \in Requests :
       todo[q] \union {target[q]} \subseteq used
         /\ ClaimsAllBefore(q) /\ ClaimsTarget(q) /\ StillMay(q)

\* The criteria of a version that a check is pinned to never change.
PinnedUnchanged == [][\A v \in pinned : criteria'[v] = criteria[v]]_vars

AtWork(q) == at[q] \notin {"idle", "done"}

\* Somebody else has a row that the statement of q needs: the next of the family,
\* the rows of a statement that writes them all, or the version just parsed.
Waits(q) ==
  \/ at[q] = "lock" /\ \E v \in NextRow(q) : v \in rows /\ ~Free(q, v)
  \/ /\ at[q] = "write" /\ op[q] \in {"confirm", "activate", "program"}
     /\ \E v \in rows : ~Writable(q, v)
  \/ at[q] = "parse" /\ target[q] \in rows /\ ~Writable(q, target[q])

\* Requests that lock the versions of a family one by one never all wait for
\* each other.
NobodyIsStuck ==
  (\E q \in Requests : AtWork(q)) => \E q \in Requests : AtWork(q) /\ ~Waits(q)

\* Why: rows are locked in the order of their ids, so whoever has the last of
\* the locked rows finds the next one free, and has all of those before.
Has(q, v) == writer[v] = q \/ q \in readers[v]

LocksInOrder(q) ==
  /\ \A v \in Ids : Has(q, v) => Locking(q) /\ \A w \in todo[q] : v < w
  /\ \A v \in Ids : q \in readers[v] => op[q] = "check"
  /\ op[q] \in {"check", "annotate"} /\ Locking(q) =>
       todo[q] \subseteq {target[q]} /\ \A v \in Ids : Has(q, v) => v = target[q]

=============================================================================
