------------------------------ MODULE ShareLinks ------------------------------
(***************************************************************************)
(* The share links of one report: share/service.py (create, revoke and the *)
(* public read), the lock of report/assessment.py and the second look at   *)
(* the link in report/evidence_service.py.                                 *)
(*                                                                         *)
(* A request is a transaction of several statements; a statement sees what *)
(* is committed when it starts, and an UPDATE that waits for a row looks   *)
(* at that row again when it gets it.                                      *)
(***************************************************************************)
EXTENDS Naturals, FiniteSets

CONSTANTS
  Requests,    \* each is one request
  LastLink,    \* links are 1..LastLink, in the order of creation
  None,
  MaxRevision, \* bound of the model: changes of the assessment
  MaxDeaths    \* bound of the model: requests whose process dies

Replies == {"ok", "none", "gone", "conflict", "collided", "served", "lost"}

ShareAssumption ==
  /\ LastLink \in Nat \ {0} /\ MaxRevision \in Nat /\ MaxDeaths \in Nat
  /\ None \notin Requests \union Replies

VARIABLES
  made,        \* links that are committed
  revoked,     \* those with revoked_at
  expired,     \* those whose expires_at has passed
  recorded,    \* link -> what was recorded of the assessment for it, or None
  finished,    \* the check run is done and has a report
  revision,    \* assessment_revision of the report, and what its rows say
  runLock,     \* request with the check_run row FOR UPDATE
  linkLock,    \* link -> request that has an UPDATE of its row uncommitted
  writer,      \* request with the report row FOR UPDATE
  readers,     \* requests with the report row FOR SHARE
  at,          \* request -> where it is
  op,          \* request -> what it is
  link,        \* request -> the link it reads, or has made
  todo,        \* request -> rows its UPDATE has found and not yet reached
  got,         \* request -> what it has read of the assessment
  answer,      \* request -> its answer
  stood,       \* request -> links that were active when it arrived
  deaths

Links == 1..LastLink
Places == {"idle", "asked", "find", "update", "report", "flags", "end", "done"}
Answers == {None} \union Replies
Unread == [report |-> None, flags |-> None]

table == <<made, revoked, expired, recorded, finished, revision>>
locks == <<runLock, linkLock, writer, readers>>
local == <<op, link, todo, got, stood>>
vars == <<table, locks, local, at, answer, deaths>>

Active == made \ revoked

\* A report with one link, without one, or a run that is still at work.
Init ==
  /\ made \in {{}, {1}} /\ revoked = {} /\ expired = {}
  /\ finished \in BOOLEAN /\ revision = 0
  /\ recorded = [x \in Links |-> IF x \in made /\ finished
                                   THEN [report |-> 0, flags |-> 0] ELSE None]
  /\ runLock = None /\ writer = None /\ readers = {}
  /\ linkLock = [x \in Links |-> None]
  /\ at = [q \in Requests |-> "idle"]
  /\ op = [q \in Requests |-> "read"]
  /\ link = [q \in Requests |-> 0]
  /\ todo = [q \in Requests |-> {}]
  /\ got = [q \in Requests |-> Unread]
  /\ answer = [q \in Requests |-> None]
  /\ stood = [q \in Requests |-> {}]
  /\ deaths = 0

-----------------------------------------------------------------------------
(* Requests and their locks.                                               *)

Goto(q, place) == at' = [at EXCEPT ![q] = place]

\* Faulty variant of Answer: a reader who is refused keeps his transaction open.
AnswerLeavesOpen(q, what) ==
  /\ Goto(q, "done")
  /\ answer' = [answer EXCEPT ![q] = what]
  /\ runLock' = IF runLock = q THEN None ELSE runLock
  /\ linkLock' = [x \in Links |-> IF linkLock[x] = q THEN None ELSE linkLock[x]]
  /\ writer' = IF writer = q THEN None ELSE writer
  /\ readers' = IF what = "gone" THEN readers ELSE readers \ {q}

\* The transaction ends, and with it its locks.
Answer(q, what) ==
  /\ Goto(q, "done")
  /\ answer' = [answer EXCEPT ![q] = what]
  /\ runLock' = IF runLock = q THEN None ELSE runLock
  /\ linkLock' = [x \in Links |-> IF linkLock[x] = q THEN None ELSE linkLock[x]]
  /\ writer' = IF writer = q THEN None ELSE writer
  /\ readers' = readers \ {q}

\* A reader has the token of some link.
Ask(q, o) ==
  /\ at[q] = "idle"
  /\ op' = [op EXCEPT ![q] = o]
  /\ stood' = [stood EXCEPT ![q] = Active]
  /\ Goto(q, "asked")
  /\ IF o = "read" THEN \E x \in made : link' = [link EXCEPT ![q] = x] ELSE UNCHANGED link
  /\ UNCHANGED <<table, locks, todo, got, answer, deaths>>

LockRun(q) ==
  /\ at[q] = "asked" /\ op[q] = "create"
  /\ runLock = None
  /\ runLock' = q
  /\ Goto(q, "find")
  /\ UNCHANGED <<table, linkLock, writer, readers, local, answer, deaths>>

\* revoke_share_link only reads the run.
StartRevoke(q) ==
  /\ at[q] = "asked" /\ op[q] = "revoke"
  /\ Goto(q, "find")
  /\ UNCHANGED <<table, locks, local, answer, deaths>>

\* _revoke_all_active: the UPDATE finds the rows that are active when it starts ...
Find(q) ==
  /\ at[q] = "find"
  /\ todo' = [todo EXCEPT ![q] = Active]
  /\ Goto(q, "update")
  /\ UNCHANGED <<table, locks, op, link, got, stood, answer, deaths>>

\* ... and changes each that is active still, when nobody else is changing it.
Update(q) ==
  /\ at[q] = "update"
  /\ \E x \in todo[q] :
       /\ linkLock[x] = None
       /\ todo' = [todo EXCEPT ![q] = @ \ {x}]
       /\ linkLock' = IF x \in Active THEN [linkLock EXCEPT ![x] = q] ELSE linkLock
  /\ UNCHANGED <<table, runLock, writer, readers, op, link, got, stood, at, answer, deaths>>

Changed(q) == {x \in Links : linkLock[x] = q}

\* A revoke that has changed no row is refused.
Revoke(q) ==
  /\ at[q] = "update" /\ op[q] = "revoke" /\ todo[q] = {}
  /\ revoked' = revoked \union Changed(q)
  /\ Answer(q, IF Changed(q) = {} THEN "none" ELSE "ok")
  /\ UNCHANGED <<made, expired, recorded, finished, revision, local, deaths>>

\* _record_public_details needs a finished run.
Record(q) ==
  /\ at[q] = "update" /\ op[q] = "create" /\ todo[q] = {}
  /\ Goto(q, IF finished THEN "report" ELSE "end")
  /\ UNCHANGED <<table, locks, local, answer, deaths>>

-----------------------------------------------------------------------------
(* The assessment, as a new link records it and as a reader sees it.       *)

\* lock_assessment FOR SHARE, and report_out_for_check_run.
ReadReport(q) ==
  /\ at[q] = "report"
  /\ writer = None /\ readers' = readers \union {q}
  /\ got' = [got EXCEPT ![q].report = revision]
  /\ Goto(q, "flags")
  /\ UNCHANGED <<table, runLock, linkLock, writer, op, link, todo, stood, answer, deaths>>

\* The flags are read by statements of their own.
ReadFlags(q) ==
  /\ at[q] = "flags"
  /\ got' = [got EXCEPT ![q].flags = revision]
  /\ Goto(q, "end")
  /\ UNCHANGED <<table, locks, op, link, todo, stood, answer, deaths>>

\* The new link is inserted and all is committed; the unique index of
\* migration 0020 refuses a second active link.
Commit(q) ==
  /\ at[q] = "end" /\ op[q] = "create" /\ made # Links
  /\ LET x == Cardinality(made) + 1
         collides == Active \ Changed(q) # {}
     IN  /\ made' = IF collides THEN made ELSE made \union {x}
         /\ revoked' = IF collides THEN revoked ELSE revoked \union Changed(q)
         /\ recorded' = IF collides \/ got[q] = Unread THEN recorded
                          ELSE [recorded EXCEPT ![x] = got[q]]
         /\ link' = [link EXCEPT ![q] = IF collides THEN 0 ELSE x]
         /\ Answer(q, IF collides THEN "collided" ELSE "ok")
  /\ UNCHANGED <<expired, finished, revision, op, todo, got, stood, deaths>>

Off(x) == x \in revoked \union expired

\* get_shared_report looks at the link before it reads, ...
Open(q) ==
  /\ at[q] = "asked" /\ op[q] = "read"
  /\ IF Off(link[q]) THEN Answer(q, "gone")
     ELSE IF finished THEN Goto(q, "report") /\ UNCHANGED <<locks, answer>>
     ELSE Answer(q, "conflict")
  /\ UNCHANGED <<table, local, deaths>>

\* Faulty variant of Serve: the link is looked at once.
ServeUnchecked(q) ==
  /\ at[q] = "end" /\ op[q] = "read"
  /\ Answer(q, "served")
  /\ UNCHANGED <<table, local, deaths>>

\* ... and again when the answer is ready.
Serve(q) ==
  /\ at[q] = "end" /\ op[q] = "read"
  /\ Answer(q, IF Off(link[q]) THEN "gone" ELSE "served")
  /\ UNCHANGED <<table, local, deaths>>

\* _public_details: what is shown of the recorded details.
DetailState(q) ==
  IF recorded[link[q]] = None THEN "not_recorded"
  ELSE IF recorded[link[q]].report = got[q].report THEN "current" ELSE "stale"

-----------------------------------------------------------------------------
(* Changes of the assessment, and of the world.                            *)

\* assessment_write: the lock, and the change with its revision.
LockReport(q) ==
  /\ at[q] = "asked" /\ op[q] = "write"
  /\ finished /\ writer = None /\ readers = {}
  /\ writer' = q
  /\ Goto(q, "end")
  /\ UNCHANGED <<table, runLock, linkLock, readers, local, answer, deaths>>

\* An assessment that is not there cannot be changed.
RefuseWrite(q) ==
  /\ at[q] = "asked" /\ op[q] = "write" /\ ~finished
  /\ Answer(q, "conflict")
  /\ UNCHANGED <<table, local, deaths>>

Write(q) ==
  /\ at[q] = "end" /\ op[q] = "write"
  /\ revision' = IF revision < MaxRevision THEN revision + 1 ELSE revision
  /\ Answer(q, "ok")
  /\ UNCHANGED <<made, revoked, expired, recorded, finished, local, deaths>>

\* The process dies and the transaction is rolled back.
Die(q) ==
  /\ at[q] \notin {"idle", "done"} /\ deaths < MaxDeaths
  /\ deaths' = deaths + 1
  /\ Answer(q, "lost")
  /\ UNCHANGED <<table, local>>

Expire(x) ==
  /\ x \in made \ expired
  /\ expired' = expired \union {x}
  /\ UNCHANGED <<made, revoked, recorded, finished, revision, locks, local, at, answer, deaths>>

FinishRun ==
  /\ ~finished /\ finished' = TRUE
  /\ UNCHANGED <<made, revoked, expired, recorded, revision, locks, local, at, answer, deaths>>

-----------------------------------------------------------------------------

Step(q) ==
  \/ LockRun(q) \/ StartRevoke(q) \/ Find(q) \/ Update(q) \/ Revoke(q) \/ Record(q)
  \/ ReadReport(q) \/ ReadFlags(q) \/ Commit(q) \/ Open(q) \/ Serve(q)
  \/ LockReport(q) \/ RefuseWrite(q) \/ Write(q)

Next ==
  \/ \E q \in Requests :
       Step(q) \/ Die(q) \/ \E o \in {"create", "revoke", "read", "write"} : Ask(q, o)
  \/ \E x \in Links : Expire(x)
  \/ FinishRun

Spec == Init /\ [][Next]_vars

-----------------------------------------------------------------------------
(* Properties.                                                             *)

TypeOK ==
  /\ revoked \subseteq made /\ made \subseteq Links /\ expired \subseteq made
  /\ recorded \in [Links -> {None} \union [report : 0..MaxRevision, flags : 0..MaxRevision]]
  /\ finished \in BOOLEAN /\ revision \in 0..MaxRevision
  /\ runLock \in Requests \union {None} /\ writer \in Requests \union {None}
  /\ linkLock \in [Links -> Requests \union {None}]
  /\ readers \subseteq Requests /\ (writer # None => readers = {})
  /\ at \in [Requests -> Places] /\ answer \in [Requests -> Answers]
  /\ op \in [Requests -> {"create", "revoke", "read", "write"}]
  /\ link \in [Requests -> 0..LastLink]
  /\ todo \in [Requests -> SUBSET Links] /\ stood \in [Requests -> SUBSET Links]
  /\ got \in [Requests -> [report : 0..MaxRevision \union {None},
                           flags : 0..MaxRevision \union {None}]]
  /\ deaths \in 0..MaxDeaths

\* Creates wait for each other at the run's row: the unique index on active
\* links (migration 0020) refuses none of them, and one link is active.
CreateNeverCollides ==
  Cardinality(Active) <= 1 /\ \A q \in Requests : answer[q] # "collided"

\* When a create or a revoke is answered, even with a refusal, no link that was
\* active when the request arrived is active still, whoever else changes it
\* or gives up changing it.
EarlierLinksAreOff ==
  \A q \in Requests :
    op[q] \in {"create", "revoke"} /\ answer[q] \in {"ok", "none"} => stood[q] \intersect Active = {}

\* What a reader is shown is of one assessment, the details recorded for his
\* link included, whatever the instructor changes while the answer is put
\* together.
ServedOneAssessment ==
  \A q \in Requests :
    op[q] = "read" /\ at[q] = "end" =>
      /\ got[q].flags = got[q].report
      /\ DetailState(q) = "current" => recorded[link[q]] = got[q]

\* A link that is turned off, or expires, while its report is put together is
\* not served (of a step).
TurnedOffIsNotServed ==
  \A q \in Requests :
    answer'[q] = "served" /\ answer[q] # "served" => link[q] \in Active \ expired

AtWork(q) == at[q] \notin {"idle", "done"}

\* Somebody else has the row of the run, of a link or of the report that the
\* statement of q needs.
Waits(q) ==
  \/ at[q] = "asked" /\ op[q] = "create" /\ runLock # None
  \/ at[q] = "update" /\ todo[q] # {} /\ \A x \in todo[q] : linkLock[x] # None
  \/ at[q] = "report" /\ writer # None
  \/ at[q] = "asked" /\ op[q] = "write" /\ finished /\ (writer # None \/ readers # {})

\* The locks of runs, links and reports are taken in orders that never leave
\* all requests waiting for each other.
NobodyIsStuck ==
  (\E q \in Requests : AtWork(q)) => \E q \in Requests : AtWork(q) /\ ~Waits(q)

=============================================================================
