---------------------------- MODULE LibraryArchive ----------------------------
(***************************************************************************)
(* The Library and the purge of manuscripts: library/service.py,           *)
(* archive/service.py and maintenance/library_duplicates.py.               *)
(*                                                                         *)
(* Entering the Library writes a manuscript's comparison rows (its part of *)
(* the originality corpus), leaving it deletes them, and a purge deletes   *)
(* the stored file too.  Requests do this in several transactions, each    *)
(* under the manuscript's advisory lock, which they check again what they  *)
(* have read under; the row of the manuscript is locked besides against    *)
(* readers of the source and against new checks.  Files are deleted before *)
(* the transaction that records it commits, and a process may die between. *)
(***************************************************************************)
EXTENDS Integers, FiniteSets

CONSTANTS
  Submissions,  \* files that may be submitted to the Library
  Checked,      \* checked manuscripts that were in the Library before it
  Content(_),   \* file -> its bytes (content_hash)
  Requests,     \* requests, cancelled runs and operator commands
  None,         \* no request
  MaxCrashes    \* bound of the model: deaths of the process

Papers == Submissions \union Checked

ASSUME KindsAssumption ==
  /\ Submissions \intersect Checked = {} /\ Papers # {} /\ None \notin Requests
  /\ MaxCrashes \in Nat

VARIABLES
  entry,    \* paper -> status of its Library entry, "none" without one
  stalled,  \* entries processing for longer than a live upload takes
  ingest,   \* paper -> its preparation: "none", "open", "done" or "failed"
  purged,   \* papers with purged_at
  corpus,   \* papers with comparison rows
  stored,   \* papers with a stored file or extraction
  checking, \* papers with a check that is not over
  holder,   \* paper -> the request that has its advisory lock
  op,       \* request -> its operation
  at,       \* request -> where it is
  paper,    \* request -> its manuscript
  aim,      \* request -> the status it wants to give the entry
  crashes

rows == <<entry, ingest, purged, corpus>>
who == <<op, paper, aim>>
vars == <<rows, stalled, stored, checking, holder, who, at, crashes>>

Statuses == {"none", "processing", "needs_decision", "active", "failed", "removed"}
Operations == {"submit", "add", "remove", "purge", "cleanup", "withdraw"}
Places == {"idle", "copy", "insert", "store", "extract", "finalize", "reading", "lock",
           "locked", "settle", "erase", "commit", "ending"}

Init ==
  /\ entry = [m \in Papers |-> IF m \in Checked THEN "active" ELSE "none"]
  /\ ingest = [m \in Papers |-> IF m \in Checked THEN "done" ELSE "none"]
  /\ stalled = {} /\ purged = {}
  /\ corpus = Checked /\ stored = Checked
  /\ checking = {}
  /\ holder = [m \in Papers |-> None]
  /\ op = [q \in Requests |-> "remove"]
  /\ at = [q \in Requests |-> "idle"]
  /\ paper = [q \in Requests |-> CHOOSE m \in Papers : TRUE]
  /\ aim = [q \in Requests |-> "none"]
  /\ crashes = 0

-----------------------------------------------------------------------------
(* Locks.                                                                  *)

\* The row of the paper is locked for update, from the check under the
\* advisory lock to the commit.
RowTaken(m) == \E q \in Requests : paper[q] = m /\ at[q] \in {"erase", "commit"}

\* The request reads the stored extraction under the row's SHARE lock.
Sharing(q) == at[q] = "reading"

Shared(m) == \E q \in Requests : paper[q] = m /\ Sharing(q)

Goto(q, place) == at' = [at EXCEPT ![q] = place]

\* advisory_lock, entered and left.
Lock(q) ==
  /\ at[q] = "lock"
  /\ holder[paper[q]] = None
  /\ holder' = [holder EXCEPT ![paper[q]] = q]
  /\ Goto(q, "locked")
  /\ UNCHANGED <<rows, stalled, stored, checking, who, crashes>>

Unlock(q) == holder' = [holder EXCEPT ![paper[q]] = None]

Leave(q) == Unlock(q) /\ Goto(q, "idle")

-----------------------------------------------------------------------------
(* A submission.                                                           *)

AtWorkOn(m) == \E q \in Requests : paper[q] = m /\ at[q] # "idle"

\* Entries that a copy of their file is refused for.
Live(m) ==
  entry[m] \in {"active", "needs_decision", "failed", "processing"} /\ m \notin stalled

\* Faulty variant of Admit: uploads are prepared side by side.
AdmitMore(q, m) ==
  /\ at[q] = "idle"
  /\ m \in Submissions /\ entry[m] = "none" /\ ~ AtWorkOn(m)
  /\ op' = [op EXCEPT ![q] = "submit"]
  /\ paper' = [paper EXCEPT ![q] = m]
  /\ Goto(q, "copy")
  /\ UNCHANGED <<rows, stalled, stored, checking, holder, aim, crashes>>

\* submit_library_entry: one preparation at a time, for the whole request.  The
\* row is a new one, which no other request knows yet.
Admit(q, m) ==
  /\ at[q] = "idle"
  /\ m \in Submissions /\ entry[m] = "none" /\ ~ AtWorkOn(m)
  /\ \A p \in Requests : op[p] = "submit" => at[p] = "idle"
  /\ op' = [op EXCEPT ![q] = "submit"]
  /\ paper' = [paper EXCEPT ![q] = m]
  /\ Goto(q, "copy")
  /\ UNCHANGED <<rows, stalled, stored, checking, holder, aim, crashes>>

\* _own_entry_with_hash
FindCopy(q) ==
  /\ at[q] = "copy"
  /\ IF \E m \in Papers \ {paper[q]} : Content(m) = Content(paper[q]) /\ Live(m)
       THEN Goto(q, "idle") ELSE Goto(q, "insert")
  /\ UNCHANGED <<rows, stalled, stored, checking, holder, who, crashes>>

\* The manuscript and its entry, in one transaction.
Insert(q) ==
  /\ at[q] = "insert"
  /\ entry' = [entry EXCEPT ![paper[q]] = "processing"]
  /\ ingest' = [ingest EXCEPT ![paper[q]] = "open"]
  /\ Goto(q, "store")
  /\ UNCHANGED <<purged, corpus, stalled, stored, checking, holder, who, crashes>>

Store(q) ==
  /\ at[q] = "store"
  /\ stored' = stored \union {paper[q]}
  /\ Goto(q, "extract")
  /\ UNCHANGED <<rows, stalled, checking, holder, who, crashes>>

\* The file cannot be stored: manuscript and entry are deleted again.
StoreFails(q) ==
  /\ at[q] = "store"
  /\ ~ RowTaken(paper[q])
  /\ entry' = [entry EXCEPT ![paper[q]] = "none"]
  /\ ingest' = [ingest EXCEPT ![paper[q]] = "none"]
  /\ purged' = purged \ {paper[q]}
  /\ stalled' = stalled \ {paper[q]}
  /\ stored' = stored \ {paper[q]}
  /\ Goto(q, "idle")
  /\ UNCHANGED <<corpus, checking, holder, who, crashes>>

\* _ingest_manuscript writes the extraction, whatever became of the entry ...
Extract(q) ==
  /\ at[q] = "extract"
  /\ stored' = stored \union {paper[q]}
  /\ Goto(q, "finalize")
  /\ UNCHANGED <<rows, stalled, checking, holder, who, crashes>>

\* ... or fails before it does; a purged record keeps its state.
ExtractFails(q) ==
  /\ at[q] = "extract"
  /\ ingest' = IF paper[q] \in purged THEN ingest
               ELSE [ingest EXCEPT ![paper[q]] = "failed"]
  /\ aim' = [aim EXCEPT ![q] = "failed"]
  /\ Goto(q, "lock")
  /\ UNCHANGED <<entry, purged, corpus, stalled, stored, checking, holder, op, paper, crashes>>

\* It ends, the text is embedded, and it is compared with the owner's entries.
Finalize(q) ==
  /\ at[q] = "finalize"
  /\ ingest' = [ingest EXCEPT ![paper[q]] = "done"]
  /\ \E s \in {"active", "needs_decision", "failed"} : aim' = [aim EXCEPT ![q] = s]
  /\ Goto(q, "lock")
  /\ UNCHANGED <<entry, purged, corpus, stalled, stored, checking, holder, op, paper, crashes>>

-----------------------------------------------------------------------------
(* Other requests.                                                         *)

\* The request finds the entry, or the manuscript, it is about.
Begin(q, m, o) ==
  /\ at[q] = "idle"
  /\ op' = [op EXCEPT ![q] = o]
  /\ paper' = [paper EXCEPT ![q] = m]
  /\ aim' = [aim EXCEPT ![q] = IF o = "add" THEN "active" ELSE "removed"]
  /\ UNCHANGED <<rows, stalled, stored, checking, holder, crashes>>

\* The row of the manuscript exists.
Known(m) == m \in Checked \/ entry[m] # "none"

\* remove_library_entry, and decide_library_entry with "skip".
AskRemove(q, m) == entry[m] # "none" /\ Begin(q, m, "remove") /\ Goto(q, "lock")

\* purge_manuscript
AskPurge(q, m) ==
  /\ Known(m)
  /\ m \notin purged
  /\ Begin(q, m, "purge")
  /\ Goto(q, "lock")

\* apply_cleanup: a copy, or a duplicate the operator names.
AskCleanup(q, m) == entry[m] = "active" /\ Begin(q, m, "cleanup") /\ Goto(q, "lock")

\* decide_library_entry with "add"
AskAdd(q, m) ==
  /\ entry[m] = "needs_decision"
  /\ ~ RowTaken(m)
  /\ Begin(q, m, "add")
  /\ Goto(q, "reading")

\* The extraction is read, or missing; the lock on the row ends.
ReadSource(q) ==
  /\ at[q] = "reading"
  /\ Goto(q, IF paper[q] \in stored /\ paper[q] \notin purged THEN "lock" ELSE "idle")
  /\ UNCHANGED <<rows, stalled, stored, checking, holder, who, crashes>>

\* create_check_run: the row is locked, the run and its commit are one step.
CreateRun(m) ==
  /\ m \in Checked /\ m \notin checking
  /\ ~ RowTaken(m) /\ ~ Shared(m)
  /\ ingest[m] = "done" /\ m \notin purged
  /\ checking' = checking \union {m}
  /\ UNCHANGED <<rows, stalled, stored, holder, who, at, crashes>>

\* Its end is being committed by whoever cancels it.
Cancelling(m) == \E q \in Requests : paper[q] = m /\ op[q] = "withdraw" /\ at[q] # "idle"

EndRun(m) ==
  /\ m \in checking /\ ~ Cancelling(m)
  /\ checking' = checking \ {m}
  /\ UNCHANGED <<rows, stalled, stored, holder, who, at, crashes>>

\* The end of a cancelled run asks for withdraw_manuscript_if_orphaned.
CancelRun(q, m) ==
  /\ at[q] = "idle" /\ m \in checking /\ ~ Cancelling(m)
  /\ op' = [op EXCEPT ![q] = "withdraw"]
  /\ paper' = [paper EXCEPT ![q] = m]
  /\ Goto(q, "lock")
  /\ UNCHANGED <<rows, stalled, stored, checking, holder, aim, crashes>>

-----------------------------------------------------------------------------
(* Under the advisory lock: first what is read, then what is committed.    *)

\* _still: the entry is as the request expects it.
Still(q) ==
  /\ entry[paper[q]] = IF op[q] = "submit" THEN "processing" ELSE "needs_decision"
  /\ paper[q] \notin purged

\* _discard_late_work: only after a real removal.
MustDiscard(q) == entry[paper[q]] = "removed"

CheckEntry(q) ==
  /\ at[q] = "locked" /\ op[q] \in {"submit", "add"}
  /\ IF Still(q) THEN Goto(q, "settle") /\ UNCHANGED holder
     ELSE ~ Shared(paper[q]) /\ IF MustDiscard(q) THEN Goto(q, "erase") /\ UNCHANGED holder
                               ELSE Leave(q)
  /\ UNCHANGED <<rows, stalled, stored, checking, who, crashes>>

\* _activate, _fail and the wait for a decision.
Settle(q) ==
  /\ at[q] = "settle" /\ op[q] \in {"submit", "add"}
  /\ entry' = [entry EXCEPT ![paper[q]] = aim[q]]
  /\ corpus' = IF aim[q] = "active" THEN corpus \union {paper[q]} ELSE corpus
  /\ stalled' = stalled \ {paper[q]}
  /\ Leave(q)
  /\ UNCHANGED <<ingest, purged, stored, checking, who, crashes>>

\* _remove: a live upload, and an entry that left, are refused.
MayRemove(m) ==
  /\ entry[m] \notin {"none", "removed"}
  /\ entry[m] = "processing" => m \in stalled

\* Faulty variant of MayPurge: a running check is not looked for.
MayPurgeChecking(m) == Known(m) /\ m \notin purged /\ ingest[m] # "open"

\* purge_manuscript: refused while the record is prepared or checked.
MayPurge(m) == Known(m) /\ m \notin purged /\ ingest[m] # "open" /\ m \notin checking

\* The row is locked and read; only submissions and purges have a file to
\* delete.
CheckRemoval(q) ==
  /\ at[q] = "locked" /\ op[q] \in {"remove", "purge"}
  /\ ~ Shared(paper[q])
  /\ IF IF op[q] = "remove" THEN MayRemove(paper[q]) ELSE MayPurge(paper[q])
       THEN Goto(q, IF op[q] = "purge" \/ paper[q] \in Submissions THEN "erase" ELSE "commit")
            /\ UNCHANGED holder
       ELSE Leave(q)
  /\ UNCHANGED <<rows, stalled, stored, checking, who, crashes>>

\* delete_stored_files
Erase(q) ==
  /\ at[q] = "erase"
  /\ stored' = stored \ {paper[q]}
  /\ Goto(q, "commit")
  /\ UNCHANGED <<rows, stalled, checking, holder, who, crashes>>

\* The transaction of a removal, a purge or a late discard.
CommitRemoval(q) ==
  /\ at[q] = "commit"
  /\ entry' = IF op[q] \in {"remove", "purge"} /\ entry[paper[q]] # "none"
              THEN [entry EXCEPT ![paper[q]] = "removed"] ELSE entry
  /\ corpus' = corpus \ {paper[q]}
  /\ purged' = IF op[q] = "purge" \/ paper[q] \in Submissions
               THEN purged \union {paper[q]} ELSE purged
  /\ stalled' = stalled \ {paper[q]}
  /\ Leave(q)
  /\ UNCHANGED <<ingest, stored, checking, who, crashes>>

\* _leave_library, read ...
CheckCleanup(q) ==
  /\ at[q] = "locked" /\ op[q] = "cleanup"
  /\ IF entry[paper[q]] = "active" THEN Goto(q, "settle") /\ UNCHANGED holder ELSE Leave(q)
  /\ UNCHANGED <<rows, stalled, stored, checking, who, crashes>>

\* ... and committed: the stored file stays.
CommitCleanup(q) ==
  /\ at[q] = "settle" /\ op[q] = "cleanup"
  /\ entry' = [entry EXCEPT ![paper[q]] = "removed"]
  /\ corpus' = corpus \ {paper[q]}
  /\ Leave(q)
  /\ UNCHANGED <<ingest, purged, stalled, stored, checking, who, crashes>>

\* Faulty variant of InLibrary: an active entry's rows are withdrawn as well.
InLibraryIgnored(m) == FALSE

InLibrary(m) == entry[m] = "active"

\* withdraw_manuscript_if_orphaned reads the entry (the other runs of the
\* manuscript may keep the rows, too) ...
CheckWithdrawal(q) ==
  /\ at[q] = "locked" /\ op[q] = "withdraw"
  /\ \/ ~ InLibrary(paper[q]) /\ Goto(q, "settle") /\ UNCHANGED holder
     \/ Unlock(q) /\ Goto(q, "ending")
  /\ aim' = [aim EXCEPT ![q] = "none"]
  /\ UNCHANGED <<rows, stalled, stored, checking, op, paper, crashes>>

\* ... and deletes the rows it sees.  The lock ends before the transaction does.
Withdraw(q) ==
  /\ at[q] = "settle" /\ op[q] = "withdraw"
  /\ aim' = [aim EXCEPT ![q] = IF paper[q] \in corpus THEN "removed" ELSE "none"]
  /\ Unlock(q) /\ Goto(q, "ending")
  /\ UNCHANGED <<rows, stalled, stored, checking, op, paper, crashes>>

\* The run is over, and what was deleted is gone.
CommitWithdrawal(q) ==
  /\ at[q] = "ending"
  /\ checking' = checking \ {paper[q]}
  /\ corpus' = IF aim[q] = "removed" THEN corpus \ {paper[q]} ELSE corpus
  /\ Goto(q, "idle")
  /\ UNCHANGED <<entry, ingest, purged, stalled, stored, holder, who, crashes>>

-----------------------------------------------------------------------------
(* Time and failures.                                                      *)

\* library_processing_stalled_seconds pass.
Stall(m) ==
  /\ entry[m] = "processing" /\ m \notin stalled
  /\ stalled' = stalled \union {m}
  /\ UNCHANGED <<rows, stored, checking, holder, who, at, crashes>>

\* The process dies: locks go, and transactions with them.
Crash ==
  /\ crashes < MaxCrashes
  /\ crashes' = crashes + 1
  /\ at' = [q \in Requests |-> "idle"]
  /\ holder' = [m \in Papers |-> None]
  /\ UNCHANGED <<rows, stalled, stored, checking, who>>

Step(q) ==
  \/ FindCopy(q) \/ Insert(q) \/ Store(q) \/ StoreFails(q)
  \/ Extract(q) \/ ExtractFails(q) \/ Finalize(q) \/ ReadSource(q)
  \/ Lock(q) \/ CheckEntry(q) \/ Settle(q) \/ CheckRemoval(q) \/ Erase(q)
  \/ CommitRemoval(q) \/ CheckCleanup(q) \/ CommitCleanup(q)
  \/ CheckWithdrawal(q) \/ Withdraw(q) \/ CommitWithdrawal(q)

Ask(q, m) ==
  \/ Admit(q, m) \/ AskRemove(q, m) \/ AskPurge(q, m) \/ AskCleanup(q, m)
  \/ AskAdd(q, m) \/ CancelRun(q, m)

Next ==
  \/ \E q \in Requests : Step(q)
  \/ \E q \in Requests, m \in Papers : Ask(q, m)
  \/ \E m \in Papers : CreateRun(m) \/ EndRun(m) \/ Stall(m)
  \/ Crash

Spec == Init /\ [][Next]_vars

-----------------------------------------------------------------------------
(* Properties.                                                             *)

TypeOK ==
  /\ entry \in [Papers -> Statuses]
  /\ ingest \in [Papers -> {"none", "open", "done", "failed"}]
  /\ stalled \subseteq Papers /\ purged \subseteq Papers
  /\ corpus \subseteq Papers /\ stored \subseteq Papers
  /\ checking \subseteq Checked
  /\ holder \in [Papers -> Requests \union {None}]
  /\ op \in [Requests -> Operations]
  /\ at \in [Requests -> Places]
  /\ paper \in [Requests -> Papers]
  /\ aim \in [Requests -> Statuses]
  /\ crashes \in 0..MaxCrashes

\* "The F7 embedding tables hold rows for a manuscript exactly when its entry
\* is active" (models/library.py), so that searching them searches the Library.
CorpusIsActive == \A m \in Papers : m \in corpus <=> entry[m] = "active"

\* A removal or purge is final: work that was going on when it was committed
\* does not bring the entry back.
RemovedStaysOut ==
  [][\A m \in Papers : entry[m] = "removed" => entry'[m] \in {"removed", "none"}]_vars

\* In one process, an owner's submission has no live copy, of whatever origin.
OneCopy ==
  \A m \in Submissions, n \in Papers :
    m # n /\ Content(m) = Content(n) => ~ (Live(m) /\ Live(n))

\* What a purge or removal deleted, late work of an upload wrote again is gone
\* by the time the last request on the manuscript has ended, unless its process
\* died.
PurgedHasNothing == \A m \in Papers : m \in purged /\ ~ AtWorkOn(m) => m \notin stored

\* Late work never deletes what the action that won has kept.
ActiveKeepsSource ==
  \A m \in Papers : entry[m] = "active" /\ ~ AtWorkOn(m) => m \in stored

\* A check that is not over has its source: a purge and a new check exclude
\* each other.  (A process that dies between the deletion of the files and the
\* commit of purged_at leaves a manuscript that a check may still be started on.)
CheckKeepsSource == \A m \in checking : m \in stored /\ m \notin purged

\* A check that is not over has its source, an entry its file, and what a purge
\* deleted stays deleted, whatever late work of an upload wrote after it.  It is
\* said of processes that live: after any death nothing is claimed here, since one
\* between the deletion of the files and its commit breaks it.
FilesFollow == crashes = 0 => CheckKeepsSource /\ ActiveKeepsSource /\ PurgedHasNothing

AtWork(q) == at[q] # "idle"

\* Somebody else has the advisory lock, or the row of the manuscript, that q
\* needs to go on, or would need if its file could not be stored.
Waits(q) ==
  \/ at[q] = "lock" /\ holder[paper[q]] # None
  \/ /\ at[q] = "locked" /\ Shared(paper[q])
     /\ op[q] \in {"remove", "purge"} \/ (op[q] \in {"submit", "add"} /\ ~Still(q))
  \/ at[q] = "store" /\ RowTaken(paper[q])

\* Requests that hold advisory locks and row locks never all wait for each other.
NobodyIsStuck ==
  (\E q \in Requests : AtWork(q)) => \E q \in Requests : AtWork(q) /\ ~Waits(q)

=============================================================================
