------------------------------ MODULE ExportJobs ------------------------------
(***************************************************************************)
(* Prepared report documents: report/export_jobs.py and the routes of      *)
(* report/router.py that prepare, watch and download them.                 *)
(*                                                                         *)
(* One process keeps one job: a document being prepared, or the file of    *)
(* the last one until it expires.  A job is bound to the assessment and    *)
(* the source as a request saw them; it reads the database in several      *)
(* transactions and builds outside of any, while decisions are taken and   *)
(* the source may be purged.  A download holds a lock on the source row,   *)
(* which purging waits for, and a lease on the file.                       *)
(***************************************************************************)
EXTENDS Integers, FiniteSets

CONSTANTS
  Reports,      \* finished runs, each with its manuscript
  Clients,      \* requests of their owners
  MaxRevision,  \* bound of the model: decisions per report
  MaxJobs,      \* bound of the model: jobs started
  MaxStarts     \* bound of the model: starts of the application

Jobs == 1..MaxJobs
None == 0
Closed == {"ready", "stale", "failed"}

VARIABLES
  revision,  \* report -> assessment_revision
  purged,    \* reports whose manuscript's source is purged
  at,        \* client -> where its request is
  seen,      \* client -> the binding it has read
  wants,     \* client -> the job it asks for
  slot,      \* ExportJobs.job
  closing,   \* ExportJobs.closing
  stopping,  \* the lifespan: "no", "waiting" for the task, or "stopped"
  timer,     \* the job whose finish set the expiry timer
  starts,    \* starts of the application after the first
  binding,   \* job -> its binding
  state,     \* job -> "none" before it exists, "preparing", or as it closed
  phase,     \* job -> what its task does next
  cancelled, \* jobs whose task was cancelled during native work
  content,   \* job -> what its document says: a revision and a source state
  aged,      \* finished jobs whose time to live has passed
  files,     \* jobs whose directory exists
  leases     \* job -> ExportJob.leases

source == <<revision, purged>>
requests == <<at, seen, wants>>
life == <<closing, stopping, starts>>
task == <<binding, phase, cancelled, content>>
vars == <<source, requests, slot, life, timer, task, state, aged, files, leases>>

\* export_binding: the columns of the report and of its manuscript.
Binding(r) == [report |-> r, revision |-> revision[r], purged |-> r \in purged]
Unbound == [report |-> None, revision |-> -1, purged |-> FALSE]
Bindings == [report : Reports, revision : 0..MaxRevision, purged : BOOLEAN] \union {Unbound}

Init ==
  /\ revision = [r \in Reports |-> 0]
  /\ purged = {}
  /\ at = [c \in Clients |-> "idle"]
  /\ seen = [c \in Clients |-> Unbound]
  /\ wants = [c \in Clients |-> None]
  /\ slot = None /\ timer = None
  /\ closing = FALSE /\ stopping = "no" /\ starts = 0
  /\ binding = [j \in Jobs |-> Unbound]
  /\ state = [j \in Jobs |-> "none"]
  /\ phase = [j \in Jobs |-> "none"]
  /\ cancelled = {} /\ aged = {} /\ files = {}
  /\ content = [j \in Jobs |-> Unbound]
  /\ leases = [j \in Jobs |-> 0]

\* A request answered, and its locals gone.
Answered(c) ==
  /\ at' = [at EXCEPT ![c] = "idle"]
  /\ seen' = [seen EXCEPT ![c] = Unbound]
  /\ wants' = [wants EXCEPT ![c] = None]

-----------------------------------------------------------------------------
(* Decisions and purges, by other requests.                                *)

\* A judgment or decision saved on the report.
Decide(r) ==
  /\ revision[r] < MaxRevision
  /\ revision' = [revision EXCEPT ![r] = revision[r] + 1]
  /\ UNCHANGED <<purged, requests, slot, life, timer, task, state, aged, files, leases>>

\* Downloads hold the SHARE lock of lock_source through response completion.
SourceLocks == {c \in Clients : at[c] \in {"find", "stream"}}

\* The purge takes the row for update, and so waits for the downloads.
Purge(r) ==
  /\ r \notin purged
  /\ \A c \in SourceLocks : seen[c].report # r
  /\ purged' = purged \union {r}
  /\ UNCHANGED <<revision, requests, slot, life, timer, task, state, aged, files, leases>>

-----------------------------------------------------------------------------
(* The registry of the one job.                                            *)

\* expire, with leases ls: the job is over, nobody downloads it, and its time
\* has passed.
Expires(ls) ==
  slot # None /\ state[slot] \in Closed /\ ls[slot] = 0 /\ slot \in aged

\* What expire leaves in the slot and on the disk.
SlotAfter(ls) == IF Expires(ls) THEN None ELSE slot
FilesAfter(ls) == IF Expires(ls) THEN files \ {slot} ELSE files

SlotKept == SlotAfter(leases)
FilesKept == FilesAfter(leases)
Expire == slot' = SlotKept /\ files' = FilesKept

\* ExportJob.cleanup
Cleaned(j, fs, ls) == IF ls[j] = 0 THEN fs \ {j} ELSE fs

\* prepare, first part: another job is in the way.
Busy ==
  \/ closing
  \/ SlotKept # None /\ (state[SlotKept] = "preparing" \/ leases[SlotKept] > 0)

\* prepare asked again for the document there is, or that is being prepared.
Same(b) ==
  /\ ~ closing
  /\ SlotKept # None
  /\ binding[SlotKept] = b
  /\ state[SlotKept] \in {"preparing", "ready"}

\* The request reads the binding, in a transaction of its own.
AskPrepare(c, r) ==
  /\ at[c] = "idle"
  /\ at' = [at EXCEPT ![c] = "prepare"]
  /\ seen' = [seen EXCEPT ![c] = Binding(r)]
  /\ UNCHANGED <<source, wants, slot, life, timer, task, state, aged, files, leases>>

\* prepare refused, or answered with the job there is.
PrepareKnown(c) ==
  /\ at[c] = "prepare"
  /\ Same(seen[c]) \/ Busy
  /\ Expire
  /\ Answered(c)
  /\ UNCHANGED <<source, life, timer, task, state, aged, leases>>

\* prepare with a new job, which takes the place of the last one.
PrepareNew(c) ==
  /\ at[c] = "prepare"
  /\ ~ (Same(seen[c]) \/ Busy)
  /\ \E j \in Jobs :
       /\ state[j] = "none" /\ \A i \in Jobs : i < j => state[i] # "none"
       /\ slot' = j
       /\ state' = [state EXCEPT ![j] = "preparing"]
       /\ phase' = [phase EXCEPT ![j] = "check"]
       /\ binding' = [binding EXCEPT ![j] = seen[c]]
  /\ files' = IF SlotKept = None THEN FilesKept ELSE Cleaned(SlotKept, FilesKept, leases)
  /\ Answered(c)
  /\ UNCHANGED <<source, life, timer, cancelled, content, aged, leases>>

\* report_pdf_job_route: find looks for what has expired.
Poll ==
  /\ Expires(leases)
  /\ Expire
  /\ UNCHANGED <<source, requests, life, timer, task, state, aged, leases>>

-----------------------------------------------------------------------------
(* The task of a job.                                                      *)

\* The way out of run, the finally clause included; other than with a finished
\* document it cleans up.
Close(j, how) ==
  /\ state' = [state EXCEPT ![j] = how]
  /\ phase' = [phase EXCEPT ![j] = "none"]
  /\ timer' = j

Withdraw(j, how) ==
  /\ Close(j, how)
  /\ files' = Cleaned(j, files, leases)
  /\ content' = [content EXCEPT ![j] = Unbound]
  /\ cancelled' = cancelled \ {j}

Proceed(j, next) ==
  /\ phase' = [phase EXCEPT ![j] = next]
  /\ UNCHANGED <<timer, state, files>>

TaskFrame == UNCHANGED <<source, requests, slot, life, binding, aged, leases>>

\* Faulty variant of Current: only the revision is compared.
CurrentRevision(j) == revision[binding[j].report] = binding[j].revision

\* The binding of the job still holds.
Current(j) == Binding(binding[j].report) = binding[j]

\* The first comparison, and the admission of evidence images taken.
CheckBinding(j) ==
  /\ phase[j] = "check"
  /\ IF Current(j)
       THEN Proceed(j, "rows") /\ UNCHANGED <<cancelled, content>>
       ELSE Withdraw(j, "stale")
  /\ TaskFrame

\* get_report_export_data up to its commit: the assessment as one snapshot.
ReadRows(j) ==
  /\ phase[j] = "rows"
  /\ content' = [content EXCEPT ![j] =
       [report |-> binding[j].report, revision |-> revision[binding[j].report], purged |-> FALSE]]
  /\ Proceed(j, "images")
  /\ UNCHANGED cancelled /\ TaskFrame

\* Its reading of the source, under a lock of its own, and the comparison of
\* the revision that was read.
ReadImages(j) ==
  /\ phase[j] = "images"
  /\ IF content[j].revision = binding[j].revision
       THEN /\ content' = [content EXCEPT ![j].purged = binding[j].report \in purged]
            /\ Proceed(j, "build")
            /\ UNCHANGED cancelled
       ELSE Withdraw(j, "stale")
  /\ TaskFrame

\* build_report_pdf ends in its thread; too large a document is stale.
Build(j) ==
  /\ phase[j] = "build"
  /\ IF j \in cancelled THEN Withdraw(j, "failed")
     ELSE \/ Proceed(j, "recheck") /\ UNCHANGED <<cancelled, content>>
          \/ Withdraw(j, "stale")
  /\ TaskFrame

\* The second comparison, and the directory of the file.
Recheck(j) ==
  /\ phase[j] = "recheck"
  /\ IF Current(j)
       THEN /\ phase' = [phase EXCEPT ![j] = "write"]
            /\ files' = files \union {j}
            /\ UNCHANGED <<timer, state, cancelled, content>>
       ELSE Withdraw(j, "stale")
  /\ TaskFrame

\* The write ends in its thread.
Write(j) ==
  /\ phase[j] = "write"
  /\ IF j \in cancelled THEN Withdraw(j, "failed")
     ELSE Close(j, "ready") /\ UNCHANGED <<files, cancelled, content>>
  /\ TaskFrame

\* Any other exception: the images are busy, a transaction or the disk fails.
Break(j) ==
  /\ phase[j] # "none"
  /\ Withdraw(j, "failed")
  /\ TaskFrame

\* The task is cancelled: between transactions it ends, during native work it
\* ends with the thread.
Interrupt(j) ==
  /\ phase[j] # "none" /\ j \notin cancelled
  /\ IF phase[j] \in {"build", "write"}
       THEN /\ cancelled' = cancelled \union {j}
            /\ UNCHANGED <<timer, state, files, phase, content>>
       ELSE Withdraw(j, "failed")
  /\ TaskFrame

-----------------------------------------------------------------------------
(* Time, downloads and the end of the application.                         *)

\* The time to live passes for a finished job that is still asked for it.
Age(j) ==
  /\ state[j] \in Closed /\ j \notin aged
  /\ j \in {slot, timer}
  /\ aged' = aged \union {j}
  /\ UNCHANGED <<source, requests, slot, life, timer, task, state, files, leases>>

\* The expiry timer fires.
Fire ==
  /\ timer \in aged
  /\ timer' = None
  /\ Expire
  /\ UNCHANGED <<source, requests, life, task, state, aged, leases>>

\* prepared_report_pdf_route, for a job id the client was given: the source is
\* locked, then the binding read.
AskFile(c, r, j) ==
  /\ at[c] = "idle"
  /\ state[j] # "none"
  /\ wants' = [wants EXCEPT ![c] = j]
  /\ at' = [at EXCEPT ![c] = "find"]
  /\ seen' = [seen EXCEPT ![c] = Binding(r)]
  /\ UNCHANGED <<source, slot, life, timer, task, state, aged, files, leases>>

\* find, and the file's path.
Found(c) ==
  /\ SlotKept # None /\ SlotKept = wants[c]
  /\ binding[SlotKept] = seen[c]
  /\ state[SlotKept] = "ready" /\ SlotKept \in FilesKept

\* find and PreparedPdfResponse: a refusal, or a lease on the file.
Fetch(c) ==
  /\ at[c] = "find"
  /\ Expire
  /\ IF Found(c)
       THEN /\ at' = [at EXCEPT ![c] = "stream"]
            /\ leases' = [leases EXCEPT ![SlotKept] = leases[SlotKept] + 1]
            /\ UNCHANGED <<seen, wants>>
       ELSE Answered(c) /\ UNCHANGED leases
  /\ UNCHANGED <<source, life, timer, task, state, aged>>

\* Nobody but the last response on it will remove the file of job j.
Orphaned(j, s) == closing \/ s # j

\* The end of PreparedPdfResponse, sent, broken or cancelled.
EndDownload(c) ==
  /\ at[c] = "stream"
  /\ LET j == wants[c]
         left == [leases EXCEPT ![j] = leases[j] - 1]
     IN /\ leases' = left
        /\ slot' = SlotAfter(left)
        /\ files' = IF Orphaned(j, slot') THEN Cleaned(j, FilesAfter(left), left)
                    ELSE FilesAfter(left)
  /\ Answered(c)
  /\ UNCHANGED <<source, life, timer, task, state, aged>>

\* The rest of shutdown once no task runs.
Retire ==
  /\ files' = IF slot = None THEN files ELSE Cleaned(slot, files, leases)
  /\ slot' = None
  /\ timer' = None
  /\ stopping' = "stopped"

Preparing == slot # None /\ state[slot] = "preparing"

\* shutdown: a running task is awaited.
BeginShutdown ==
  /\ stopping = "no"
  /\ closing' = TRUE
  /\ IF Preparing
       THEN timer' = None /\ stopping' = "waiting" /\ UNCHANGED <<slot, files>>
       ELSE Retire
  /\ UNCHANGED <<source, requests, task, state, aged, leases, starts>>

FinishShutdown ==
  /\ stopping = "waiting"
  /\ ~ Preparing
  /\ Retire
  /\ UNCHANGED <<source, requests, task, state, aged, leases, closing, starts>>

\* The lifespan of main.py, begun again in the same process.
StartApp ==
  /\ stopping = "stopped"
  /\ starts < MaxStarts
  /\ starts' = starts + 1
  /\ closing' = FALSE /\ stopping' = "no"
  /\ UNCHANGED <<source, requests, slot, timer, task, state, aged, files, leases>>

RunStep(j) ==
  \/ CheckBinding(j) \/ ReadRows(j) \/ ReadImages(j)
  \/ Build(j) \/ Recheck(j) \/ Write(j)

Next ==
  \/ \E r \in Reports : Decide(r) \/ Purge(r)
  \/ \E c \in Clients, r \in Reports :
       AskPrepare(c, r) \/ \E j \in Jobs : AskFile(c, r, j)
  \/ \E c \in Clients : PrepareKnown(c) \/ PrepareNew(c) \/ Fetch(c) \/ EndDownload(c)
  \/ \E j \in Jobs : RunStep(j) \/ Break(j) \/ Interrupt(j) \/ Age(j)
  \/ Poll \/ Fire \/ BeginShutdown \/ FinishShutdown \/ StartApp

Spec == Init /\ [][Next]_vars

-----------------------------------------------------------------------------
(* Properties.                                                             *)

TypeOK ==
  /\ revision \in [Reports -> 0..MaxRevision]
  /\ purged \subseteq Reports
  /\ at \in [Clients -> {"idle", "prepare", "find", "stream"}]
  /\ seen \in [Clients -> Bindings]
  /\ wants \in [Clients -> Jobs \union {None}]
  /\ slot \in Jobs \union {None}
  /\ timer \in Jobs \union {None}
  /\ closing \in BOOLEAN /\ stopping \in {"no", "waiting", "stopped"}
  /\ starts \in 0..MaxStarts
  /\ binding \in [Jobs -> Bindings]
  /\ state \in [Jobs -> {"none", "preparing"} \union Closed]
  /\ phase \in [Jobs -> {"none", "check", "rows", "images", "build", "recheck", "write"}]
  /\ cancelled \subseteq Jobs /\ aged \subseteq Jobs /\ files \subseteq Jobs
  /\ content \in [Jobs -> Bindings]
  /\ leases \in [Jobs -> 0..Cardinality(Clients)]

Streaming == {c \in Clients : at[c] = "stream"}

\* The file of a download stays on the disk until the response is over,
\* whatever expires, is replaced or shuts down meanwhile.
FileKept == \A c \in Streaming : wants[c] \in files

\* "One active or retained artifact": whatever is prepared or kept is the
\* slot's own, or a file still being downloaded that will go with its lease.
Accounted ==
  \A j \in Jobs : state[j] = "preparing" \/ j \in files
                   => j = slot \/ (leases[j] > 0 /\ state[j] = "ready")

\* A finished document says what its binding says, although it was read in
\* several transactions: a decision or a purge in between withholds it.
ReadyIsWhole == \A j \in Jobs : state[j] = "ready" => content[j] = binding[j]

\* A document that is sent says what the request saw of the report and of the
\* source under its lock, although it was read in three transactions.
ServedAsSeen == \A c \in Streaming : content[wants[c]] = seen[c]

\* While a document made from the source is being sent, the source stays.
SourceStays ==
  \A c \in Streaming : (seen[c].report \in purged) = content[wants[c]].purged

=============================================================================
