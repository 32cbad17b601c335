---------------------------- MODULE UploadAttempts ----------------------------
(***************************************************************************)
(* Direct manuscript uploads: ingest/direct_upload.py,                     *)
(* ingest/upload_worker.py and the preparation of ingest/service.py.       *)
(*                                                                         *)
(* A browser begins an attempt, transfers the file and reports it          *)
(* complete.  Workers, one to a process and two of them while a deployment *)
(* overlaps, claim queued attempts under a lease that a heartbeat keeps    *)
(* alive, prepare a manuscript record, start the requested check and       *)
(* answer the attempt.  A lease that ran out lets any worker retire the    *)
(* attempt as interrupted, while the stalled owner may still be writing.   *)
(*                                                                         *)
(* An attempt is claimed once, so its lease identity is its worker's name. *)
(***************************************************************************)
EXTENDS Integers, FiniteSets

CONSTANTS
  Attempts,    \* attempt identities
  SameFile,    \* attempts that are for one and the same file
  AskCheck,    \* attempts that ask for a check
  Workers,     \* upload workers
  NoWorker,    \* no lease
  NoAttempt,   \* no attempt in hand
  MaxActive,   \* direct_upload_pending_global
  Budget,      \* direct_upload_storage_budget_mb, in files
  MaxCrashes,  \* bound of the model: processes that die
  MaxStalls    \* bound of the model: leases that run out under a live worker

ASSUME SubsetsAssumption == SameFile \subseteq Attempts /\ AskCheck \subseteq Attempts
ASSUME NamesAssumption == NoWorker \notin Workers /\ NoAttempt \notin Attempts
ASSUME BoundsAssumption ==
  /\ MaxActive \in Nat /\ Budget \in Nat /\ MaxCrashes \in Nat /\ MaxStalls \in Nat

VARIABLES
  status,   \* upload_attempt.status, "new" before the row exists
  link,     \* "open" until expires_at
  staged,   \* staging_deleted_at is not set: the staging object is paid for
  owner,    \* lease_id
  leased,   \* lease_until lies ahead
  record,   \* ingest_status of the attempt's manuscript, "none" while unlinked
  started,  \* a check run was created for it
  said,     \* what the answered attempt says of that check
  sending,  \* attempts with a transfer or a completion under way
  at,       \* worker -> where its preparation is
  on,       \* worker -> the attempt in hand
  outcome,  \* worker -> what it knows of the requested check
  faults    \* crashes and stalls so far

rows == <<status, link, staged, owner, leased, record, started, said>>
local == <<at, on, outcome>>
vars == <<rows, sending, local, faults>>

Active == {"pending", "queued", "processing"}
Answered == {"done", "failed", "expired"}
Busy == {"pending", "processing"}
Outcomes == {"unasked", "started", "refused", "unstarted", "unknown"}

\* Where work can still be cancelled by the heartbeat, and where it cannot.
Working == {"claimed", "linked", "preparing", "recording", "ready", "receipt"}
Ending == {"checked", "rewriting", "failing", "handed off"}

Init ==
  /\ status = [a \in Attempts |-> "new"]
  /\ link = [a \in Attempts |-> "open"]
  /\ staged = [a \in Attempts |-> FALSE]
  /\ owner = [a \in Attempts |-> NoWorker]
  /\ leased = [a \in Attempts |-> FALSE]
  /\ record = [a \in Attempts |-> "none"]
  /\ started = [a \in Attempts |-> FALSE]
  /\ said = [a \in Attempts |-> "unasked"]
  /\ sending = {}
  /\ at = [w \in Workers |-> "idle"]
  /\ on = [w \in Workers |-> NoAttempt]
  /\ outcome = [w \in Workers |-> "unasked"]
  /\ faults = [crashes |-> 0, stalls |-> 0]

-----------------------------------------------------------------------------
(* The browser: begin_upload, relay_upload_body, relay_upload,             *)
(* complete_upload.                                                        *)

\* Faulty variant of HoldsOriginal: only a linked record is paid for.
HoldsOriginalLinked(a) == record[a] # "none"

\* original_reservation
HoldsOriginal(a) == record[a] # "none" \/ status[a] \in Active

\* Files the storage has to have room for: staging copies and originals.
Reserved == Cardinality({a \in Attempts : staged[a]})
              + Cardinality({a \in Attempts : HoldsOriginal(a)})

\* The attempts an admission counts against the ceiling.
Counted == {a \in Attempts : /\ status[a] \in Active
                             /\ status[a] # "pending" \/ link[a] = "open"}

\* Older unfinished attempts for the same file, replaced by a new one.
Replaced(a) == {b \in SameFile \ {a} : a \in SameFile /\ status[b] = "pending"}

\* Admissions are serialised by an advisory lock.
BeginUpload(a) ==
  /\ status[a] = "new"
  /\ LET left == Replaced(a)
         gone == {b \in left : staged[b]}
     IN  /\ Reserved - Cardinality(left) + 2 <= Budget
         /\ Cardinality(Counted \ left) < MaxActive
         /\ status' = [b \in Attempts |-> IF b = a THEN "pending"
                                          ELSE IF b \in left THEN "expired"
                                          ELSE status[b]]
         /\ link' = [b \in Attempts |-> IF b \in left THEN "closed" ELSE link[b]]
  /\ staged' = [staged EXCEPT ![a] = TRUE]
  /\ UNCHANGED <<owner, leased, record, started, said, sending, local, faults>>

\* expires_at passes.
LinkExpires(a) ==
  /\ status[a] # "new"
  /\ link[a] = "open"
  /\ link' = [link EXCEPT ![a] = "closed"]
  /\ UNCHANGED <<status, staged, owner, leased, record, started, said, sending,
                 local, faults>>

\* The first look at the row; its lock is given up while storage works.
StartTransfer(a) ==
  /\ status[a] = "pending"
  /\ link[a] = "open"
  /\ sending' = sending \union {a}
  /\ UNCHANGED <<rows, local, faults>>

\* The second look: still pending, and stored as announced, the file is
\* queued; its link may have expired meanwhile.  Or the transfer failed.
EndTransfer(a) ==
  /\ a \in sending
  /\ sending' = sending \ {a}
  /\ \/ status[a] = "pending" /\ status' = [status EXCEPT ![a] = "queued"]
     \/ UNCHANGED status
  /\ UNCHANGED <<link, staged, owner, leased, record, started, said, local, faults>>

-----------------------------------------------------------------------------
(* One turn of the scheduler, each step a transaction: _cleanup_staging,   *)
(* _retire_interrupted, the claim.                                         *)

\* A day after the link expired: no transfer is still under way.
CleanUp(a) ==
  /\ \E w \in Workers : at[w] = "idle"
  /\ link[a] = "closed"
  /\ a \notin sending
  /\ status[a] \in {"pending", "expired", "done"}
  /\ staged[a]
  /\ staged' = [staged EXCEPT ![a] = FALSE]
  /\ status' = [status EXCEPT ![a] = IF status[a] = "pending" THEN "expired"
                                                              ELSE status[a]]
  /\ UNCHANGED <<link, owner, leased, record, started, said, sending, local, faults>>

Lapsed == {a \in Attempts : status[a] = "processing" /\ ~leased[a]}

\* Faulty variant of RetireInterrupted: it goes by the records.
RetireInterruptedRecords ==
  /\ \E w \in Workers : at[w] = "idle"
  /\ \E a \in Lapsed : record[a] # "none"
  /\ status' = [a \in Attempts |-> IF a \in Lapsed /\ record[a] # "none"
                                   THEN "failed" ELSE status[a]]
  /\ record' = [a \in Attempts |-> IF a \in Lapsed /\ record[a] \in Busy
                                   THEN "failed" ELSE record[a]]
  /\ UNCHANGED <<link, staged, owner, leased, started, said, sending, local, faults>>

\* _retire_interrupted: every attempt whose lease has run out, with its record
RetireInterrupted ==
  /\ \E w \in Workers : at[w] = "idle"
  /\ Lapsed # {}
  /\ status' = [a \in Attempts |-> IF a \in Lapsed THEN "failed" ELSE status[a]]
  /\ record' = [a \in Attempts |-> IF a \in Lapsed /\ record[a] \in Busy
                                   THEN "failed" ELSE record[a]]
  /\ UNCHANGED <<link, staged, owner, leased, started, said, sending, local, faults>>

\* The oldest queued attempt that no other worker is claiming.
Claim(w, a) ==
  /\ at[w] = "idle"
  /\ status[a] = "queued"
  /\ status' = [status EXCEPT ![a] = "processing"]
  /\ owner' = [owner EXCEPT ![a] = w]
  /\ leased' = [leased EXCEPT ![a] = TRUE]
  /\ at' = [at EXCEPT ![w] = "claimed"]
  /\ on' = [on EXCEPT ![w] = a]
  /\ outcome' = [outcome EXCEPT ![w] = "unasked"]
  /\ UNCHANGED <<link, staged, record, started, said, sending, faults>>

-----------------------------------------------------------------------------
(* The lease.                                                              *)

\* The condition of _hold_lease
Held(w) == owner[on[w]] = w /\ status[on[w]] = "processing"

\* A beat renews the lease ...
Beat(w) ==
  /\ at[w] \in Working \union Ending
  /\ Held(w)
  /\ leased' = [leased EXCEPT ![on[w]] = TRUE]
  /\ UNCHANGED <<status, link, staged, owner, record, started, said, sending,
                 local, faults>>

\* ... or finds the attempt retired, and stops the work (stop_preparing),
\* unless only the fenced final write is left.
StopWork(w) ==
  /\ at[w] \in Working
  /\ ~Held(w)
  /\ at' = [at EXCEPT ![w] = "handed off"]
  /\ UNCHANGED <<rows, sending, on, outcome, faults>>

\* The lease of an attempt nobody is at work on runs out.
Lapse(a) ==
  /\ status[a] = "processing"
  /\ leased[a]
  /\ \A w \in Workers : on[w] # a
  /\ leased' = [leased EXCEPT ![a] = FALSE]
  /\ UNCHANGED <<status, link, staged, owner, record, started, said, sending,
                 local, faults>>

\* A worker misses its beats for longer than its lease.
Stall(w) ==
  /\ at[w] # "idle"
  /\ Held(w)
  /\ leased[on[w]]
  /\ faults.stalls < MaxStalls
  /\ faults' = [faults EXCEPT !.stalls = @ + 1]
  /\ leased' = [leased EXCEPT ![on[w]] = FALSE]
  /\ UNCHANGED <<status, link, staged, owner, record, started, said, sending, local>>

\* The process dies, or an error escapes to upload_worker_loop.
Crash(w) ==
  /\ at[w] # "idle"
  /\ faults.crashes < MaxCrashes
  /\ faults' = [faults EXCEPT !.crashes = @ + 1]
  /\ at' = [at EXCEPT ![w] = "idle"]
  /\ on' = [on EXCEPT ![w] = NoAttempt]
  /\ UNCHANGED <<rows, sending, outcome>>

-----------------------------------------------------------------------------
(* The preparation: _ingest_upload, _ingest_manuscript.                    *)

Goto(w, place) == at' = [at EXCEPT ![w] = place] /\ UNCHANGED on

\* _ingest_upload: the record is created and linked, with no look at the lease.
LinkRecord(w) ==
  /\ at[w] = "claimed"
  /\ record' = [record EXCEPT ![on[w]] = "pending"]
  /\ Goto(w, "linked")
  /\ UNCHANGED <<status, link, staged, owner, leased, started, said, sending,
                 outcome, faults>>

\* The staged file is placed; _ingest_manuscript marks the record processing.
MarkProcessing(w) ==
  /\ at[w] = "linked"
  /\ record' = [record EXCEPT ![on[w]] = "processing"]
  /\ Goto(w, "preparing")
  /\ UNCHANGED <<status, link, staged, owner, leased, started, said, sending,
                 outcome, faults>>

\* Faulty variant of Finalize: the record is made ready whoever owns the lease.
FinalizeUnfenced(w) ==
  /\ at[w] = "preparing"
  /\ record' = [record EXCEPT ![on[w]] = "done"]
  /\ leased' = [leased EXCEPT ![on[w]] = TRUE]
  /\ Goto(w, "ready") \/ Goto(w, "recording")
  /\ UNCHANGED <<status, link, staged, owner, started, said, sending, outcome, faults>>

\* The record is made ready in one transaction with still_owned.  The commit
\* may land and its acknowledgment be lost: an error like any other.
Finalize(w) ==
  /\ at[w] = "preparing"
  /\ Held(w)
  /\ record' = [record EXCEPT ![on[w]] = "done"]
  /\ leased' = [leased EXCEPT ![on[w]] = TRUE]
  /\ Goto(w, "ready") \/ Goto(w, "recording")
  /\ UNCHANGED <<status, link, staged, owner, started, said, sending, outcome, faults>>

\* PreparationHandedOff, from still_owned
RefuseStep(w) ==
  /\ at[w] = "preparing" \/ (at[w] = "receipt" /\ on[w] \in AskCheck)
  /\ ~Held(w)
  /\ Goto(w, "handed off")
  /\ UNCHANGED <<rows, sending, outcome, faults>>

\* Any other error before the record is ready, or while the answer is built.
FailStep(w) ==
  /\ at[w] \in {"claimed", "linked", "preparing", "ready"}
  /\ Goto(w, IF at[w] = "preparing" THEN "recording" ELSE "failing")
  /\ UNCHANGED <<rows, sending, outcome, faults>>

\* _record_ingest_failure: best effort, whoever owns the lease by now
RecordIngestFailure(w) ==
  /\ at[w] = "recording"
  /\ \/ record' = [record EXCEPT ![on[w]] = "failed"]
     \/ UNCHANGED record
  /\ Goto(w, "failing")
  /\ UNCHANGED <<status, link, staged, owner, leased, started, said, sending,
                 outcome, faults>>

\* The receipt is built.
BuildReceipt(w) ==
  /\ at[w] = "ready"
  /\ Goto(w, IF on[w] \in AskCheck THEN "receipt" ELSE "checked")
  /\ UNCHANGED <<rows, sending, outcome, faults>>

\* Faulty variant of StartRequestedCheck: an error is taken for a refusal.
StartRequestedCheckGuessing(w) ==
  /\ at[w] = "receipt"
  /\ Held(w)
  /\ leased' = [leased EXCEPT ![on[w]] = TRUE]
  /\ \E created \in BOOLEAN, o \in {"started", "refused", "unstarted"} :
       /\ o = "started" => created
       /\ o = "refused" => ~created
       /\ started' = [started EXCEPT ![on[w]] = created]
       /\ outcome' = [outcome EXCEPT ![w] = o]
  /\ Goto(w, "checked")
  /\ UNCHANGED <<status, link, staged, owner, record, said, sending, faults>>

\* The attempt's row stays locked until the check is committed or refused.
\* After an unexpected error the check is looked for; that may fail as well.
StartRequestedCheck(w) ==
  /\ at[w] = "receipt"
  /\ Held(w)
  /\ leased' = [leased EXCEPT ![on[w]] = TRUE]
  /\ \E created \in BOOLEAN, o \in Outcomes \ {"unasked"} :
       /\ o = "started" => created
       /\ o \in {"refused", "unstarted"} => ~created
       /\ started' = [started EXCEPT ![on[w]] = created]
       /\ outcome' = [outcome EXCEPT ![w] = o]
  /\ Goto(w, "checked")
  /\ UNCHANGED <<status, link, staged, owner, record, said, sending, faults>>

\* An error of still_owned itself: the retried finish looks for a check.
SkipRequestedCheck(w) ==
  /\ at[w] = "receipt"
  /\ \E o \in {"unstarted", "unknown"} : outcome' = [outcome EXCEPT ![w] = o]
  /\ Goto(w, "rewriting")
  /\ UNCHANGED <<rows, sending, faults>>

Free(w) == /\ at' = [at EXCEPT ![w] = "idle"]
           /\ on' = [on EXCEPT ![w] = NoAttempt]
           /\ UNCHANGED outcome

\* The fenced final write.  It may raise, having landed or not, and is then
\* made once more with the same outcome.
FinishDone(w) ==
  /\ at[w] \in {"checked", "rewriting"}
  /\ \/ /\ Held(w)
        /\ status' = [status EXCEPT ![on[w]] = "done"]
        /\ said' = [said EXCEPT ![on[w]] = outcome[w]]
     \/ /\ ~Held(w) \/ at[w] = "checked"
        /\ UNCHANGED <<status, said>>
  /\ \/ /\ Held(w) => status' # status
        /\ Free(w)
     \/ at[w] = "checked" /\ Goto(w, "rewriting") /\ UNCHANGED outcome
  /\ UNCHANGED <<link, staged, owner, leased, record, started, sending, faults>>

\* The failed attempt, fenced, and its record if it is still preparing; the
\* record is found by a lease identity that retiring leaves in place.
FailAttempt(w) ==
  /\ at[w] = "failing"
  /\ status' = [status EXCEPT ![on[w]] = IF Held(w) THEN "failed" ELSE status[on[w]]]
  /\ record' = [record EXCEPT ![on[w]] = IF record[on[w]] \in Busy THEN "failed"
                                         ELSE record[on[w]]]
  /\ Free(w)
  /\ UNCHANGED <<link, staged, owner, leased, started, said, sending, faults>>

\* _record_handed_off
RecordHandedOff(w) ==
  /\ at[w] = "handed off"
  /\ record' = [record EXCEPT ![on[w]] = IF record[on[w]] \in Busy THEN "failed"
                                         ELSE record[on[w]]]
  /\ Free(w)
  /\ UNCHANGED <<status, link, staged, owner, leased, started, said, sending, faults>>

-----------------------------------------------------------------------------
Step(w) ==
  \/ LinkRecord(w) \/ MarkProcessing(w) \/ Finalize(w) \/ RefuseStep(w)
  \/ FailStep(w) \/ RecordIngestFailure(w) \/ BuildReceipt(w)
  \/ StartRequestedCheck(w) \/ SkipRequestedCheck(w) \/ FinishDone(w)
  \/ FailAttempt(w) \/ RecordHandedOff(w)

Next ==
  \/ \E a \in Attempts :
       \/ BeginUpload(a) \/ LinkExpires(a) \/ StartTransfer(a) \/ EndTransfer(a)
       \/ CleanUp(a) \/ Lapse(a)
       \/ \E w \in Workers : Claim(w, a)
  \/ RetireInterrupted
  \/ \E w \in Workers : Step(w) \/ Beat(w) \/ StopWork(w) \/ Stall(w) \/ Crash(w)

Spec == Init /\ [][Next]_vars

\* Every call a preparation makes is bounded by a timeout, the scheduler polls
\* for ever, and the database clock moves on.
Fairness ==
  /\ \A w \in Workers : WF_vars(Step(w))
  /\ \A a \in Attempts : WF_vars(\E w \in Workers : Claim(w, a)) /\ WF_vars(Lapse(a))
  /\ WF_vars(RetireInterrupted)

LiveSpec == Spec /\ Fairness

-----------------------------------------------------------------------------
TypeOK ==
  /\ status \in [Attempts -> Active \union Answered \union {"new"}]
  /\ link \in [Attempts -> {"open", "closed"}]
  /\ staged \in [Attempts -> BOOLEAN]
  /\ owner \in [Attempts -> Workers \union {NoWorker}]
  /\ leased \in [Attempts -> BOOLEAN]
  /\ record \in [Attempts -> Busy \union {"none", "done", "failed"}]
  /\ started \in [Attempts -> BOOLEAN]
  /\ said \in [Attempts -> Outcomes]
  /\ sending \subseteq Attempts
  /\ at \in [Workers -> Working \union Ending \union {"idle"}]
  /\ on \in [Workers -> Attempts \union {NoAttempt}]
  /\ outcome \in [Workers -> Outcomes]
  /\ faults \in [crashes : 0..MaxCrashes, stalls : 0..MaxStalls]
  /\ \A w \in Workers : at[w] # "idle" <=> on[w] \in Attempts

\* What is said of the check is so.
CheckFits(a, o) == /\ o = "started" => started[a]
                   /\ o \in {"unasked", "refused", "unstarted"} => ~started[a]

\* A finished upload has a record that is ready, whatever errors, lost
\* acknowledgments or late failures its preparation met, and no check is
\* reported as not started that exists, nor as started that does not.
DoneIsTrue ==
  \A a \in Attempts : status[a] = "done" => record[a] = "done" /\ CheckFits(a, said[a])

\* The inductive invariant: an attempt is in the hands of the worker its lease
\* names; while that worker holds it, the record is what the worker left it,
\* and a check exists only as far as its outcome allows.
WorkerInv(w) ==
  at[w] # "idle" =>
    /\ owner[on[w]] = w
    /\ status[on[w]] \in {"processing", "done", "failed"}
    /\ at[w] \notin {"checked", "rewriting"} => status[on[w]] # "done"
    /\ at[w] \in {"ready", "receipt", "checked", "rewriting"} /\ Held(w) =>
         record[on[w]] = "done"
    /\ at[w] \in Working => ~started[on[w]] /\ outcome[w] = "unasked"
    /\ at[w] \in {"checked", "rewriting"} => CheckFits(on[w], outcome[w])

RowInv(a) ==
  /\ status[a] \in {"new", "pending", "queued", "expired"} =>
       ~started[a] /\ record[a] = "none" /\ owner[a] = NoWorker
  /\ status[a] = "done" => record[a] = "done" /\ CheckFits(a, said[a])

IInv ==
  /\ TypeOK
  /\ \A w \in Workers : WorkerInv(w)
  /\ \A a \in Attempts : RowInv(a)

\* An answer the browser may have read stays: no late worker, retried write or
\* transfer that outlived its attempt turns it into another.
AnswerStays ==
  [][\A a \in Attempts : status[a] \in Answered => status'[a] = status[a]]_vars

\* A worker whose attempt was retired can neither make the record ready nor
\* start its check (still_owned).
RetiredIsLeftAlone ==
  [][\A a \in Attempts : status[a] \in Answered =>
       /\ record'[a] = "done" => record[a] = "done"
       /\ started'[a] = started[a]]_vars

\* What admission promised to storage is never exceeded by what the admitted
\* attempts turn into, as long as no lease has run out under a live worker.
NeverStalled == faults.stalls = 0
HasRoom == Reserved <= Budget

ReservedInBudget == NeverStalled => HasRoom

\* Why: an original nobody counts yet could only come from a worker that links
\* its record after its attempt was retired; without stalls a worker holds its
\* attempt, under a lease that has not run out, until the preparation ends.
Copies == {a \in Attempts : staged[a]}
Originals == {a \in Attempts : HoldsOriginal(a)}

StillHolds(w) == at[w] \in Working => Held(w) /\ leased[on[w]]

BudgetInv ==
  /\ IInv
  /\ \A w \in Workers : StillHolds(w)
  /\ IsFiniteSet(Copies) /\ IsFiniteSet(Originals)
  /\ HasRoom

\* Every queued upload is answered, also when its worker dies or stalls.
UploadAnswered ==
  \A a \in Attempts : status[a] = "queued" ~> status[a] \in {"done", "failed"}

\* No record goes on looking busy (_record_handed_off).
RecordSettles ==
  \A a \in Attempts : record[a] \in Busy ~> record[a] \in {"done", "failed"}

=============================================================================
