-------------------------- MODULE CheckRunPipeline --------------------------
(***************************************************************************)
(* The life of check runs: machine.run_check_run driven by worker tasks,   *)
(* and the two endpoints that act on the same rows meanwhile,              *)
(* service.create_check_run and service.cancel_check_run.                  *)
(*                                                                         *)
(* Scheduling is the abstract slot of ExclusiveSlot, which PipelineClaims  *)
(* shows the claim protocol to implement: a lifecycle commit succeeds only *)
(* for the driver that holds the slot for the run.  A claim may expire     *)
(* under a live driver (LiveExpiry): its further lifecycle commits fail,   *)
(* but what the stages themselves commit carries no such test.             *)
(*                                                                         *)
(* A unit is what one check_result row answers: a criterion settled by     *)
(* routing, a structural or semantic criterion, or one of the integrity    *)
(* checks.  The order of the units of a stage is left open.                *)
(***************************************************************************)
EXTENDS Integers, FiniteSets

CONSTANTS
  Drivers,        \* worker tasks, of one process or of several
  Runs,           \* check_run rows
  Nobody,         \* no driver, no run
  Subject,        \* run -> what is checked: manuscript and rubric
  Manuscripts, Rubrics,
  InLibrary,      \* manuscripts with an active library entry
  Units,          \* the results a run owes
  StageOf,        \* unit -> the stage that settles it
  DegradeOnQuota, \* pipeline_degrade_on_quota
  LiveExpiry,     \* may a claim expire under a live driver?
  MaxFaults       \* bound: crashes, yields, quota waits and live expiries

ASSUME NobodyAssumption == Nobody \notin Drivers \union Runs
ASSUME SubjectAssumption ==
  Subject \in [Runs -> [manuscript : Manuscripts, rubric : Rubrics]]
ASSUME StageOfAssumption ==
  StageOf \in [Units -> {"routing", "structural", "semantic", "integrity"}]
ASSUME ConfigAssumption ==
  DegradeOnQuota \in BOOLEAN /\ LiveExpiry \in BOOLEAN /\ MaxFaults \in Nat

VARIABLES
  run,       \* run -> its row, with its results and its report
  corpus,    \* manuscripts with rows in the originality archive
  slot,      \* the global execution slot
  turn,      \* driver -> where its turn is
  faults     \* faults so far

vars == <<run, corpus, slot, turn, faults>>

StageAfter ==
  [queued |-> "ingesting", ingesting |-> "structural",
   structural |-> "semantic", semantic |-> "integrity",
   integrity |-> "aggregating", aggregating |-> "done"]

Active == DOMAIN StageAfter
Terminal == {"done", "failed", "cancelled"}

\* check_run with its check_result rows, routing plan and readiness_report.
Row == [status : Active \union Terminal \union {"absent"},
        cancel : BOOLEAN,                       \* cancel_requested_at set
        block : {"none", "waiting", "due"},     \* stage_status.blocked
        note : BOOLEAN,                         \* stage_status.cancellation
        plan : BOOLEAN,                         \* criterion_routing recorded
        results : [Units -> Nat],
        report : BOOLEAN]

NewRow == [status |-> "absent", cancel |-> FALSE, block |-> "none",
           note |-> FALSE, plan |-> FALSE, results |-> [u \in Units |-> 0],
           report |-> FALSE]

FreeSlot == [run |-> Nobody, driver |-> Nobody]
HeldBy(d, r) == [run |-> r, driver |-> d]

Points == {"idle", "enter", "route", "publish", "load", "work", "boundary",
           "degrade", "outage", "aggregate", "flush", "recheck", "advance",
           "block", "fail", "ended"}

\* The points whose next step tests the ownership of the claim.
FencedPoints == {"enter", "boundary", "outage", "flush", "recheck",
                 "advance", "block", "fail"}

Turn == [pc : Points,
         job : Runs \union {Nobody},
         stage : Active \union {"done", "none"},  \* status last read
         todo : SUBSET Units,                     \* units read as missing
         unsaved : SUBSET Units]                  \* rows of an open transaction

NoTurn == [pc |-> "idle", job |-> Nobody, stage |-> "none",
           todo |-> {}, unsaved |-> {}]

TypeOK ==
  /\ run \in [Runs -> Row]
  /\ corpus \subseteq Manuscripts
  /\ slot \in [run : Runs \union {Nobody}, driver : Drivers \union {Nobody}]
  /\ turn \in [Drivers -> Turn]
  /\ faults \in 0..MaxFaults

Init ==
  /\ run = [r \in Runs |-> NewRow]
  /\ corpus \in SUBSET Manuscripts
  /\ slot = FreeSlot
  /\ turn = [d \in Drivers |-> NoTurn]
  /\ faults = 0

Owned(d) == slot = HeldBy(d, turn[d].job)

Missing(r, stage) ==
  {u \in Units : StageOf[u] = stage /\ run[r].results[u] = 0}

At(d, point) == turn[d].pc = point

Goto(d, point) == turn' = [turn EXCEPT ![d].pc = point]

\* A fault is spent.
Fault == faults < MaxFaults /\ faults' = faults + 1

\* Faulty variant of Begin: aggregation records its stage and builds no report.
BeginWithoutReport(stage) ==
  CASE stage \in {"queued", "ingesting", "aggregating"} -> "flush"
    [] stage = "structural" -> "route"
    [] stage \in {"semantic", "integrity"} -> "load"
    [] stage = "done" -> "ended"

\* Where a stage begins.
Begin(stage) ==
  CASE stage \in {"queued", "ingesting"} -> "flush"
    [] stage = "structural" -> "route"
    [] stage \in {"semantic", "integrity"} -> "load"
    [] stage = "aggregating" -> "aggregate"
    [] stage = "done" -> "ended"

-----------------------------------------------------------------------------
(* Requests.                                                               *)

\* service.create_check_run: a second request for the same subject returns
\* the active run it finds.
CreateRun(r) ==
  /\ run[r].status = "absent"
  /\ \A s \in Runs : Subject[s] = Subject[r] => run[s].status \notin Active
  /\ run' = [run EXCEPT ![r].status = "queued"]
  /\ UNCHANGED <<corpus, slot, turn, faults>>

\* Faulty variants of Stopped: the report, or the note, is forgotten.
StoppedWithReport(row) == [row EXCEPT !.status = "cancelled", !.note = TRUE]

StoppedSilently(row) == [row EXCEPT !.status = "cancelled", !.report = FALSE]

\* The effect of a finalised cancellation on the row ...
Stopped(row) ==
  [row EXCEPT !.status = "cancelled", !.report = FALSE, !.note = TRUE]

\* Faulty variant of Orphan: only the other active runs are counted.
OrphanAmongActive(r) ==
  /\ run[r].status \in {"integrity", "aggregating"}
  /\ Subject[r].manuscript \notin InLibrary
  /\ \A s \in Runs \ {r} :
       Subject[s].manuscript = Subject[r].manuscript => run[s].status \notin Active

\* ... and on the archive: withdraw_manuscript_if_orphaned.
Orphan(r) ==
  /\ run[r].status \in {"integrity", "aggregating"}
  /\ Subject[r].manuscript \notin InLibrary
  /\ \A s \in Runs \ {r} :
       Subject[s].manuscript = Subject[r].manuscript => run[s].status = "absent"

Withdraw(r) ==
  corpus' = IF Orphan(r) THEN corpus \ {Subject[r].manuscript} ELSE corpus

\* Faulty variant of CancelRun: every run is stopped at once.
CancelRunAtOnce(r) ==
  /\ run[r].status \in Active
  /\ ~run[r].cancel
  /\ run' = [run EXCEPT ![r] = [Stopped(@) EXCEPT !.cancel = TRUE]]
  /\ Withdraw(r)
  /\ UNCHANGED <<slot, turn, faults>>

\* service.cancel_check_run: a queued or blocked run stops at once, any other
\* at its driver's next boundary.
CancelRun(r) ==
  /\ run[r].status \in Active
  /\ ~run[r].cancel
  /\ \/ /\ run[r].status = "queued" \/ run[r].block # "none"
        /\ run' = [run EXCEPT ![r] = [Stopped(@) EXCEPT !.cancel = TRUE]]
        /\ Withdraw(r)
     \/ /\ run[r].status # "queued" /\ run[r].block = "none"
        /\ run' = [run EXCEPT ![r].cancel = TRUE]
        /\ UNCHANGED corpus
  /\ UNCHANGED <<slot, turn, faults>>

-----------------------------------------------------------------------------
(* A driver's turn, worker.worker_step.                                    *)

\* Faulty variants of Admit: runs being cancelled, or runs that have ever been
\* parked, are passed over.
AdmitUncancelled(d, r) ==
  /\ At(d, "idle")
  /\ slot = FreeSlot
  /\ run[r].status \in Active
  /\ run[r].block # "waiting"
  /\ ~run[r].cancel
  /\ slot' = HeldBy(d, r)
  /\ turn' = [turn EXCEPT ![d] = [NoTurn EXCEPT !.pc = "enter", !.job = r]]
  /\ UNCHANGED <<run, corpus, faults>>

AdmitUnparked(d, r) ==
  /\ At(d, "idle")
  /\ slot = FreeSlot
  /\ run[r].status \in Active
  /\ run[r].block = "none"
  /\ slot' = HeldBy(d, r)
  /\ turn' = [turn EXCEPT ![d] = [NoTurn EXCEPT !.pc = "enter", !.job = r]]
  /\ UNCHANGED <<run, corpus, faults>>

\* coordination.admit_next
Admit(d, r) ==
  /\ At(d, "idle")
  /\ slot = FreeSlot
  /\ run[r].status \in Active
  /\ run[r].block # "waiting"
  /\ slot' = HeldBy(d, r)
  /\ turn' = [turn EXCEPT ![d] = [NoTurn EXCEPT !.pc = "enter", !.job = r]]
  /\ UNCHANGED <<run, corpus, faults>>

\* machine._finish_cancel_if_requested, in one fenced transaction: a cancelled
\* run ends the turn, a requested cancellation is finalised, and otherwise the
\* turn goes on as "otherwise" says.
FinishCancel(d, otherwise) ==
  LET r == turn[d].job IN
  /\ Owned(d)
  /\ \/ /\ run[r].status = "cancelled"
        /\ Goto(d, "ended")
        /\ UNCHANGED <<run, corpus>>
     \/ /\ run[r].status # "cancelled" /\ run[r].cancel
        /\ run' = [run EXCEPT ![r] = Stopped(@)]
        /\ Withdraw(r)
        /\ Goto(d, "ended")
     \/ /\ run[r].status # "cancelled" /\ ~run[r].cancel
        /\ otherwise
        /\ UNCHANGED <<run, corpus>>
  /\ UNCHANGED <<slot, faults>>

\* The start of _run_check_run; the routing plan is read again in every turn
\* that begins after ingestion.
Enter(d) ==
  LET stage == run[turn[d].job].status
      first == IF stage \in {"semantic", "integrity", "aggregating"}
               THEN "route" ELSE Begin(stage)
  IN
  /\ At(d, "enter")
  /\ FinishCancel(d, turn' = [turn EXCEPT ![d].pc = first, ![d].stage = stage])

\* machine._routed_decisions
Route(d) ==
  LET t == turn[d]
      row == run[t.job]
  IN
  /\ At(d, "route")
  /\ \/ /\ row.plan
        /\ Goto(d, IF t.stage = "aggregating" THEN "aggregate" ELSE "load")
     \/ /\ ~row.plan
        /\ \/ t.stage # "structural"
           \/ \E u \in Units : row.results[u] # 0
        /\ Goto(d, "fail")
     \/ /\ ~row.plan
        /\ t.stage = "structural"
        /\ \A u \in Units : row.results[u] = 0
        /\ Goto(d, "publish")
  /\ UNCHANGED <<run, corpus, slot, faults>>

\* Faulty variant of Publish: the rows are committed before the plan.
PublishRowsOnly(d) ==
  /\ At(d, "publish")
  /\ run' = [run EXCEPT ![turn[d].job].results =
       [u \in Units |-> IF StageOf[u] = "routing" THEN @[u] + 1 ELSE @[u]]]
  /\ Goto(d, "load")
  /\ UNCHANGED <<corpus, slot, faults>>

\* router.apply_routing: the plan and the rows of the criteria that no stage
\* will settle, in one commit.
Routed(row) ==
  [row EXCEPT !.plan = TRUE,
              !.results = [u \in Units |->
                 IF StageOf[u] = "routing" THEN @[u] + 1 ELSE @[u]]]

Publish(d) ==
  /\ At(d, "publish")
  /\ run' = [run EXCEPT ![turn[d].job] = Routed(@)]
  /\ Goto(d, "load")
  /\ UNCHANGED <<corpus, slot, faults>>

\* Where a stage goes on with the units left to settle.  The integrity stage
\* passes a boundary after every check, also after those it finds settled.
Resume(stage, left) ==
  IF stage = "integrity" /\ left # {u \in Units : StageOf[u] = stage}
  THEN {"boundary"} \union (IF left = {} THEN {} ELSE {"work"})
  ELSE {IF left = {} THEN "flush" ELSE "work"}

\* Faulty variant of Load: a resumed stage starts all over.
LoadEverything(d) ==
  LET all == {u \in Units : StageOf[u] = turn[d].stage} IN
  /\ At(d, "load")
  /\ \E first \in Resume(turn[d].stage, all) :
       turn' = [turn EXCEPT ![d].todo = all, ![d].pc = first]
  /\ UNCHANGED <<run, corpus, slot, faults>>

\* The results a stage finds on its start are not worked on again.
Load(d) ==
  LET missing == Missing(turn[d].job, turn[d].stage) IN
  /\ At(d, "load")
  /\ \E first \in Resume(turn[d].stage, missing) :
       turn' = [turn EXCEPT ![d].todo = missing, ![d].pc = first]
  /\ UNCHANGED <<run, corpus, slot, faults>>

\* One unit is settled and its row committed, with no test of ownership.
Commit1(d, u) ==
  run' = [run EXCEPT ![turn[d].job].results[u] = @ + 1]

\* Structural rules go on without a boundary; a semantic batch and every
\* integrity check end with one, unless the source was unreadable.
Work(d, u) ==
  LET left == turn[d].todo \ {u}
      after == CASE turn[d].stage = "structural" ->
                      {IF left = {} THEN "flush" ELSE "work"}
                 [] turn[d].stage = "semantic" ->
                      {"boundary", IF left = {} THEN "flush" ELSE "work"}
                 [] turn[d].stage = "integrity" -> {"boundary"}
  IN
  /\ At(d, "work")
  /\ u \in turn[d].todo
  /\ Commit1(d, u)
  /\ \E next \in after :
       turn' = [turn EXCEPT ![d].todo = left, ![d].pc = next]
  /\ UNCHANGED <<corpus, slot, faults>>

\* cancellation_boundary
Boundary(d) ==
  /\ At(d, "boundary")
  /\ FinishCancel(d, Goto(d, IF turn[d].todo = {} THEN "flush" ELSE "work"))

\* QuotaExhaustedError: the missing criteria are settled as not graded, row by
\* row, or the run is parked until the quota resets.
QuotaExhausted(d) ==
  LET missing == Missing(turn[d].job, "semantic") IN
  /\ At(d, "work")
  /\ turn[d].stage = "semantic"
  /\ IF DegradeOnQuota
     THEN /\ turn' = [turn EXCEPT ![d].todo = missing,
                       ![d].pc = IF missing = {} THEN "flush" ELSE "degrade"]
          /\ UNCHANGED faults
     ELSE Goto(d, "block") /\ Fault
  /\ UNCHANGED <<run, corpus, slot>>

Degrade(d, u) ==
  LET left == turn[d].todo \ {u} IN
  /\ At(d, "degrade")
  /\ u \in turn[d].todo
  /\ Commit1(d, u)
  /\ turn' = [turn EXCEPT ![d].todo = left,
                          ![d].pc = IF left = {} THEN "flush" ELSE "degrade"]
  /\ UNCHANGED <<corpus, slot, faults>>

\* AIUnavailableError, ApiDownError: a boundary, then rows for the missing
\* criteria that only the stage's own lifecycle commit publishes.
AIUnavailable(d) ==
  /\ At(d, "work")
  /\ turn[d].stage = "semantic"
  /\ Goto(d, "outage")
  /\ UNCHANGED <<run, corpus, slot, faults>>

Outage(d) ==
  /\ At(d, "outage")
  /\ FinishCancel(d,
       turn' = [turn EXCEPT ![d].todo = {}, ![d].pc = "flush",
                  ![d].unsaved = Missing(turn[d].job, "semantic")])

\* report.service.aggregate_and_score: its commit tests no ownership either.
Aggregate(d) ==
  /\ At(d, "aggregate")
  /\ run' = [run EXCEPT ![turn[d].job].report = TRUE]
  /\ Goto(d, "flush")
  /\ UNCHANGED <<corpus, slot, faults>>

\* The first commit of _transition_after_boundary.  _record_stage has replaced
\* the whole of stage_status by a copy read earlier, without "blocked".
Flush(d) ==
  LET t == turn[d]
      recorded(row) == IF t.stage = "queued" THEN row
                       ELSE [row EXCEPT !.block = "none", !.note = FALSE]
      published(row) ==
        [row EXCEPT !.results = [u \in Units |->
           IF u \in t.unsaved THEN @[u] + 1 ELSE @[u]]]
  IN
  /\ At(d, "flush")
  /\ Owned(d)
  /\ run' = [run EXCEPT ![t.job] = published(recorded(@))]
  /\ turn' = [turn EXCEPT ![d].pc = "recheck", ![d].unsaved = {}]
  /\ UNCHANGED <<corpus, slot, faults>>

\* The second commit.
Recheck(d) ==
  /\ At(d, "recheck")
  /\ FinishCancel(d, Goto(d, "advance"))

\* Faulty variant of Advance: the UPDATE is unconditional.
AdvanceUnconditionally(d) ==
  LET next == StageAfter[turn[d].stage] IN
  /\ At(d, "advance")
  /\ Owned(d)
  /\ run' = [run EXCEPT ![turn[d].job].status = next]
  /\ turn' = [turn EXCEPT ![d].pc = Begin(next), ![d].stage = next]
  /\ UNCHANGED <<corpus, slot, faults>>

\* The third: the conditional UPDATE that decides between completion and
\* cancellation.
Advance(d) ==
  LET t == turn[d]
      next == StageAfter[t.stage]
  IN
  /\ At(d, "advance")
  /\ \/ /\ Owned(d)
        /\ run[t.job].status = t.stage
        /\ ~run[t.job].cancel
        /\ run' = [run EXCEPT ![t.job].status = next]
        /\ turn' = [turn EXCEPT ![d].pc = Begin(next), ![d].stage = next]
        /\ UNCHANGED <<corpus, slot, faults>>
     \/ /\ run[t.job].status # t.stage \/ run[t.job].cancel
        /\ FinishCancel(d, Goto(d, "ended"))

-----------------------------------------------------------------------------
(* The exceptional ends of a turn.                                         *)

\* An error inside a stage, or the deadline found at a checkpoint.
Raise(d) ==
  /\ turn[d].pc \in {"route", "publish", "load", "work", "degrade",
                     "boundary", "outage", "aggregate", "advance"}
  /\ turn' = [turn EXCEPT ![d].pc = "fail", ![d].unsaved = {}]
  /\ UNCHANGED <<run, corpus, slot, faults>>

\* _exception_target_if_not_cancelled: an accepted cancellation wins over the
\* failure or the quota wait, which is stored under the same row lock.
ExceptionExit(d, stored) ==
  LET r == turn[d].job IN
  \/ /\ Owned(d)
     /\ run[r].status \in Active
     /\ ~run[r].cancel
     /\ run' = [run EXCEPT ![r] = stored]
     /\ Goto(d, "ended")
     /\ UNCHANGED <<corpus, slot, faults>>
  \/ /\ run[r].status \notin Active \/ run[r].cancel
     /\ FinishCancel(d, Goto(d, "ended"))

Fail(d) ==
  /\ At(d, "fail")
  /\ ExceptionExit(d, [run[turn[d].job] EXCEPT !.status = "failed"])

\* PipelineBlockedError: the run waits for the quota.
Block(d) ==
  /\ At(d, "block")
  /\ ExceptionExit(d, [run[turn[d].job] EXCEPT !.block = "waiting"])

\* ClaimLost: another driver holds the slot, or nobody.
LoseClaim(d) ==
  /\ turn[d].pc \in FencedPoints
  /\ ~Owned(d)
  /\ turn' = [turn EXCEPT ![d].pc = "ended", ![d].unsaved = {}]
  /\ UNCHANGED <<run, corpus, slot, faults>>

\* ClaimYield: the guard or the row is busy, the database slow.
YieldTurn(d) ==
  /\ turn[d].pc \in FencedPoints
  /\ Fault
  /\ turn' = [turn EXCEPT ![d].pc = "ended", ![d].unsaved = {}]
  /\ UNCHANGED <<run, corpus, slot>>

\* The end of worker._execute: the claim is released ...
EndTurn(d) ==
  /\ At(d, "ended")
  /\ slot' = IF Owned(d) THEN FreeSlot ELSE slot
  /\ turn' = [turn EXCEPT ![d] = NoTurn]
  /\ UNCHANGED <<run, corpus, faults>>

\* ... or left to expire, as when the process dies and restarts.
Crash(d) ==
  /\ ~At(d, "idle")
  /\ Fault
  /\ slot' = IF Owned(d) THEN HeldBy(Nobody, turn[d].job) ELSE slot
  /\ turn' = [turn EXCEPT ![d] = NoTurn]
  /\ UNCHANGED <<run, corpus>>

\* A claim that nobody renews is stale after pipeline_claim_stale_seconds.
Expire ==
  /\ slot # FreeSlot
  /\ slot.driver = Nobody
  /\ slot' = FreeSlot
  /\ UNCHANGED <<run, corpus, turn, faults>>

ExpireLive ==
  /\ LiveExpiry
  /\ slot.driver # Nobody
  /\ Fault
  /\ slot' = FreeSlot
  /\ UNCHANGED <<run, corpus, turn>>

\* resume_at passes (machine.is_blocked).
QuotaReset(r) ==
  /\ run[r].block = "waiting"
  /\ run' = [run EXCEPT ![r].block = "due"]
  /\ UNCHANGED <<corpus, slot, turn, faults>>

\* What a driver does when nothing goes wrong with its calls.
Step(d) ==
  \/ \E r \in Runs : Admit(d, r)
  \/ Enter(d)
  \/ Route(d)
  \/ Publish(d)
  \/ Load(d)
  \/ \E u \in Units : Work(d, u) \/ Degrade(d, u)
  \/ Boundary(d)
  \/ QuotaExhausted(d)
  \/ AIUnavailable(d)
  \/ Outage(d)
  \/ Aggregate(d)
  \/ Flush(d)
  \/ Recheck(d)
  \/ Advance(d)
  \/ Raise(d)
  \/ Fail(d)
  \/ Block(d)
  \/ LoseClaim(d)
  \/ EndTurn(d)

Next ==
  \/ \E r \in Runs : CreateRun(r) \/ CancelRun(r) \/ QuotaReset(r)
  \/ \E d \in Drivers : Step(d) \/ YieldTurn(d) \/ Crash(d)
  \/ Expire
  \/ ExpireLive

Spec == Init /\ [][Next]_vars

-----------------------------------------------------------------------------
(* Correctness.                                                            *)

\* Whatever drivers and requests do to a row, its status moves one stage at a
\* time, a terminal status is final, and once a cancellation is accepted the
\* run can become neither done nor failed (_transition_after_boundary's
\* conditional UPDATE, _exception_target_if_not_cancelled).
Lifecycle == INSTANCE CheckRunLifecycle WITH
  status <- [r \in Runs |-> run[r].status],
  requested <- [r \in Runs |-> run[r].cancel]

ImplementsLifecycle == Lifecycle!Spec

\* A run that is done has a report and a result for every unit, however often
\* its stages were interrupted, resumed or run by two drivers at once: a stage
\* never relies on work a crash, a yield or a lost claim has rolled back.
DoneIsComplete ==
  \A r \in Runs :
    run[r].status = "done" =>
      run[r].report /\ \A u \in Units : run[r].results[u] > 0

\* A stage is left only when its units are settled: a driver on its way to the
\* next status has results, stored or about to be stored with the stage's own
\* commit, for every unit up to its stage.
Reached(stage) ==
  CASE stage \in {"queued", "ingesting", "none"} -> {}
    [] stage = "structural" -> {"routing", "structural"}
    [] stage = "semantic" -> {"routing", "structural", "semantic"}
    [] OTHER -> {"routing", "structural", "semantic", "integrity"}

StageLeftSettled ==
  \A d \in Drivers :
    turn[d].pc \in {"recheck", "advance"} =>
      \A u \in Units :
        StageOf[u] \in Reached(turn[d].stage) => run[turn[d].job].results[u] > 0

\* Routing is published before any result and never missing from a later
\* stage: a resumed run never meets the "evaluation plan unavailable" exit of
\* _routed_decisions.
ResumeFindsPlan ==
  \A d \in Drivers :
    At(d, "route") /\ ~run[turn[d].job].plan =>
      /\ turn[d].stage = "structural"
      /\ \A u \in Units : run[turn[d].job].results[u] = 0

\* No unit is settled twice (machine.py: a resumed run makes no duplicate calls
\* for completed work).  It needs claims that do not expire under live drivers.
SettledOnce ==
  \A r \in Runs, u \in Units : run[r].results[u] <= 1

\* A cancelled run has no readiness report, even when its cancellation raced
\* with the aggregation (_finish_cancel_if_requested deletes it).
CancelledHasNoReport ==
  \A r \in Runs : run[r].status = "cancelled" => ~run[r].report

\* A cancelled run says where it stopped: both ways of finalising a
\* cancellation store stage_status.cancellation, and no later commit of the
\* stage that was running erases it.
CancelledSaysWhere ==
  \A r \in Runs : run[r].status = "cancelled" => run[r].note

\* Nothing is written for a run that has ended: its results, plan and report
\* stay as they were, although the commits of the stages test no ownership.
EndedRunUntouched ==
  [][\A r \in Runs :
       run[r].status \in Terminal =>
         /\ run'[r].results = run[r].results
         /\ run'[r].plan = run[r].plan
         /\ run'[r].report = run[r].report]_vars

\* Cancelling one check of a manuscript never withdraws from the originality
\* archive what an earlier, finished check of it left there
\* (withdraw_manuscript_if_orphaned, called by both ways of finalising).
FinishedKeepsArchive ==
  [][\A r \in Runs :
       run[r].status = "done" /\ Subject[r].manuscript \in corpus =>
         Subject[r].manuscript \in corpus']_vars

\* An accepted cancellation takes effect, whatever the driver is doing and
\* even if it dies: the run is cancelled.
CancelTakesEffect ==
  \A r \in Runs : run[r].cancel ~> run[r].status = "cancelled"

\* Every run comes to an end, through crashes, yields and quota waits.
EveryRunEnds ==
  \A r \in Runs : run[r].status # "absent" ~> run[r].status \in Terminal

-----------------------------------------------------------------------------
(* Why the lifecycle is kept: the inductive invariant of                   *)
(* CheckRunPipeline_proofs.                                                *)

\* The stages a driver may have read at a point of its turn.
StagesAt(point) ==
  CASE point \in {"idle", "enter"} -> {"none"}
    [] point = "route" -> {"structural", "semantic", "integrity", "aggregating"}
    [] point = "publish" -> {"structural"}
    [] point \in {"load", "work", "boundary"} ->
         {"structural", "semantic", "integrity"}
    [] point = "ended" -> Active \union {"done", "none"}
    [] OTHER -> Active

TurnInOrder(d) ==
  /\ ~At(d, "idle") => turn[d].job \in Runs
  /\ turn[d].stage \in StagesAt(turn[d].pc)

\* A driver in the middle of its turn that holds the slot drives a run that is
\* active or has just been cancelled: nobody else can have ended it.
DrivesLiveRun(d) ==
  Owned(d) /\ turn[d].pc \notin {"idle", "ended"} =>
    run[turn[d].job].status \in Active \union {"cancelled"}

\* A cancellation is never pending for a run that is done or failed.
CancelMeansStop(r) ==
  run[r].cancel => run[r].status \in Active \union {"cancelled"}

\* The conjunction is inductive.  Of the code it says that the status a driver
\* has read, although read in an earlier transaction, cannot be overtaken by a
\* completion or a failure as long as the driver owns the claim.
IInv ==
  /\ TypeOK
  /\ \A d \in Drivers : TurnInOrder(d) /\ DrivesLiveRun(d)
  /\ \A r \in Runs : CancelMeansStop(r)

-----------------------------------------------------------------------------
(* Why a stage is left only when it is settled: the inductive invariant of *)
(* its progress.  Results and plans are never taken back, so what a driver *)
(* has seen settled stays settled, whoever owns the claim.                 *)

Settled(r, stages) ==
  \A u \in Units : StageOf[u] \in stages => run[r].results[u] > 0

\* What is settled before a run has a given status.
Behind(status) ==
  CASE status = "semantic" -> Reached("structural")
    [] status = "integrity" -> Reached("semantic")
    [] status \in {"aggregating", "done"} -> Reached("integrity")
    [] OTHER -> {}

RowSettled(r) ==
  /\ Settled(r, Behind(run[r].status))
  /\ run[r].status = "done" => run[r].report

\* The plan precedes the results and brings those of the routing with it.
PlanFirst(r) ==
  /\ (\E u \in Units : run[r].results[u] > 0) => run[r].plan
  /\ run[r].plan => Settled(r, {"routing"})
  /\ run[r].status \in {"semantic", "integrity", "aggregating", "done"} =>
       run[r].plan

\* The report a driver has built is there as long as the run is not cancelled.
ReportKept(r) == run[r].report \/ run[r].status = "cancelled"

TurnSettled(d) ==
  LET t == turn[d]
      r == t.job
  IN
  /\ t.stage \in Active => Settled(r, Behind(t.stage))
  /\ t.stage \in {"semantic", "integrity", "aggregating"} => run[r].plan
  /\ t.pc \in {"load", "work", "boundary"} => run[r].plan
  /\ t.pc \in {"degrade", "outage"} => t.stage = "semantic"
  /\ t.pc = "aggregate" => t.stage = "aggregating"
  /\ t.unsaved # {} => run[r].plan
  /\ t.pc \in {"work", "boundary", "degrade"} => Missing(r, t.stage) \subseteq t.todo
  /\ t.pc = "flush" => Missing(r, t.stage) \subseteq t.unsaved
  /\ t.pc \in {"recheck", "advance"} => Settled(r, {t.stage})
  /\ t.pc \in {"flush", "recheck", "advance"} =>
       /\ t.stage = "structural" => run[r].plan
       /\ t.stage = "aggregating" => ReportKept(r)

ProgressInv ==
  /\ IInv
  /\ \A r \in Runs : RowSettled(r) /\ PlanFirst(r)
  /\ \A d \in Drivers : ~At(d, "idle") => TurnSettled(d)

-----------------------------------------------------------------------------
(* Why nothing is done twice or after the end while no claim expires under *)
(* a live driver: the inductive invariants of the sole driver.             *)

\* A driver in the middle of its turn holds the slot, so there is one.
SoleDriver == \A d \in Drivers : ~At(d, "idle") => Owned(d)

Owing(row, stage) == {u \in Units : StageOf[u] = stage /\ row.results[u] = 0}

RowExact(row) ==
  /\ \A u \in Units : row.results[u] <= 1
  /\ row.report => row.status \in {"aggregating", "done", "failed"}
  /\ row.block # "none" => row.status \in {"semantic", "cancelled", "failed"}

\* What a turn t presumes of the row of its run: what it is about to settle is
\* not settled, and a run is only cancelled behind its driver's back when it is
\* queued or parked.
TurnExact(t, row) ==
  /\ t.pc = "publish" => \A u \in Units : row.results[u] = 0
  /\ t.pc \in {"work", "boundary", "degrade"} => t.todo \subseteq Owing(row, t.stage)
  /\ t.unsaved \subseteq Owing(row, "semantic")
  /\ t.unsaved # {} => t.pc = "flush" /\ t.stage = "semantic"
  /\ t.pc \in {"outage", "block"} => t.stage = "semantic"
  /\ t.pc = "aggregate" => t.stage = "aggregating"
  /\ t.pc \notin {"idle", "enter", "ended"} =>
       \/ row.status = t.stage
       \/ row.status = "cancelled" /\ t.stage \in {"queued", "semantic"}
  /\ t.pc \in {"recheck", "advance"} => row.block = "none" \/ row.status = "cancelled"

SoleInv ==
  /\ IInv
  /\ SoleDriver
  /\ \A r \in Runs : RowExact(run[r])
  /\ \A d \in Drivers : ~At(d, "idle") => TurnExact(turn[d], run[turn[d].job])

\* Where runs are never parked, only a queued run is cancelled behind its
\* driver's back, and the note of a cancellation stays.
NeverParked ==
  /\ \A r \in Runs : run[r].block = "none"
  /\ \A r \in Runs : run[r].status = "cancelled" => run[r].note
  /\ \A d \in Drivers :
       /\ turn[d].pc # "block"
       /\ turn[d].pc \notin {"idle", "enter", "ended"} =>
            \/ run[turn[d].job].status = turn[d].stage
            \/ run[turn[d].job].status = "cancelled" /\ turn[d].stage = "queued"

UnparkedInv == SoleInv /\ NeverParked
=============================================================================
