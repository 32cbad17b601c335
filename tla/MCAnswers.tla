------------------------------ MODULE MCAnswers ------------------------------
(* What is accepted is answered, for TLC: uploads (UploadAttempts) and, as *)
(* a behaviour of its own, check runs (CheckRunPipeline), each with the    *)
(* fairness of its module.                                                 *)
EXTENDS UploadAttempts, TLC

CONSTANTS a1, a2, w1, w2, d1, d2, r1, r2, Nobody

VARIABLES
  side,                           \* what a behaviour is about; the other stands still
  run, corpus, slot, turn, turnFaults   \* of CheckRunPipeline

checks == <<run, corpus, slot, turn, turnFaults>>

\* Two requests to check the same manuscript by the same format, one unit of
\* each kind but the routed; no claim expires under a live driver.
Check == INSTANCE CheckRunPipeline WITH
  Drivers <- {d1, d2}, Runs <- {r1, r2}, Manuscripts <- {"m"}, Rubrics <- {"a", "b"},
  InLibrary <- {}, Units <- {"s", "m", "i"},
  Subject <- [r \in {r1, r2} |-> [manuscript |-> "m", rubric |-> "a"]],
  StageOf <- [s |-> "structural", m |-> "semantic", i |-> "integrity"],
  DegradeOnQuota <- FALSE, LiveExpiry <- FALSE, MaxFaults <- 2, faults <- turnFaults

MCInit ==
  /\ Init /\ Check!Init /\ side \in {"upload", "check"}
  /\ side = "upload" => corpus = {}

MCNext ==
  \/ side = "upload" /\ Next /\ UNCHANGED <<side, checks>>
  \/ side = "check" /\ Check!Next /\ UNCHANGED <<side, vars>>

MCSpec ==
  /\ MCInit /\ [][MCNext]_<<side, vars, checks>>
  \* Fairness of UploadAttempts.
  /\ \A w \in Workers : WF_vars(side = "upload" /\ Step(w))
  /\ \A a \in Attempts :
       /\ WF_vars(side = "upload" /\ \E w \in Workers : Claim(w, a))
       /\ WF_vars(side = "upload" /\ Lapse(a))
  /\ WF_vars(side = "upload" /\ RetireInterrupted)
  \* worker_loop polls for ever, every call it awaits is bounded by a timeout or
  \* by the run's deadline, a claim nobody renews expires, quotas reset.
  /\ \A d \in {d1, d2} : WF_checks(side = "check" /\ Check!Step(d))
  /\ \A r \in {r1, r2} : WF_checks(side = "check" /\ Check!QuotaReset(r))
  /\ WF_checks(side = "check" /\ Check!Expire)

-----------------------------------------------------------------------------
(* Properties.                                                             *)

\* An accepted cancellation of a check takes effect, whatever the driver is
\* doing and even if it dies: the run is cancelled.
CancelTakesEffect == Check!CancelTakesEffect

\* Every check comes to an end, through crashes, yields and quota waits.
EveryRunEnds == Check!EveryRunEnds

=============================================================================
