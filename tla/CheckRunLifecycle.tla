------------------------- MODULE CheckRunLifecycle -------------------------
(***************************************************************************)
(* What app/pipeline promises of check_run.status and                      *)
(* check_run.cancel_requested_at, whoever writes them: the stages follow   *)
(* one another, a terminal status is final, and from the moment a          *)
(* cancellation is accepted a run goes nowhere but to "cancelled".         *)
(* CheckRunPipeline implements this module.                                *)
(***************************************************************************)
CONSTANT Runs

VARIABLES
  status,      \* run -> "absent" before its creation, or check_run.status
  requested    \* run -> a cancellation has been accepted

vars == <<status, requested>>

\* machine._STAGE_AFTER
StageAfter ==
  [queued |-> "ingesting", ingesting |-> "structural",
   structural |-> "semantic", semantic |-> "integrity",
   integrity |-> "aggregating", aggregating |-> "done"]

\* coordination.NON_TERMINAL, service._ACTIVE_STATUSES
Active == DOMAIN StageAfter

Terminal == {"done", "failed", "cancelled"}

Init ==
  /\ status = [r \in Runs |-> "absent"]
  /\ requested = [r \in Runs |-> FALSE]

Create(r) ==
  /\ status[r] = "absent"
  /\ status' = [status EXCEPT ![r] = "queued"]
  /\ UNCHANGED requested

\* A request is accepted only while the run is active, and only once; the run
\* stops at once or later.
RequestCancel(r) ==
  /\ status[r] \in Active
  /\ ~requested[r]
  /\ requested' = [requested EXCEPT ![r] = TRUE]
  /\ \/ UNCHANGED status
     \/ status' = [status EXCEPT ![r] = "cancelled"]

Stop(r) ==
  /\ status[r] \in Active
  /\ requested[r]
  /\ status' = [status EXCEPT ![r] = "cancelled"]
  /\ UNCHANGED requested

Advance(r) ==
  /\ status[r] \in Active
  /\ ~requested[r]
  /\ status' = [status EXCEPT ![r] = StageAfter[@]]
  /\ UNCHANGED requested

Fail(r) ==
  /\ status[r] \in Active
  /\ ~requested[r]
  /\ status' = [status EXCEPT ![r] = "failed"]
  /\ UNCHANGED requested

Next ==
  \E r \in Runs :
    \/ Create(r)
    \/ RequestCancel(r)
    \/ Stop(r)
    \/ Advance(r)
    \/ Fail(r)

Spec == Init /\ [][Next]_vars
=============================================================================
