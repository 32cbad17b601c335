------------------------------- MODULE RunTurns -------------------------------
(***************************************************************************)
(* The turns of check runs beyond one claim: whose run is next             *)
(* (CheckQueue), and check runs (CheckRunPipeline) of drivers that a claim *)
(* does not outlive: it may expire, as PipelineClaims lets it, while its   *)
(* driver is at work, and a second one goes on with the same run beside    *)
(* it.  The commits of machine.py that only _commit_owned fences are those *)
(* of both.  The two parts meet nowhere.                                   *)
(***************************************************************************)
EXTENDS Naturals

CONSTANTS
  \* of CheckRunPipeline
  LateTasks, LateRuns, NoTask, LateSubject, LatePapers, LateRubrics, LateLibrary,
  LateUnits, LateStageOf, LateDegrade, MaxLate,
  \* of CheckQueue
  QueuedRuns, Instructor, Schedulers, Polling, MaxCrashes, MaxTimeouts

VARIABLES
  \* of CheckRunPipeline
  lateRun, lateCorpus, lateSlot, lateTurn, lateFaults,
  \* of CheckQueue
  queue, state, started, asked, locked, claim, guard, at, list, busy, mine, event, unsent, ahead,
  crashes, timeouts

Late == INSTANCE CheckRunPipeline WITH
  Drivers <- LateTasks, Runs <- LateRuns, Nobody <- NoTask, Subject <- LateSubject,
  Manuscripts <- LatePapers, Rubrics <- LateRubrics, InLibrary <- LateLibrary,
  Units <- LateUnits, StageOf <- LateStageOf, DegradeOnQuota <- LateDegrade,
  LiveExpiry <- TRUE, MaxFaults <- MaxLate,
  run <- lateRun, corpus <- lateCorpus, slot <- lateSlot, turn <- lateTurn,
  faults <- lateFaults

Queue == INSTANCE CheckQueue WITH
  Runs <- QueuedRuns, Owner <- Instructor, None <- NoTask, Periodic <- Polling

ASSUME LateAssumption ==
  /\ NoTask \notin LateTasks \union LateRuns
  /\ LateSubject \in [LateRuns -> [manuscript : LatePapers, rubric : LateRubrics]]
  /\ LateStageOf \in [LateUnits -> {"routing", "structural", "semantic", "integrity"}]
  /\ LateDegrade \in BOOLEAN /\ MaxLate \in Nat
ASSUME TurnsAssumption == Queue!QueueAssumption

-----------------------------------------------------------------------------
(* Properties.                                                             *)

\* A driver whose claim expires under it, and that goes on to the end of its
\* stage beside its successor, leaves no stage unsettled, no plan missing and
\* no run that is done incomplete (the commits of machine.py that only
\* _commit_owned fences).
LateDriverHarmless ==
  Late!DoneIsComplete /\ Late!StageLeftSettled /\ Late!ResumeFindsPlan

\* Nobody starts a second new run while the oldest run of another instructor
\* is waiting all along, whatever is parked, cancelled or yields meanwhile
\* (fair_candidates and the loop of admit_next over it).
TurnsRotate == [][Queue!TurnsRotate]_(Queue!vars) /\ []Queue!TypeOK

=============================================================================
