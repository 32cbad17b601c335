------------------------- MODULE MCPipelineSafety -------------------------
(* CheckRunPipeline twice for TLC: two runs of one manuscript whose        *)
(* drivers outlive no claim, and, as a behaviour of its own, one run whose *)
(* claims may expire under a live driver (RunTurns); and, as a third, the  *)
(* order in which runs get their turns.                                    *)
EXTENDS MCCheckRunPipeline, RunTurns

CONSTANTS q1, q2, q3, o1, o2

VARIABLE side   \* which of them a behaviour is about; the others stand still

late == <<lateRun, lateCorpus, lateSlot, lateTurn, lateFaults>>
turns == <<queue, state, started, asked, locked, claim, guard, at, list, busy, mine, event, unsent,
           ahead, crashes, timeouts>>

\* The one run of the drivers whose claims may expire.
LateManuscript == [r \in LateRuns |-> [manuscript |-> "m", rubric |-> "a"]]

\* Two runs of one instructor and one of another.
TwoInstructors == [r \in QueuedRuns |-> IF r = q3 THEN o2 ELSE o1]

Interchangeable == Permutations({d1, d2}) \union Permutations({q1, q2})

MCInit ==
  /\ Init /\ Late!Init /\ Queue!Init
  /\ \/ side = "kept" /\ lateCorpus = {}
     \/ side = "late" /\ corpus = {}
     \/ side = "queue" /\ corpus = {} /\ lateCorpus = {}

MCNext ==
  \/ side = "kept" /\ Next /\ UNCHANGED <<side, late, turns>>
  \/ side = "late" /\ Late!Next /\ UNCHANGED <<side, vars, turns>>
  \/ side = "queue" /\ Queue!Next /\ UNCHANGED <<side, vars, late>>

MCSpec == MCInit /\ [][MCNext]_<<side, vars, late, turns>>

=============================================================================
