----------------------------- MODULE MCAdmission -----------------------------
(* Who may work next in a process, for TLC: the places for preparing       *)
(* documents (PreparationAdmission) and, as a behaviour of its own, the    *)
(* queue of the checks and its loops (CheckQueue).                         *)
EXTENDS PreparationAdmission, Sequences, TLC

CONSTANTS o1, o2, o3, r1, r2, s1, Nobody

VARIABLES
  side,  \* what a behaviour is about; the other stands still
  \* of CheckQueue
  queue, state, started, asked, locked, claim, guard, place, list, busy, mine, event, unsent,
  ahead, crashes, timeouts

turns == <<queue, state, started, asked, locked, claim, guard, place, list, busy, mine, event,
           unsent, ahead, crashes, timeouts>>

\* The runs are of two instructors.
OwnerOf == [r \in {r1, r2} |-> IF r = r1 THEN o1 ELSE o2]

Polled == INSTANCE CheckQueue WITH
  Runs <- {r1, r2}, Owner <- OwnerOf, Schedulers <- {s1}, None <- Nobody, Periodic <- TRUE,
  MaxCrashes <- 1, MaxTimeouts <- 1, at <- place

\* A loop that never polls; then nobody may die.
Woken == INSTANCE CheckQueue WITH
  Runs <- {r1, r2}, Owner <- OwnerOf, Schedulers <- {s1}, None <- Nobody, Periodic <- FALSE,
  MaxCrashes <- 0, MaxTimeouts <- 0, at <- place

ASSUME Polled!QueueAssumption /\ Woken!QueueAssumption

MCInit ==
  /\ Init
  /\ \/ side \in {"preparation", "polled"} /\ Polled!Init
     \/ side = "woken" /\ Woken!Init

MCNext ==
  \/ side = "preparation" /\ Next /\ UNCHANGED <<side, turns>>
  \/ side = "polled" /\ Polled!Next /\ UNCHANGED <<side, vars>>
  \/ side = "woken" /\ Woken!Next /\ UNCHANGED <<side, vars>>

\* A turn begins unless it is lost, and the deadline of a run bounds its turns
\* (pipeline_run_deadline_seconds); a preparation may take for ever.
MCSpec ==
  /\ MCInit /\ [][MCNext]_<<side, vars, turns>>
  /\ \A r \in {r1, r2} :
       /\ WF_turns(side # "preparation" /\ Polled!WakePipeline(r))
       /\ WF_turns(side # "preparation" /\ Polled!EndCancel(r))
       /\ WF_turns(side # "preparation" /\ Polled!Unpark(r))
       /\ SF_turns(side # "preparation" /\ mine[s1] = r /\ Polled!EndTurn(s1, "over"))
  /\ WF_turns(\/ side = "polled" /\ Polled!Wake(s1)
              \/ side = "woken" /\ Woken!Wake(s1))
  /\ SF_turns(side # "preparation" /\ Polled!Look(s1))
  /\ WF_turns(\/ side = "polled" /\ Polled!Refused(s1)
              \/ side = "woken" /\ Woken!Refused(s1))
  /\ WF_turns(side # "preparation" /\ Polled!Skip(s1))
  /\ WF_turns(side # "preparation" /\ Polled!Claim(s1))
  /\ WF_turns(side # "preparation" /\ Polled!Exhausted(s1))
  /\ SF_turns(side # "preparation" /\ Polled!Begin(s1))
  /\ WF_turns(side # "preparation" /\ Polled!Expire)

-----------------------------------------------------------------------------
(* Properties.                                                             *)

\* A run that was accepted is started, or cancelled before: no wake-up is lost
\* that the loop needs, not even by a loop that never polls.
AcceptedRunStarts == Polled!AcceptedRunStarts

\* With a loop that polls every run ends, whoever else has how many, although
\* turns fail, wake-ups are lost with their process, runs are parked and claims
\* go stale.  (A loop that does not is not told when a parked run may go on.)
EveryRunEnds == side = "polled" => Polled!EveryRunEnds

=============================================================================
