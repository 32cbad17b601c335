----------------------------- MODULE ReportOutputs -----------------------------
(***************************************************************************)
(* What a finished report says and gives out: its score (ReadinessScoring),*)
(* its public links (ShareLinks) and its prepared documents (ExportJobs),  *)
(* side by side.  None knows the others: each has a copy of what it reads  *)
(* of the assessment.                                                      *)
(***************************************************************************)
EXTENDS Integers, FiniteSets, Sequences

CONSTANTS
  \* of ShareLinks
  Requests, LastLink, Nothing, MaxChanges, MaxDeaths,
  \* of ExportJobs
  Reports, Clients, MaxDecisions, MaxJobs, MaxStarts,
  \* of ReadinessScoring
  Weights, Levels, Rows, MaxRows, ReadyMin, NotReadyMax, High, Med, Low, Cap

VARIABLES
  \* of ShareLinks
  made, revoked, expired, recorded, sharedDone, sharedRevision, runLock, linkLock, sharedWriter,
  sharedReaders, reqAt, reqOp, link, todo, got, answer, stood, deaths,
  \* of ExportJobs
  revision, purged, at, seen, wants, slot, closing, stopping, timer, starts, binding, state,
  task, cancelled, document, aged, files, leases,
  \* of ReadinessScoring
  finished, partial, result, flags, overridden

Share == INSTANCE ShareLinks WITH
  None <- Nothing, MaxRevision <- MaxChanges,
  finished <- sharedDone, revision <- sharedRevision, writer <- sharedWriter,
  readers <- sharedReaders, at <- reqAt, op <- reqOp

Export == INSTANCE ExportJobs WITH
  MaxRevision <- MaxDecisions, phase <- task, content <- document

Score == INSTANCE ReadinessScoring WITH None <- Nothing

ASSUME ScoresAssumption == Score!ScoringAssumption
ASSUME LinksAssumption == Share!ShareAssumption
ASSUME DocumentsAssumption ==
  /\ Reports \subseteq Nat \ {0} /\ MaxDecisions \in Nat
  /\ MaxJobs \in Nat /\ MaxStarts \in Nat /\ IsFiniteSet(Clients)

-----------------------------------------------------------------------------
(* Properties.                                                             *)

\* Creates of links do not collide on the unique index, they and revokes leave
\* no earlier link active, and a reader of a link is shown one assessment, and
\* only as long as the link is neither turned off nor expired.
LinksAreKept ==
  /\ []( /\ Share!TypeOK /\ Share!CreateNeverCollides
         /\ Share!EarlierLinksAreOff /\ Share!ServedOneAssessment)
  /\ [][Share!TurnedOffIsNotServed]_(Share!vars)

\* Creates and revokes of links, readers and changes of the assessment never
\* all wait for each other.
LinksGoOn == Share!NobodyIsStuck

\* A document is downloaded as the request saw the report and its source under
\* the lock, and its file stays until then and no longer than the slot or a
\* download accounts for, through replacement, expiry, shutdown and restart.
DocumentsAreTrue ==
  /\ Export!TypeOK
  /\ Export!ReadyIsWhole /\ Export!ServedAsSeen /\ Export!SourceStays
  /\ Export!FileKept /\ Export!Accounted

\* At first and after every change the score lies between 0 and 100 and its
\* deduction is that of a definition without rows and their order; dismissing
\* never costs readiness and confirming never gains any; a further place of a
\* finding, a lead, or a criterion that is only pending moves nothing.
ScoreIsFair == Score!Sound /\ [][Score!Fair]_(Score!vars)

=============================================================================
