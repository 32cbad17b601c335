---------------------------- MODULE StoredRecords ----------------------------
(***************************************************************************)
(* The records that requests share: the Library and the purge of           *)
(* manuscripts (LibraryArchive), the versions of a required format         *)
(* (RubricVersions) and the storage that uploads reserve (UploadAttempts). *)
(* They are behaviours side by side.  The start of a check locks rows of   *)
(* the first two, its manuscript's and then the format's, and each has its *)
(* own part of it.                                                         *)
(***************************************************************************)
EXTENDS LibraryArchive

CONSTANTS
  \* of RubricVersions
  Initial, LastId, FormatRequests, Programs, MaxDeaths,
  \* of UploadAttempts
  Attempts, SameFile, AskCheck, Workers, NoWorker, NoAttempt, MaxActive, Budget, MaxStalls

VARIABLES
  \* of RubricVersions
  versions, used, number, criteria, revision, open, noted, active, program, pinned, writer,
  readers, step, asks, target, loaded, todo, deaths,
  \* of UploadAttempts
  status, link, staged, owner, leased, record, started, said, sending, work, on, outcome, faults

Rubric == INSTANCE RubricVersions WITH
  Requests <- FormatRequests, rows <- versions, at <- step, op <- asks

Upload == INSTANCE UploadAttempts WITH at <- work

ASSUME VersionsAssumption == Rubric!RubricAssumption
ASSUME UploadsAssumption ==
  /\ SameFile \subseteq Attempts /\ AskCheck \subseteq Attempts
  /\ NoWorker \notin Workers /\ NoAttempt \notin Attempts
  /\ MaxActive \in Nat /\ Budget \in Nat /\ MaxStalls \in Nat

-----------------------------------------------------------------------------
(* Properties.                                                             *)

\* Nobody edits a version that a check uses or that a later one has replaced,
\* a check is pinned to the version active at that moment, a family never has
\* two of those, and its versions agree on the program and differ in number.
VersionsKept ==
  /\ [](Rubric!TypeOK /\ Rubric!OneActive /\ Rubric!FamilyAgrees /\ Rubric!NumbersDistinct)
  /\ [][Rubric!UsedIsNotEdited /\ Rubric!CheckOnActive]_(Rubric!vars)

\* Requests that lock several rows, or an advisory lock and a row, never all
\* wait for each other: neither those of the Library nor those of a format.  The
\* one that locks rows of both (create_check_run) takes the manuscript's first,
\* and nobody takes a format's row before a manuscript's, so no circle leads
\* through the two.
RequestsGoOn == NobodyIsStuck /\ Rubric!NobodyIsStuck

\* What admission promised to storage is never exceeded by what the admitted
\* attempts turn into, as long as no lease has run out under a live worker.
ReservedInBudget == Upload!ReservedInBudget

=============================================================================
