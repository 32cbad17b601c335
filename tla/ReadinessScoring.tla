--------------------------- MODULE ReadinessScoring ---------------------------
(***************************************************************************)
(* The readiness of a checked manuscript: report/scoring.py, with what     *)
(* report/service.py loads for it, findings/policy.py excludes from it and *)
(* checks/escalation.py lets the instructor decide.                        *)
(*                                                                         *)
(* Scores are exact: a composite is the fraction points / weight, in       *)
(* percent, where the code has floating-point numbers.                     *)
(***************************************************************************)
EXTENDS Integers, Sequences, Functions, FiniteSetsExt

CONSTANTS
  Weights,      \* criterion -> weight
  Levels,       \* scores of a criterion's levels, in percent
  Rows,         \* flag rows the checks may leave
  MaxRows,      \* bound of the model: flag rows
  ReadyMin,     \* scoring_ready_min_score
  NotReadyMax,  \* scoring_not_ready_max_score
  High, Med, Low, \* scoring_flag_deduction_*
  Cap,          \* scoring_flag_deduction_cap
  None

ScoringAssumption ==
  /\ IsFiniteSet(DOMAIN Weights) /\ \A c \in DOMAIN Weights : Weights[c] \in Nat \ {0}
  /\ Levels \subseteq 0..100 /\ None \notin Int
  /\ MaxRows \in Nat /\ ReadyMin \in Nat /\ NotReadyMax \in Nat
  /\ \A r \in Rows : r.severity \in {"low", "med", "high"} /\ r.verdict \in BOOLEAN
  /\ {Low, Med, High, Cap} \subseteq Nat /\ Low <= Med /\ Med <= High

VARIABLES
  finished,    \* the run has left its rows, the report is the instructor's
  partial,     \* an integrity check was not carried out in full
  result,      \* criterion -> outcome and score
  flags,       \* the flag rows, by id
  overridden   \* ids of dismissed rows

vars == <<finished, partial, result, flags, overridden>>

RubricCriteria == DOMAIN Weights
Graded == [outcome : {"passed"}, score : Levels] \union {[outcome |-> "failed", score |-> 0]}
Pending == [outcome |-> "escalated", score |-> None]
Excluded == [outcome |-> "not_applicable", score |-> None]

Init ==
  /\ finished = FALSE /\ partial \in BOOLEAN
  /\ result \in [RubricCriteria -> Graded \union {Pending, Excluded}]
  /\ flags = <<>> /\ overridden = {}

-----------------------------------------------------------------------------
(* Findings.                                                               *)

\* A dismissed row, one without a verdict and one that is only a lead do not.
Counts(i) ==
  /\ i \notin overridden /\ flags[i].verdict
  /\ flags[i].kind \notin {"originality_reuse", "internal_agreement"}

\* Faulty variant of Identity: every row is a finding.
IdentityOfRow(i) == <<"flag", i>>

\* _finding_identity: rows that are one finding have the same identity.
Identity(i) ==
  LET f == flags[i] IN
  CASE f.problem = None \/ (f.kind = "originality_reuse" /\ f.place = None) -> <<"flag", i>>
    [] f.problem = "outside_recency_window" -> <<f.kind, f.problem>>
    [] OTHER -> <<f.kind, f.problem, f.place>>

Rank(severity) == CASE severity = "low" -> 1 [] severity = "med" -> 2 [] severity = "high" -> 3
Points(severity) == CASE severity = "low" -> Low [] severity = "med" -> Med [] severity = "high" -> High

\* A row that its finding does not have yet, or has less severely.
Worse(i, worst) ==
  Identity(i) \in DOMAIN worst => Rank(flags[i].severity) > Rank(worst[Identity(i)])

\* worst_by_finding, built row by row.
Worst ==
  LET upTo[n \in 0..Len(flags)] ==
        IF n = 0 THEN <<>>
        ELSE LET worst == upTo[n - 1] IN
             IF Counts(n) /\ Worse(n, worst)
             THEN [f \in DOMAIN worst \union {Identity(n)} |->
                     IF f = Identity(n) THEN flags[n].severity ELSE worst[f]]
             ELSE worst
  IN  upTo[Len(flags)]

Cost(worst) == Min({Cap, SumFunction([f \in DOMAIN worst |-> Points(worst[f])])})

Deduction == Cost(Worst)

HighFinding == "high" \in Range(Worst)

-----------------------------------------------------------------------------
(* The composite score and the status.                                     *)

Counted(c) == result[c].outcome \in {"passed", "failed"} /\ result[c].score # None

Contributing == {c \in RubricCriteria : Counted(c)}

Weight == SumFunctionOnSet(Weights, Contributing)
Earned == SumFunctionOnSet([c \in Contributing |-> Weights[c] * result[c].score], Contributing)

Composite ==
  [points |-> Max({0, Min({100 * Weight, Earned - Deduction * Weight})}), weight |-> Weight]

AtLeast(x, y) == x.points * y.weight >= y.points * x.weight
Percent(n) == [points |-> n, weight |-> 1]

\* _assessment_incomplete: an instructor is still needed, or a check was partial.
Incomplete == partial \/ \E c \in RubricCriteria : result[c] = Pending

Status ==
  CASE Weight = 0 -> "needs_review"
    [] Weight # 0 /\ Incomplete -> "needs_review"
    [] Weight # 0 /\ ~Incomplete /\ HighFinding -> "not_ready"
    [] OTHER -> LET score == Composite IN
                IF AtLeast(score, Percent(ReadyMin)) THEN "ready"
                ELSE IF AtLeast(score, Percent(NotReadyMax)) THEN "conditionally_ready"
                ELSE "not_ready"

-----------------------------------------------------------------------------
(* What changes it.                                                        *)

\* A check leaves a row.
Raise(row) ==
  /\ ~finished /\ Len(flags) < MaxRows
  /\ flags' = Append(flags, row)
  /\ UNCHANGED <<finished, partial, result, overridden>>

Finish ==
  /\ ~finished /\ finished' = TRUE
  /\ UNCHANGED <<partial, result, flags, overridden>>

\* override_flag; confirming a finding takes its dismissal back.
Dismiss(i) ==
  /\ finished /\ i \notin overridden
  /\ overridden' = overridden \union {i}
  /\ UNCHANGED <<finished, partial, result, flags>>

Confirm(i) ==
  /\ finished /\ i \in overridden
  /\ overridden' = overridden \ {i}
  /\ UNCHANGED <<finished, partial, result, flags>>

\* select_resolution: a pass, a fail, a level, or a document that is needed.
Resolve(c, grade) ==
  /\ finished /\ result[c] = Pending
  /\ result' = [result EXCEPT ![c] = grade]
  /\ UNCHANGED <<finished, partial, flags, overridden>>

Next ==
  \/ \E row \in Rows : Raise(row)
  \/ Finish
  \/ \E i \in DOMAIN flags : Dismiss(i) \/ Confirm(i)
  \/ \E c \in RubricCriteria, grade \in Graded \union {Excluded} : Resolve(c, grade)

Spec == Init /\ [][Next]_vars

-----------------------------------------------------------------------------
(* Properties.                                                             *)

\* Types, and a composite between 0 and 100.
TypeOK ==
  /\ finished \in BOOLEAN /\ partial \in BOOLEAN
  /\ result \in [RubricCriteria -> Graded \union {Pending, Excluded}]
  /\ flags \in Seq(Rows) /\ Len(flags) <= MaxRows
  /\ overridden \subseteq DOMAIN flags
  /\ Composite.points \in 0..(100 * Composite.weight)

StatusRank == [s \in {"not_ready", "conditionally_ready", "ready"} |->
                 CASE s = "not_ready" -> 1 [] s = "conditionally_ready" -> 2 [] s = "ready" -> 3]

NotWorse(better, worse) ==
  better = worse \/ (better \in DOMAIN StatusRank /\ worse \in DOMAIN StatusRank
                     /\ StatusRank[better] >= StatusRank[worse])

\* The deduction is that of a definition without rows and their order: each
\* finding costs what its most severe row that counts costs, up to the cap.
DeductionOfFindings ==
  LET counting == {i \in DOMAIN flags : Counts(i)}
      cost == [f \in {Identity(i) : i \in counting} |->
                 Max({Points(flags[i].severity) : i \in {j \in counting : Identity(j) = f}})]
      total == SumFunction(cost)
  IN  Deduction = IF total < Cap THEN total ELSE Cap

\* Properties of steps.

\* Dismissing a finding, or any of its rows, never costs readiness, and taking
\* the dismissal back never gains any: an instructor who clears a false alarm
\* does not make the report worse.
DismissNeverHurts ==
  \A i \in DOMAIN flags :
    /\ Dismiss(i) => AtLeast(Composite', Composite) /\ NotWorse(Status', Status)
    /\ Confirm(i) => AtLeast(Composite, Composite') /\ NotWorse(Status, Status')

\* A further place of a finding that is already there, no more severe, changes
\* neither the score nor the status, however many there are.
PlacesCountOnce ==
  \A i \in DOMAIN flags, row \in Rows :
    /\ Raise(row) /\ row.problem # None /\ Counts(i)
    /\ row.kind = flags[i].kind /\ row.problem = flags[i].problem
    /\ row.place = flags[i].place /\ Rank(row.severity) <= Rank(flags[i].severity)
    => Composite' = Composite /\ Status' = Status

\* A lead for comparison, or a row without a verdict, never moves the readiness,
\* whether it is raised, dismissed or confirmed.
LeadsNeverDecide ==
  LET lead(row) == ~row.verdict \/ row.kind \in {"originality_reuse", "internal_agreement"}
      same == Composite' = Composite /\ Status' = Status
  IN  /\ \A row \in Rows : Raise(row) /\ lead(row) => same
      /\ \A i \in DOMAIN flags : lead(flags[i]) /\ (Dismiss(i) \/ Confirm(i)) => same

\* Giving a pending criterion full marks never lowers the composite, failing it
\* never raises it, and asking for the document leaves it alone: what is
\* pending is neither a pass nor a fail.
PendingIsNeutral ==
  \A c \in RubricCriteria, grade \in Graded \union {Excluded} :
    Resolve(c, grade) /\ Weight # 0 =>
      /\ grade.score = 100 => AtLeast(Composite', Composite)
      /\ grade.outcome = "failed" => AtLeast(Composite, Composite')
      /\ grade = Excluded => Composite' = Composite

Sound == TypeOK /\ DeductionOfFindings

\* No step treats a finding or a criterion unfairly, and each leaves the score
\* sound.
Fair ==
  vars' # vars =>
    Sound' /\ DismissNeverHurts /\ PlacesCountOnce /\ LeadsNeverDecide /\ PendingIsNeutral

=============================================================================
