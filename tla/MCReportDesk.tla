----------------------------- MODULE MCReportDesk -----------------------------
(* What happens to a finished report, for TLC: AssessmentRevisions, and as *)
(* behaviours of their own the score of a report, its public links and its *)
(* prepared documents (ReportOutputs).                                     *)
EXTENDS AssessmentRevisions, ReportOutputs, TLC

CONSTANTS e1, e2, k1, f1, f2

VARIABLE side  \* what a behaviour is about; the rest stands still

scores == <<finished, partial, result, flags, overridden>>
links == <<made, revoked, expired, recorded, sharedDone, sharedRevision, runLock, linkLock,
           sharedWriter, sharedReaders, reqAt, reqOp, link, todo, got, answer, stood, deaths>>
jobs == <<revision, purged, at, seen, wants, slot, closing, stopping, timer, starts, binding,
          state, task, cancelled, document, aged, files, leases>>

-----------------------------------------------------------------------------
(* The instances.                                                          *)

Row(severity, kind, problem, place) ==
  [severity |-> severity, verdict |-> TRUE, kind |-> kind, problem |-> problem, place |-> place]

\* Two places of a problem, severities that differ within one, recency notes,
\* a row of no known problem, a lead and a row without a verdict.
MCRows ==
  {Row("low", "citation_integrity", "retracted", 1), Row("high", "citation_integrity", "retracted", 1),
   Row("med", "citation_integrity", "retracted", 2),
   Row("low", "citation_integrity", "outside_recency_window", 1),
   Row("low", "citation_integrity", "outside_recency_window", 2),
   Row("high", "statistical_forensics", Nothing, 1),
   Row("high", "originality_reuse", "match", 1),
   [Row("high", "citation_integrity", Nothing, 1) EXCEPT !.verdict = FALSE]}

MCWeights == <<2, 1>>

Symmetry == Permutations(Editors) \union Permutations(Policies) \union Permutations(Clients)

\* A report that is not looked at has no rows, and a run that is not shared is
\* at work.
NoScore == partial = FALSE /\ result = [c \in DOMAIN Weights |-> Score!Excluded]
NoLinks == made = {} /\ sharedDone = FALSE

MCInit ==
  /\ Init /\ Score!Init /\ Share!Init /\ Export!Init
  /\ side \in {"change", "score", "share", "export"}
  /\ side # "score" => NoScore
  /\ side # "share" => NoLinks

MCNext ==
  \/ side = "change" /\ Next /\ UNCHANGED <<side, scores, links, jobs>>
  \/ side = "score" /\ Score!Next /\ UNCHANGED <<side, vars, links, jobs>>
  \/ side = "share" /\ Share!Next /\ UNCHANGED <<side, vars, scores, jobs>>
  \/ side = "export" /\ Export!Next /\ UNCHANGED <<side, vars, scores, links>>

MCSpec == MCInit /\ [][MCNext]_<<side, vars, scores, links, jobs>>

=============================================================================
