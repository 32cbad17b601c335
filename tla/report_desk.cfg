\* Two pages on one criterion and two findings, beside a score, links and
\* documents of a report.  The thresholds and deductions of the score are those
\* of app/config.py, the cap is lower, so that two findings reach it.
SPECIFICATION MCSpec
CONSTANTS
  e1 = e1
  e2 = e2
  k1 = k1
  f1 = f1
  f2 = f2
  Nothing = Nothing
  Editors = {e1, e2}
  Criteria = {k1}
  Awaiting = {k1}
  Findings = {f1, f2}
  Citations = {f1}
  Policies = {old, new}
  Nobody = Nobody
  MaxRevision = 3
  Requests = {q1, q2}
  LastLink = 3
  MaxChanges = 1
  MaxDeaths = 1
  Reports = {1}
  Clients = {c1, c2}
  MaxDecisions = 1
  MaxJobs = 2
  MaxStarts = 1
  Weights <- MCWeights
  Levels = {75, 100}
  Rows <- MCRows
  MaxRows = 2
  ReadyMin = 85
  NotReadyMax = 60
  High = 15
  Med = 8
  Low = 3
  Cap = 20
SYMMETRY Symmetry
INVARIANTS PageIsOneRevision VerdictOfTheRows TrailIsComplete LinksGoOn DocumentsAreTrue
PROPERTIES ChangesWhatWasSeen DecidedIsFrozen LinksAreKept ScoreIsFair
CHECK_DEADLOCK FALSE
