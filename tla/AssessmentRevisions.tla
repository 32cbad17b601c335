------------------------- MODULE AssessmentRevisions -------------------------
(***************************************************************************)
(* Instructors changing one completed assessment from several browser      *)
(* pages: report/assessment.py, report/judgments.py, checks/escalation.py, *)
(* flags/service.py and the decisions of report/service.py.                *)
(*                                                                         *)
(* A page is read under a shared lock on the readiness_report row, in      *)
(* several statements, each of which sees what is committed by then.       *)
(* A change takes the row lock exclusively, compares the page's revision   *)
(* with the row, applies itself, rescores, writes its audit entry and      *)
(* commits, all or nothing.  Between the two any number of other changes,  *)
(* or a deployment of another scoring policy, may have taken place.        *)
(*                                                                         *)
(* A verdict is a function of the outcomes, of the findings that still     *)
(* count and of the policy; it is represented by these three.              *)
(***************************************************************************)
EXTENDS Integers, FiniteSets

CONSTANTS
  Editors,     \* open pages, of one account
  Criteria,    \* rubric criteria of the run
  Awaiting,    \* those whose result the checks left for review
  Findings,    \* flags of the run
  Citations,   \* those that are about a citation nobody could find
  Policies,    \* scoring settings a deployment may carry
  Nobody,      \* no editor
  MaxRevision  \* bound of the model: no change is begun at that revision

ASSUME AwaitingAssumption == Awaiting \subseteq Criteria
ASSUME CitationsAssumption == Citations \subseteq Findings
ASSUME NobodyAssumption == Nobody \notin Editors
ASSUME NamesAssumption == Criteria \intersect Findings = {} /\ "report" \notin Criteria
ASSUME MaxRevisionAssumption == MaxRevision \in Nat

VARIABLES
  report,   \* the readiness_report row
  content,  \* the committed check_result and flag rows
  trail,    \* the audit_log entries about this assessment
  policy,   \* the settings in force
  writer,   \* holder of the row lock FOR UPDATE
  readers,  \* holders of the row lock FOR SHARE
  phase,    \* editor -> what its request is doing
  page,     \* editor -> the assessment its page shows
  op        \* editor -> the change it is submitting

vars == <<report, content, trail, policy, writer, readers, phase, page, op>>

Decisions == {"approved", "rejected", "returned"}
Open == "open"
Grades == {"passed", "failed", "not_applicable"}
NeedsReview == "escalated"

\* A flag: dismissed or cleared, confirmed as an issue, its citation source
\* confirmed, and what the recorded reason is about.
Flag == [overridden : BOOLEAN, confirmed : BOOLEAN, source : BOOLEAN,
         reason : {"none", "dismissal", "verification"}]

Content == [outcome : [Criteria -> Grades \union {NeedsReview}],
            judged  : [Criteria -> Nat],
            flag    : [Findings -> Flag]]

Verdict == [outcome : [Criteria -> Grades \union {NeedsReview}],
            counted : SUBSET Findings, policy : Policies]

\* score_check_run on what _load_scorable_results and _load_scorable_flags read
Assess(c, p) == [outcome |-> c.outcome,
                 counted |-> {f \in Findings : ~c.flag[f].overridden},
                 policy  |-> p]

Pending(c) == {k \in Criteria : c.outcome[k] = NeedsReview}

Change ==
  [kind : {"resolve", "record", "revise"}, on : Criteria, grade : Grades]
    \union [kind : {"dismiss", "confirm"}, on : SUBSET Findings \ {{}},
            bulk : BOOLEAN]
    \union [kind : {"verify"}, on : Citations]
    \union [kind : {"decide"}, decision : Decisions]
    \union [kind : {"reopen"}]

-----------------------------------------------------------------------------
(* What each change does to the rows.                                      *)

\* _dismiss_finding
Dismissed(f) == [f EXCEPT !.overridden = TRUE, !.reason = "dismissal",
                          !.confirmed = FALSE]

\* _confirm_finding
Confirmed(f) == [f EXCEPT !.confirmed = TRUE, !.overridden = FALSE,
                          !.reason = "none"]

\* confirm_citation_source
Verified(f) == [f EXCEPT !.overridden = TRUE, !.reason = "verification",
                         !.source = TRUE]

AlreadyResolved(f, kind) ==
  IF kind = "confirm" THEN f.confirmed /\ ~f.overridden
                      ELSE f.overridden /\ ~f.confirmed

\* The selection a bulk change leaves alone, and the part it changes.
Touched(o, c) ==
  {f \in o.on : ~(o.bulk /\ AlreadyResolved(c.flag[f], o.kind))}

Resolved(o, c) ==
  [f \in Findings |-> IF f \notin Touched(o, c) THEN c.flag[f]
                      ELSE IF o.kind = "confirm" THEN Confirmed(c.flag[f])
                      ELSE Dismissed(c.flag[f])]

\* _recordable: graded by the checks, never judged by an instructor
Recordable(k, c) == c.outcome[k] # NeedsReview /\ c.judged[k] = 0

\* A finding cleared by its citation source cannot be confirmed as an issue,
\* and one such finding refuses a whole selection.
MayConfirm(o, c) == Touched(o, c) # {} /\ \A f \in o.on : ~c.flag[f].source

\* The conditions a change finds in the rows themselves, once it holds the
\* lock.  A change they refuse is rolled back.
Permitted(o, c) ==
  CASE o.kind = "resolve" -> c.outcome[o.on] = NeedsReview
    [] o.kind = "record"  -> Recordable(o.on, c)
    [] o.kind = "revise"  -> c.judged[o.on] > 0
    [] o.kind = "confirm" -> MayConfirm(o, c)
    [] o.kind = "dismiss" -> Touched(o, c) # {}
    [] o.kind = "decide"  -> o.decision = "returned" \/ Pending(c) = {}
    [] OTHER              -> TRUE

\* Criterion k graded g, by its nth judgment.
Graded(c, k, g, n) == [outcome |-> [c.outcome EXCEPT ![k] = g],
                       judged  |-> [c.judged EXCEPT ![k] = n], flag |-> c.flag]

\* resolve_escalation
ResolveEscalation(k, g, c) == Graded(c, k, g, 1)

\* record_judgment
RecordJudgment(k, g, c) == Graded(c, k, g, 1)

\* Faulty variant of ReviseJudgment: recorded under the old number.
ReviseJudgmentUncounted(k, g, c) == Graded(c, k, g, c.judged[k])

\* revise_judgment
ReviseJudgment(k, g, c) == Graded(c, k, g, c.judged[k] + 1)

\* The rows after a change; deciding and reopening change the report alone.
Applied(o, c) ==
  CASE o.kind = "resolve" -> ResolveEscalation(o.on, o.grade, c)
    [] o.kind = "record"  -> RecordJudgment(o.on, o.grade, c)
    [] o.kind = "revise"  -> ReviseJudgment(o.on, o.grade, c)
    [] o.kind = "confirm" -> [c EXCEPT !.flag = Resolved(o, c)]
    [] o.kind = "dismiss" -> [c EXCEPT !.flag = Resolved(o, c)]
    [] o.kind = "verify"  ->
         [c EXCEPT !.flag = [c.flag EXCEPT ![o.on] = Verified(c.flag[o.on])]]
    [] OTHER -> c

\* The audit entries of a change committed as revision n: what each is about
\* and, for a judgment, which judgment of its criterion it is.
Entries(o, c, n) ==
  CASE o.kind \in {"resolve", "record", "revise"} ->
         {[rev |-> n, about |-> o.on, nth |-> Applied(o, c).judged[o.on]]}
    [] o.kind \in {"confirm", "dismiss"} ->
         {[rev |-> n, about |-> f, nth |-> 0] : f \in Touched(o, c)}
    [] o.kind = "verify" -> {[rev |-> n, about |-> o.on, nth |-> 0]}
    [] OTHER -> {[rev |-> n, about |-> "report", nth |-> 0]}

-----------------------------------------------------------------------------
NoPage == [rev |-> 0, decision |-> Open, content |-> content,
           shown |-> report.verdict]
NoOp == [change |-> [kind |-> "none"], expected |-> 0]

NewFlag == [overridden |-> FALSE, confirmed |-> FALSE, source |-> FALSE,
            reason |-> "none"]

\* A finished run: its results, its flags and its first verdict.
Init ==
  /\ policy \in Policies
  /\ \E outcome \in [Criteria -> {"passed", "failed", NeedsReview}] :
       /\ \A k \in Criteria : outcome[k] = NeedsReview <=> k \in Awaiting
       /\ content = [outcome |-> outcome, judged |-> [k \in Criteria |-> 0],
                     flag |-> [f \in Findings |-> NewFlag]]
  /\ report = [rev |-> 0, decision |-> Open, verdict |-> Assess(content, policy),
               logged |-> Assess(content, policy)]
  /\ trail = {}
  /\ writer = Nobody
  /\ readers = {}
  /\ phase = [e \in Editors |-> "away"]
  /\ page = [e \in Editors |-> NoPage]
  /\ op = [e \in Editors |-> NoOp]

\* Faulty variant of StartRead: the page is read without the shared lock.
StartReadUnlocked(e) ==
  /\ phase[e] \in {"away", "seen", "unchanged"}
  /\ phase' = [phase EXCEPT ![e] =
                 IF phase[e] = "unchanged" THEN "rereading" ELSE "reading"]
  /\ page' = [page EXCEPT ![e] =
                 [rev |-> report.rev, decision |-> report.decision,
                  content |-> page[e].content, shown |-> report.logged]]
  /\ UNCHANGED <<report, content, trail, policy, writer, readers, op>>

\* report_out_for_check_run: the report row, locked FOR SHARE ...
StartRead(e) ==
  /\ phase[e] \in {"away", "seen", "unchanged"}
  /\ writer = Nobody
  /\ readers' = readers \union {e}
  /\ phase' = [phase EXCEPT ![e] =
                 IF phase[e] = "unchanged" THEN "rereading" ELSE "reading"]
  /\ page' = [page EXCEPT ![e] =
                 [rev |-> report.rev, decision |-> report.decision,
                  content |-> page[e].content, shown |-> report.logged]]
  /\ UNCHANGED <<report, content, trail, policy, writer, op>>

\* A decided report shows the verdict recorded with it, an open one the
\* verdict of the policy in force.
Shown(p, c) == IF p.decision # Open THEN p.shown ELSE Assess(c, policy)

\* ... then results and flags; the transaction ends with the response.  A
\* bulk change that found nothing to do answers with this page only when the
\* report is still the one it was submitted for.
FinishRead(e) ==
  /\ phase[e] \in {"reading", "rereading"}
  /\ readers' = readers \ {e}
  /\ page' = [page EXCEPT ![e] =
                 [rev |-> page[e].rev, decision |-> page[e].decision,
                  content |-> content, shown |-> Shown(page[e], content)]]
  /\ phase' = [phase EXCEPT ![e] =
                 IF phase[e] = "rereading" /\ page[e].rev # op[e].expected
                 THEN "away" ELSE "seen"]
  /\ op' = [op EXCEPT ![e] = NoOp]
  /\ UNCHANGED <<report, content, trail, policy, writer>>

\* Faulty variant of Begin: the revision of the page is not compared.
BeginUnchecked(e, o) ==
  /\ phase[e] = "seen"
  /\ writer = Nobody
  /\ readers = {}
  /\ report.rev < MaxRevision
  /\ (report.decision = Open) <=> (o.kind # "reopen")
  /\ writer' = e
  /\ phase' = [phase EXCEPT ![e] = "writing"]
  /\ op' = [op EXCEPT ![e] = [change |-> o, expected |-> page[e].rev]]
  /\ UNCHANGED <<report, content, trail, policy, readers, page>>

\* Faulty variant of Begin: the decision is not looked at.
BeginDecided(e, o) ==
  /\ phase[e] = "seen"
  /\ writer = Nobody
  /\ readers = {}
  /\ report.rev = page[e].rev
  /\ report.rev < MaxRevision
  /\ o.kind = "reopen" => report.decision # Open
  /\ writer' = e
  /\ phase' = [phase EXCEPT ![e] = "writing"]
  /\ op' = [op EXCEPT ![e] = [change |-> o, expected |-> page[e].rev]]
  /\ UNCHANGED <<report, content, trail, policy, readers, page>>

\* assessment_write up to its yield: the row lock, the revision the page
\* showed, and the decision, which only a reopening may find.
Begin(e, o) ==
  /\ phase[e] = "seen"
  /\ writer = Nobody
  /\ readers = {}
  /\ report.rev = page[e].rev
  /\ report.rev < MaxRevision
  /\ (report.decision = Open) <=> (o.kind # "reopen")
  /\ writer' = e
  /\ phase' = [phase EXCEPT ![e] = "writing"]
  /\ op' = [op EXCEPT ![e] = [change |-> o, expected |-> page[e].rev]]
  /\ UNCHANGED <<report, content, trail, policy, readers, page>>

\* Faulty variant of Rescored: the report keeps its verdict.
RescoredNot(c) ==
  [rev |-> report.rev + 1, decision |-> report.decision,
   verdict |-> report.verdict, logged |-> report.logged]

\* aggregate_and_score, after any change of the rows
Rescored(c) ==
  [rev |-> report.rev + 1, decision |-> report.decision,
   verdict |-> Assess(c, policy), logged |-> Assess(c, policy)]

\* decide_report: the verdict it is taken on is computed and logged with it.
Decided(d) ==
  [rev |-> report.rev + 1, decision |-> d,
   verdict |-> Assess(content, policy), logged |-> Assess(content, policy)]

\* reopen_report leaves the verdict alone.
Reopened ==
  [rev |-> report.rev + 1, decision |-> Open,
   verdict |-> report.verdict, logged |-> report.logged]

ReportAfter(o, c) ==
  CASE o.kind = "decide" -> Decided(o.decision)
    [] o.kind = "reopen" -> Reopened
    [] OTHER             -> Rescored(c)

\* The change and the commit.  The acknowledgment is built before the commit
\* and is the editor's new page, unless it is lost on the way.
Commit(e) ==
  LET o == op[e].change
      c == Applied(o, content)
  IN  /\ phase[e] = "writing"
      /\ Permitted(o, content)
      /\ content' = c
      /\ report' = ReportAfter(o, c)
      /\ trail' = trail \union Entries(o, content, report.rev + 1)
      /\ writer' = IF writer = e THEN Nobody ELSE writer
      /\ phase' = [phase EXCEPT ![e] = "seen"]
      /\ \/ page' = [page EXCEPT ![e] =
                 [rev |-> report'.rev, decision |-> report'.decision,
                  content |-> c,
                  shown |-> IF report'.decision # Open THEN report'.logged
                                                      ELSE Assess(c, policy)]]
         \/ page' = page
      /\ op' = [op EXCEPT ![e] = NoOp]
      /\ UNCHANGED <<policy, readers>>

\* Any exception rolls everything back: a refusal by the rows, a lost
\* connection, a judgment submitted without a change.
Abort(e) ==
  /\ phase[e] = "writing"
  /\ writer' = IF writer = e THEN Nobody ELSE writer
  /\ phase' = [phase EXCEPT ![e] = "seen"]
  /\ op' = [op EXCEPT ![e] = NoOp]
  /\ UNCHANGED <<report, content, trail, policy, readers, page>>

\* bulk_resolve_flags with every finding already as requested: rolled back,
\* the lock released, and the report read again for the answer.
NothingToChange(e) ==
  LET o == op[e].change
  IN  /\ phase[e] = "writing"
      /\ o.kind \in {"confirm", "dismiss"}
      /\ o.bulk
      /\ Touched(o, content) = {}
      /\ o.kind = "confirm" => \A f \in o.on : ~content.flag[f].source
      /\ writer' = IF writer = e THEN Nobody ELSE writer
      /\ phase' = [phase EXCEPT ![e] = "unchanged"]
      /\ UNCHANGED <<report, content, trail, policy, readers, page, op>>

\* A deployment: requests under way are aborted, the pages stay open, and the
\* new process may score by another policy.
Redeploy(p) ==
  /\ p # policy
  /\ policy' = p
  /\ writer' = Nobody
  /\ readers' = {}
  /\ phase' = [e \in Editors |-> IF phase[e] \in {"writing", "seen"}
                                 THEN "seen" ELSE "away"]
  /\ op' = [e \in Editors |-> NoOp]
  /\ UNCHANGED <<report, content, trail, page>>

Next ==
  \/ \E e \in Editors :
       StartRead(e) \/ FinishRead(e) \/ Commit(e) \/ Abort(e)
         \/ NothingToChange(e) \/ \E o \in Change : Begin(e, o)
  \/ \E p \in Policies : Redeploy(p)

Spec == Init /\ [][Next]_vars

-----------------------------------------------------------------------------
TypeOK ==
  /\ report \in [rev : Nat, decision : Decisions \union {Open},
                 verdict : Verdict, logged : Verdict]
  /\ content \in Content
  /\ trail \subseteq [rev : Nat, about : Criteria \union Findings \union {"report"},
                      nth : Nat]
  /\ policy \in Policies
  /\ writer \in Editors \union {Nobody}
  /\ readers \subseteq Editors
  /\ phase \in [Editors -> {"away", "reading", "seen", "writing", "unchanged",
                            "rereading"}]
  /\ page \in [Editors -> [rev : Nat, decision : Decisions \union {Open},
                           content : Content, shown : Verdict]]
  /\ op \in [Editors -> [change : Change \union {NoOp.change}, expected : Nat]]
  /\ \A e \in Editors : phase[e] \in {"writing", "unchanged", "rereading"} <=>
                          op[e].change \in Change

\* Two pages of the same revision show the same results, and a page whose
\* revision is the row's shows what is stored: the revision the server
\* compares stands for everything the instructor saw (get_report under its
\* shared lock; every change of the rows counts a revision).
PageIsOneRevision ==
  \A e \in Editors : phase[e] = "seen" =>
    /\ page[e].rev = report.rev => page[e].content = content
                                     /\ page[e].decision = report.decision
    /\ \A x \in Editors : phase[x] = "seen" /\ page[x].rev = page[e].rev =>
         page[x].content = page[e].content

\* Whatever the policy has become, a decided report shows the verdict that was
\* recorded when it was decided (report_out_for_check_run).
DecidedVerdictShown ==
  \A e \in Editors :
    phase[e] = "seen" /\ page[e].rev = report.rev /\ report.decision # Open =>
      page[e].shown = report.logged

\* The verdict in the report row is the one in the audit log, was computed
\* from the rows as they are now, and an approval or a rejection leaves no
\* criterion waiting for review.
VerdictOfTheRows ==
  /\ report.verdict = report.logged
  /\ \E p \in Policies : report.verdict = Assess(content, p)
  /\ report.decision \in {"approved", "rejected"} => Pending(content) = {}

\* A finding cleared by confirming its citation source never counts against
\* the manuscript again, through any sequence of dismissals, bulk changes and
\* confirmations (the refusals of confirm_finding and bulk_resolve_flags).
ClearedStaysCleared ==
  \A f \in Findings : content.flag[f].source => content.flag[f].overridden

\* The audit log explains every revision of the assessment, and numbers the
\* judgments of a criterion without a gap, in the order they were made.
TrailIsComplete ==
  /\ {t.rev : t \in trail} = 1..report.rev
  /\ \A k \in Criteria :
       LET about == {t \in trail : t.about = k}
       IN  /\ {t.nth : t \in about} = 1..content.judged[k]
           /\ \A s, t \in about : s.rev < t.rev <=> s.nth < t.nth

\* The inductive invariant of the proofs.  The exclusive lock excludes every
\* other holder; while a page is being read, the row it was begun on stays; a
\* complete page stands for one revision; a change under way was submitted for
\* the revision and the decision the row still has.
LockInv ==
  /\ \A e \in Editors : phase[e] = "writing" => writer = e
  /\ \A e \in Editors : phase[e] \in {"reading", "rereading"} => e \in readers
  /\ writer # Nobody => readers = {}

ReadInv ==
  \A e \in Editors : phase[e] \in {"reading", "rereading"} =>
    /\ page[e].rev = report.rev
    /\ page[e].decision = report.decision
    /\ page[e].shown = report.logged

Complete(e) == phase[e] \in {"seen", "writing", "unchanged"}

PageInv ==
  \A e \in Editors : Complete(e) =>
    /\ page[e].rev <= report.rev
    /\ page[e].rev = report.rev =>
         /\ page[e].content = content
         /\ page[e].decision = report.decision
         /\ report.decision # Open => page[e].shown = report.logged
    /\ \A x \in Editors : Complete(x) /\ page[x].rev = page[e].rev =>
         page[x].content = page[e].content

WriteInv ==
  \A e \in Editors : phase[e] = "writing" =>
    /\ page[e].rev = report.rev
    /\ (report.decision = Open) <=> (op[e].change.kind # "reopen")

IInv ==
  /\ TypeOK /\ LockInv /\ ReadInv /\ PageInv /\ WriteInv
  /\ VerdictOfTheRows /\ ClearedStaysCleared

\* A change is applied only to the assessment its editor's page showed, even
\* when another change, a lost answer or a retry came between.
ChangesWhatWasSeen ==
  [][report'.rev # report.rev =>
       \E e \in Editors : /\ phase[e] = "writing"
                          /\ page[e].rev = report.rev
                          /\ page[e].content = content
                          /\ page[e].decision = report.decision]_vars

\* Nothing under a decision moves until it is taken back, and one decision
\* never replaces another (raise_if_decided, allow_decided).
DecidedIsFrozen ==
  [][report.decision # Open =>
       /\ content' = content
       /\ report'.verdict = report.verdict
       /\ report'.decision \in {report.decision, Open}]_vars

=============================================================================
