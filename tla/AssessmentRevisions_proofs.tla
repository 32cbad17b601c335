--------------------- MODULE AssessmentRevisions_proofs ---------------------
(* Proofs about AssessmentRevisions, for any pages, criteria, findings and  *)
(* policies.                                                                *)
EXTENDS AssessmentRevisions, TLAPS

\* An outcome of a change or of the checks.
Outcomes == Grades \union {NeedsReview}

\* The changes, by kind: what each one carries.
LEMMA ChangeKinds ==
  ASSUME NEW o \in Change
  PROVE  \/ /\ o.kind \in {"resolve", "record", "revise"}
            /\ o.on \in Criteria /\ o.grade \in Grades
         \/ /\ o.kind \in {"dismiss", "confirm"}
            /\ o.on \in SUBSET Findings /\ o.bulk \in BOOLEAN
         \/ o.kind = "verify" /\ o.on \in Findings
         \/ o.kind = "decide" /\ o.decision \in Decisions
         \/ o.kind = "reopen"
  BY CitationsAssumption DEF Change

\* A verdict is a verdict, whatever the rows and the policy.
LEMMA AssessType ==
  ASSUME NEW c \in Content, NEW p \in Policies
  PROVE  Assess(c, p) \in Verdict
  BY DEF Assess, Content, Verdict

LEMMA DismissedType ==
  ASSUME NEW f \in Flag
  PROVE  Dismissed(f) \in Flag /\ Dismissed(f).overridden
  BY DEF Dismissed, Flag

LEMMA ConfirmedType ==
  ASSUME NEW f \in Flag
  PROVE  Confirmed(f) \in Flag /\ Confirmed(f).source = f.source
  BY DEF Confirmed, Flag

LEMMA VerifiedType ==
  ASSUME NEW f \in Flag
  PROVE  Verified(f) \in Flag /\ Verified(f).overridden
  BY DEF Verified, Flag

\* What a selection of findings becomes.
LEMMA ResolvedType ==
  ASSUME NEW c \in Content, NEW o, o.kind \in {"confirm", "dismiss"}
  PROVE  Resolved(o, c) \in [Findings -> Flag]
  <1>1. \A f \in Findings : c.flag[f] \in Flag
    BY DEF Content
  <1>2. \A f \in Findings : Confirmed(c.flag[f]) \in Flag /\ Dismissed(c.flag[f]) \in Flag
    BY <1>1, DismissedType, ConfirmedType
  <1> QED
    BY <1>1, <1>2 DEF Resolved

\* A graded criterion leaves the rows well formed.
LEMMA GradedType ==
  ASSUME NEW c \in Content, NEW k \in Criteria, NEW g \in Grades, NEW n \in Nat
  PROVE  Graded(c, k, g, n) \in Content
  <1>1. [c.outcome EXCEPT ![k] = g] \in [Criteria -> Grades \union {NeedsReview}]
    BY DEF Content
  <1>2. [c.judged EXCEPT ![k] = n] \in [Criteria -> Nat]
    BY DEF Content
  <1> QED BY <1>1, <1>2 DEF Content, Graded

\* The rows stay rows, one kind of change after another.
LEMMA AppliedType ==
  ASSUME NEW c \in Content, NEW o \in Change
  PROVE  Applied(o, c) \in Content
  <1>1. CASE o.kind = "resolve"
    <2>1. Applied(o, c) = ResolveEscalation(o.on, o.grade, c)
      BY <1>1 DEF Applied
    <2> QED BY <2>1, <1>1, ChangeKinds, GradedType DEF ResolveEscalation
  <1>2. CASE o.kind = "record"
    <2>1. Applied(o, c) = RecordJudgment(o.on, o.grade, c)
      BY <1>2 DEF Applied
    <2> QED BY <2>1, <1>2, ChangeKinds, GradedType DEF RecordJudgment
  <1>3. CASE o.kind = "revise"
    <2>1. Applied(o, c) = ReviseJudgment(o.on, o.grade, c)
      BY <1>3 DEF Applied
    <2>2. o.on \in Criteria /\ o.grade \in Grades
      BY <1>3, ChangeKinds
    <2>3. c.judged[o.on] + 1 \in Nat
      BY <2>2 DEF Content
    <2> QED BY <2>1, <2>2, <2>3, GradedType DEF ReviseJudgment
  <1>4. CASE o.kind \in {"confirm", "dismiss"}
    <2>1. Applied(o, c) = [c EXCEPT !.flag = Resolved(o, c)]
      BY <1>4 DEF Applied
    <2> QED BY <2>1, <1>4, ResolvedType DEF Content
  <1>5. CASE o.kind = "verify"
    <2>1. Applied(o, c) = [c EXCEPT !.flag = [c.flag EXCEPT ![o.on] = Verified(c.flag[o.on])]]
      BY <1>5 DEF Applied
    <2>2. o.on \in Findings
      BY <1>5, ChangeKinds
    <2>3. Verified(c.flag[o.on]) \in Flag
      BY <2>2, VerifiedType DEF Content
    <2> QED BY <2>1, <2>2, <2>3 DEF Content
  <1>6. CASE o.kind \in {"decide", "reopen"}
    BY <1>6 DEF Applied
  <1> QED BY <1>1, <1>2, <1>3, <1>4, <1>5, <1>6, ChangeKinds

\* A citation source once confirmed keeps its finding out of the verdict.
LEMMA AppliedCleared ==
  ASSUME NEW c \in Content, NEW o \in Change, Permitted(o, c),
         \A f \in Findings : c.flag[f].source => c.flag[f].overridden
  PROVE  \A f \in Findings :
           Applied(o, c).flag[f].source => Applied(o, c).flag[f].overridden
  <1> SUFFICES ASSUME NEW f \in Findings, Applied(o, c).flag[f].source
               PROVE  Applied(o, c).flag[f].overridden
    OBVIOUS
  <1>0. c.flag \in [Findings -> Flag]
    BY DEF Content
  <1>1. CASE o.kind \in {"resolve", "record", "revise"}
    <2>1. Applied(o, c).flag = c.flag
      <3>1. CASE o.kind = "resolve"
        BY <3>1 DEF Applied, ResolveEscalation, Graded
      <3>2. CASE o.kind = "record"
        BY <3>2 DEF Applied, RecordJudgment, Graded
      <3>3. CASE o.kind = "revise"
        BY <3>3 DEF Applied, ReviseJudgment, Graded
      <3> QED BY <1>1, <3>1, <3>2, <3>3
    <2> QED BY <2>1
  <1>2. CASE o.kind = "confirm"
    <2>1. Applied(o, c) = [c EXCEPT !.flag = Resolved(o, c)]
      BY <1>2 DEF Applied
    <2>2. Applied(o, c).flag = Resolved(o, c)
      BY <2>1 DEF Content
    <2>3. MayConfirm(o, c)
      BY <1>2 DEF Permitted
    <2>4. \A g \in o.on : ~c.flag[g].source
      BY <2>3 DEF MayConfirm
    <2>5. CASE f \in Touched(o, c)
      <3>1. Resolved(o, c)[f] = Confirmed(c.flag[f])
        BY <2>5, <1>2 DEF Resolved
      <3>2. Confirmed(c.flag[f]).source = c.flag[f].source
        BY <1>0, ConfirmedType
      <3>3. f \in o.on
        BY <2>5 DEF Touched
      <3> QED BY <2>2, <2>4, <3>1, <3>2, <3>3
    <2>6. CASE f \notin Touched(o, c)
      BY <2>2, <2>6 DEF Resolved
    <2> QED BY <2>5, <2>6
  <1>3. CASE o.kind = "dismiss"
    <2>1. Applied(o, c) = [c EXCEPT !.flag = Resolved(o, c)]
      BY <1>3 DEF Applied
    <2>2. Applied(o, c).flag = Resolved(o, c)
      BY <2>1 DEF Content
    <2>3. CASE f \in Touched(o, c)
      <3>1. Resolved(o, c)[f] = Dismissed(c.flag[f])
        BY <2>3, <1>3 DEF Resolved
      <3> QED BY <1>0, <2>2, <3>1, DismissedType
    <2>4. CASE f \notin Touched(o, c)
      BY <2>2, <2>4 DEF Resolved
    <2> QED BY <2>3, <2>4
  <1>4. CASE o.kind = "verify"
    <2>1. Applied(o, c) = [c EXCEPT !.flag = [c.flag EXCEPT ![o.on] = Verified(c.flag[o.on])]]
      BY <1>4 DEF Applied
    <2>2. Applied(o, c).flag = [c.flag EXCEPT ![o.on] = Verified(c.flag[o.on])]
      BY <2>1 DEF Content
    <2>3. Verified(c.flag[f]).overridden
      BY <1>0, VerifiedType
    <2> QED BY <1>0, <2>2, <2>3
  <1>5. CASE o.kind \in {"decide", "reopen"}
    <2>1. Applied(o, c) = c
      BY <1>5 DEF Applied
    <2> QED BY <2>1
  <1> QED BY <1>1, <1>2, <1>3, <1>4, <1>5, ChangeKinds

-----------------------------------------------------------------------------
(* What a commit finds and leaves.                                         *)

\* The report after a change, field by field.
LEMMA ReportAfterFields ==
  ASSUME TypeOK, NEW o \in Change, NEW c, c = Applied(o, content),
         NEW r, r = ReportAfter(o, c)
  PROVE  /\ r \in [rev : Nat, decision : Decisions \union {Open},
                    verdict : Verdict, logged : Verdict]
         /\ r.rev = report.rev + 1
         /\ o.kind = "decide" => r.decision = o.decision
         /\ o.kind = "reopen" => /\ r.decision = Open
                                 /\ r.verdict = report.verdict
                                 /\ r.logged = report.logged
         /\ o.kind # "reopen" => /\ r.verdict = Assess(c, policy)
                                 /\ r.logged = Assess(c, policy)
         /\ o.kind \notin {"decide", "reopen"} => r.decision = report.decision
  <1>0. report \in [rev : Nat, decision : Decisions \union {Open},
                    verdict : Verdict, logged : Verdict]
        /\ content \in Content /\ policy \in Policies
    BY DEF TypeOK
  <1>1. c \in Content
    BY <1>0, AppliedType
  <1>2. Assess(c, policy) \in Verdict /\ Assess(content, policy) \in Verdict
    BY <1>0, <1>1, AssessType
  <1>3. CASE o.kind = "decide"
    <2>1. r = Decided(o.decision)
      BY <1>3 DEF ReportAfter
    <2>2. c = content
      BY <1>3 DEF Applied
    <2>3. o.decision \in Decisions
      BY <1>3, ChangeKinds
    <2> QED BY <1>0, <1>2, <1>3, <2>1, <2>2, <2>3 DEF Decided
  <1>4. CASE o.kind = "reopen"
    <2>1. r = Reopened
      BY <1>4 DEF ReportAfter
    <2> QED BY <1>0, <1>4, <2>1 DEF Reopened, Open
  <1>5. CASE o.kind \notin {"decide", "reopen"}
    <2>1. r = Rescored(c)
      BY <1>5 DEF ReportAfter
    <2> QED BY <1>0, <1>2, <1>5, <2>1 DEF Rescored
  <1> QED BY <1>3, <1>4, <1>5

\* A change under way holds the lock, alone, for the row it was begun on.
LEMMA WriterHoldsRow ==
  ASSUME IInv, NEW e \in Editors, phase[e] = "writing"
  PROVE  /\ writer = e /\ readers = {}
         /\ \A x \in Editors : x # e => phase[x] # "writing"
         /\ \A x \in Editors : phase[x] \notin {"reading", "rereading"}
         /\ page[e].rev = report.rev /\ page[e].content = content
         /\ page[e].decision = report.decision
         /\ op[e].change \in Change
         /\ (report.decision = Open) <=> (op[e].change.kind # "reopen")
  <1>1. writer = e
    BY DEF IInv, LockInv
  <1>2. readers = {}
    BY <1>1, NobodyAssumption DEF IInv, LockInv
  <1>3. \A x \in Editors : x # e => phase[x] # "writing"
    BY <1>1 DEF IInv, LockInv
  <1>4. \A x \in Editors : phase[x] \notin {"reading", "rereading"}
    BY <1>2 DEF IInv, LockInv
  <1>5. page[e].rev = report.rev
        /\ ((report.decision = Open) <=> (op[e].change.kind # "reopen"))
    BY DEF IInv, WriteInv
  <1>6. page[e].content = content /\ page[e].decision = report.decision
    BY <1>5 DEF IInv, PageInv, Complete
  <1>7. op[e].change \in Change
    BY DEF IInv, TypeOK
  <1> QED BY <1>1, <1>2, <1>3, <1>4, <1>5, <1>6, <1>7

\* What a commit leaves, the acknowledgment received or lost.
LEMMA CommitLeaves ==
  ASSUME IInv, NEW e \in Editors, Commit(e)
  PROVE  /\ content' \in Content
         /\ report' \in [rev : Nat, decision : Decisions \union {Open},
                         verdict : Verdict, logged : Verdict]
         /\ report'.rev = report.rev + 1
         /\ report'.verdict = report'.logged
         /\ \/ report'.verdict = Assess(content', policy)
            \/ report'.verdict = report.verdict /\ content' = content
         /\ \/ report'.decision = Open
            \/ /\ content' = content
               /\ report'.decision \in Decisions
               /\ report'.decision # "returned" => Pending(content) = {}
         /\ report.decision # Open => /\ content' = content
                                      /\ report'.verdict = report.verdict
                                      /\ report'.decision = Open
         /\ ClearedStaysCleared'
  <1> USE DEF IInv
  <1> DEFINE o == op[e].change
  <1>0. phase[e] = "writing"
    BY DEF Commit
  <1>1. o \in Change /\ ((report.decision = Open) <=> (o.kind # "reopen"))
    BY <1>0, WriterHoldsRow
  <1>2. content' = Applied(o, content) /\ report' = ReportAfter(o, content')
        /\ Permitted(o, content)
    BY DEF Commit
  <1>3. TypeOK /\ content \in Content
    BY DEF TypeOK
  <1>4. content' \in Content
    BY <1>1, <1>2, <1>3, AppliedType
  <1>5. /\ report' \in [rev : Nat, decision : Decisions \union {Open},
                        verdict : Verdict, logged : Verdict]
        /\ report'.rev = report.rev + 1
        /\ o.kind = "decide" => report'.decision = o.decision
        /\ o.kind = "reopen" => /\ report'.decision = Open
                                /\ report'.verdict = report.verdict
                                /\ report'.logged = report.logged
        /\ o.kind # "reopen" => /\ report'.verdict = Assess(content', policy)
                                /\ report'.logged = Assess(content', policy)
        /\ o.kind \notin {"decide", "reopen"} => report'.decision = report.decision
    <2> HIDE DEF o
    <2> QED BY <1>1, <1>2, <1>3, ReportAfterFields
  <1>6. o.kind \in {"decide", "reopen"} => content' = content
    BY <1>2 DEF Applied
  <1>7. o.kind = "decide" =>
          /\ o.decision \in Decisions
          /\ o.decision # "returned" => Pending(content) = {}
    BY <1>1, <1>2, ChangeKinds DEF Permitted
  <1>8. ClearedStaysCleared'
    <2>1. \A f \in Findings : content.flag[f].source => content.flag[f].overridden
      BY DEF ClearedStaysCleared
    <2>2. \A f \in Findings : Applied(o, content).flag[f].source
                               => Applied(o, content).flag[f].overridden
      BY <1>1, <1>2, <1>3, <2>1, AppliedCleared
    <2> QED BY <1>2, <2>2 DEF ClearedStaysCleared
  <1>9. report.verdict = report.logged
    BY DEF VerdictOfTheRows
  <1> HIDE DEF o, IInv
  <1>a. CASE o.kind = "decide"
    BY <1>a, <1>1, <1>4, <1>5, <1>6, <1>7, <1>8
  <1>b. CASE o.kind = "reopen"
    BY <1>b, <1>1, <1>4, <1>5, <1>6, <1>8, <1>9
  <1>c. CASE o.kind \notin {"decide", "reopen"}
    BY <1>c, <1>1, <1>4, <1>5, <1>8
  <1> QED BY <1>a, <1>b, <1>c

-----------------------------------------------------------------------------
(* Every step keeps the invariant.                                         *)

LEMMA InitInv == Init => IInv
  <1> SUFFICES ASSUME Init PROVE IInv
    OBVIOUS
  <1>1. PICK outcome \in [Criteria -> {"passed", "failed", NeedsReview}] :
          /\ \A k \in Criteria : outcome[k] = NeedsReview <=> k \in Awaiting
          /\ content = [outcome |-> outcome, judged |-> [k \in Criteria |-> 0],
                        flag |-> [f \in Findings |-> NewFlag]]
    BY DEF Init
  <1>2. content \in Content
    <2>1. outcome \in [Criteria -> Grades \union {NeedsReview}]
      BY DEF Grades
    <2>2. [f \in Findings |-> NewFlag] \in [Findings -> Flag]
      BY DEF NewFlag, Flag
    <2>3. [k \in Criteria |-> 0] \in [Criteria -> Nat]
      OBVIOUS
    <2> QED BY <1>1, <2>1, <2>2, <2>3 DEF Content
  <1>3. policy \in Policies /\ Assess(content, policy) \in Verdict
    BY <1>2, AssessType DEF Init
  <1>4. report = [rev |-> 0, decision |-> Open, verdict |-> Assess(content, policy),
                  logged |-> Assess(content, policy)]
    BY DEF Init
  <1>5. \A e \in Editors : phase[e] = "away" /\ op[e] = NoOp /\ page[e] = NoPage
    BY DEF Init
  <1>6. NoPage \in [rev : Nat, decision : Decisions \union {Open},
                    content : Content, shown : Verdict]
    BY <1>2, <1>3, <1>4 DEF NoPage
  <1>7. NoOp.change \notin Change
    <2>1. NoOp.change.kind = "none"
      BY DEF NoOp
    <2> QED BY <2>1, ChangeKinds
  <1>8. TypeOK
    <2>1. report \in [rev : Nat, decision : Decisions \union {Open},
                      verdict : Verdict, logged : Verdict]
      BY <1>3, <1>4
    <2>2. op \in [Editors -> [change : Change \union {NoOp.change}, expected : Nat]]
      BY DEF Init, NoOp
    <2>3. page \in [Editors -> [rev : Nat, decision : Decisions \union {Open},
                               content : Content, shown : Verdict]]
      BY <1>6 DEF Init
    <2>4. phase = [e \in Editors |-> "away"] /\ readers = {} /\ writer = Nobody
          /\ trail = {}
      BY DEF Init
    <2>5. \A e \in Editors : op[e].change \notin Change
      BY <1>5, <1>7
    <2> QED BY <1>2, <1>3, <2>1, <2>2, <2>3, <2>4, <2>5 DEF TypeOK
  <1>9. LockInv /\ ReadInv /\ PageInv /\ WriteInv
    BY <1>5 DEF LockInv, ReadInv, PageInv, WriteInv, Complete, Init
  <1>a. VerdictOfTheRows
    BY <1>3, <1>4 DEF VerdictOfTheRows, Open
  <1>b. ClearedStaysCleared
    BY <1>1 DEF ClearedStaysCleared, NewFlag
  <1> QED BY <1>8, <1>9, <1>a, <1>b DEF IInv

\* The rows, the report and the policy are untouched: so is the verdict.
LEMMA RowsUntouched ==
  ASSUME VerdictOfTheRows, ClearedStaysCleared, UNCHANGED <<report, content>>
  PROVE  VerdictOfTheRows' /\ ClearedStaysCleared'
  BY DEF VerdictOfTheRows, ClearedStaysCleared, Pending

LEMMA StartReadStep ==
  ASSUME IInv, NEW e \in Editors, StartRead(e)
  PROVE  IInv'
  <1> USE DEF IInv
  <1>0. /\ phase[e] \in {"away", "seen", "unchanged"}
        /\ writer = Nobody /\ writer' = writer
        /\ readers' = readers \union {e}
        /\ phase' = [phase EXCEPT ![e] =
              IF phase[e] = "unchanged" THEN "rereading" ELSE "reading"]
        /\ page' = [page EXCEPT ![e] =
              [rev |-> report.rev, decision |-> report.decision,
               content |-> page[e].content, shown |-> report.logged]]
        /\ UNCHANGED <<report, content, trail, policy, op>>
    BY DEF StartRead
  <1>1. TypeOK'
    BY <1>0 DEF TypeOK
  <1>2. \A x \in Editors : x # e => phase'[x] = phase[x] /\ page'[x] = page[x]
    BY <1>0 DEF TypeOK
  <1>3. /\ phase'[e] \in {"reading", "rereading"}
        /\ page'[e].rev = report.rev /\ page'[e].decision = report.decision
        /\ page'[e].shown = report.logged
    BY <1>0 DEF TypeOK
  <1>4. LockInv'
    BY <1>0, <1>2, <1>3, NobodyAssumption DEF LockInv
  <1>5. ReadInv'
    BY <1>0, <1>2, <1>3 DEF ReadInv
  <1>6. PageInv'
    BY <1>0, <1>2, <1>3 DEF PageInv, Complete
  <1>7. WriteInv'
    BY <1>0, <1>2, <1>3 DEF WriteInv
  <1> QED BY <1>0, <1>1, <1>4, <1>5, <1>6, <1>7, RowsUntouched

LEMMA FinishReadStep ==
  ASSUME IInv, NEW e \in Editors, FinishRead(e)
  PROVE  IInv'
  <1> USE DEF IInv
  <1>0. /\ phase[e] \in {"reading", "rereading"}
        /\ readers' = readers \ {e}
        /\ page' = [page EXCEPT ![e] =
              [rev |-> page[e].rev, decision |-> page[e].decision,
               content |-> content, shown |-> Shown(page[e], content)]]
        /\ phase' = [phase EXCEPT ![e] =
              IF phase[e] = "rereading" /\ page[e].rev # op[e].expected
              THEN "away" ELSE "seen"]
        /\ op' = [op EXCEPT ![e] = NoOp]
        /\ UNCHANGED <<report, content, trail, policy, writer>>
    BY DEF FinishRead
  <1>1. Shown(page[e], content) \in Verdict
    BY AssessType DEF TypeOK, Shown
  <1>2. \A x \in Editors : x # e =>
          phase'[x] = phase[x] /\ page'[x] = page[x] /\ op'[x] = op[x]
    BY <1>0 DEF TypeOK
  <1>3. /\ phase'[e] \in {"away", "seen"} /\ op'[e] = NoOp
        /\ page'[e].rev = report.rev /\ page'[e].decision = report.decision
        /\ page'[e].content = content
        /\ report.decision # Open => page'[e].shown = report.logged
    BY <1>0 DEF TypeOK, ReadInv, Shown
  <1>4. TypeOK'
    <2>1. NoOp.change \notin Change
      <3>1. NoOp.change.kind = "none"
        BY DEF NoOp
      <3> QED BY <3>1, ChangeKinds
    <2>2. NoOp \in [change : Change \union {NoOp.change}, expected : Nat]
      BY DEF NoOp
    <2>3. op' \in [Editors -> [change : Change \union {NoOp.change}, expected : Nat]]
      BY <1>0, <2>2 DEF TypeOK
    <2>4. page' \in [Editors -> [rev : Nat, decision : Decisions \union {Open},
                                content : Content, shown : Verdict]]
      BY <1>0, <1>1 DEF TypeOK
    <2>5. \A x \in Editors : phase'[x] \in {"writing", "unchanged", "rereading"} <=>
                            op'[x].change \in Change
      BY <1>2, <1>3, <2>1 DEF TypeOK
    <2> QED BY <1>0, <2>3, <2>4, <2>5 DEF TypeOK
  <1>5. LockInv'
    BY <1>0, <1>2, <1>3 DEF LockInv
  <1>6. ReadInv'
    BY <1>0, <1>2, <1>3 DEF ReadInv
  <1>7. PageInv'
    BY <1>0, <1>2, <1>3 DEF PageInv, Complete, TypeOK
  <1>8. WriteInv'
    BY <1>0, <1>2, <1>3 DEF WriteInv
  <1> QED BY <1>0, <1>4, <1>5, <1>6, <1>7, <1>8, RowsUntouched

LEMMA BeginStep ==
  ASSUME IInv, NEW e \in Editors, NEW o \in Change, Begin(e, o)
  PROVE  IInv'
  <1> USE DEF IInv
  <1>0. /\ phase[e] = "seen" /\ writer = Nobody /\ readers = {}
        /\ report.rev = page[e].rev
        /\ (report.decision = Open) <=> (o.kind # "reopen")
        /\ writer' = e
        /\ phase' = [phase EXCEPT ![e] = "writing"]
        /\ op' = [op EXCEPT ![e] = [change |-> o, expected |-> page[e].rev]]
        /\ UNCHANGED <<report, content, trail, policy, readers, page>>
    BY DEF Begin
  <1>1. \A x \in Editors : x # e => phase'[x] = phase[x] /\ op'[x] = op[x]
    BY <1>0 DEF TypeOK
  <1>2. phase'[e] = "writing" /\ op'[e].change = o
    BY <1>0 DEF TypeOK
  <1>3. \A x \in Editors : phase[x] \notin {"reading", "rereading", "writing"}
    BY <1>0, NobodyAssumption DEF LockInv
  <1>4. TypeOK'
    <2>1. op' \in [Editors -> [change : Change \union {NoOp.change}, expected : Nat]]
      BY <1>0 DEF TypeOK
    <2>2. \A x \in Editors : phase'[x] \in {"writing", "unchanged", "rereading"} <=>
                            op'[x].change \in Change
      BY <1>1, <1>2 DEF TypeOK
    <2> QED BY <1>0, <2>1, <2>2 DEF TypeOK
  <1>5. LockInv'
    BY <1>0, <1>1, <1>2, <1>3 DEF LockInv
  <1>6. ReadInv'
    BY <1>0, <1>1, <1>2 DEF ReadInv
  <1>7. PageInv'
    BY <1>0, <1>1, <1>2 DEF PageInv, Complete
  <1>8. WriteInv'
    BY <1>0, <1>1, <1>2, <1>3 DEF WriteInv
  <1> QED BY <1>0, <1>4, <1>5, <1>6, <1>7, <1>8, RowsUntouched

\* The two ways a change ends without touching a row.
LEMMA GivenUp ==
  ASSUME IInv, NEW e \in Editors, Abort(e) \/ NothingToChange(e)
  PROVE  IInv'
  <1> USE DEF IInv
  <1>0. /\ phase[e] = "writing"
        /\ \/ phase' = [phase EXCEPT ![e] = "seen"] /\ op' = [op EXCEPT ![e] = NoOp]
           \/ phase' = [phase EXCEPT ![e] = "unchanged"] /\ op' = op
        /\ UNCHANGED <<report, content, trail, policy, readers, page>>
    BY DEF Abort, NothingToChange
  <1>1. writer' = Nobody
    BY <1>0, WriterHoldsRow DEF Abort, NothingToChange
  <1>2. \A x \in Editors : x # e => phase'[x] = phase[x] /\ op'[x] = op[x]
    BY <1>0 DEF TypeOK
  <1>3. /\ phase'[e] \in {"seen", "unchanged"}
        /\ phase'[e] = "unchanged" => op'[e] = op[e]
        /\ phase'[e] = "seen" => op'[e] = NoOp
    BY <1>0 DEF TypeOK
  <1>4. TypeOK'
    <2>1. NoOp.change \notin Change
      <3>1. NoOp.change.kind = "none"
        BY DEF NoOp
      <3> QED BY <3>1, ChangeKinds
    <2>2. NoOp \in [change : Change \union {NoOp.change}, expected : Nat]
      BY DEF NoOp
    <2>3. op' \in [Editors -> [change : Change \union {NoOp.change}, expected : Nat]]
      BY <1>0, <2>2 DEF TypeOK
    <2>4. op[e].change \in Change
      BY <1>0, WriterHoldsRow
    <2>5. \A x \in Editors : phase'[x] \in {"writing", "unchanged", "rereading"} <=>
                            op'[x].change \in Change
      BY <1>2, <1>3, <2>1, <2>4 DEF TypeOK
    <2>6. phase' \in [Editors -> {"away", "reading", "seen", "writing", "unchanged",
                                "rereading"}]
      BY <1>0 DEF TypeOK
    <2> QED BY <1>0, <1>1, <2>3, <2>5, <2>6 DEF TypeOK
  <1>5. \A x \in Editors : phase'[x] # "writing"
    BY <1>0, <1>2, <1>3, WriterHoldsRow
  <1>6. LockInv'
    BY <1>0, <1>1, <1>2, <1>3, <1>5 DEF LockInv
  <1>7. ReadInv'
    BY <1>0, <1>2, <1>3 DEF ReadInv
  <1>8. PageInv'
    BY <1>0, <1>2, <1>3 DEF PageInv, Complete
  <1>9. WriteInv'
    BY <1>5 DEF WriteInv
  <1> QED BY <1>0, <1>4, <1>6, <1>7, <1>8, <1>9, RowsUntouched

LEMMA RedeployStep ==
  ASSUME IInv, NEW p \in Policies, Redeploy(p)
  PROVE  IInv'
  <1> USE DEF IInv
  <1>0. /\ policy' = p /\ writer' = Nobody /\ readers' = {}
        /\ phase' = [e \in Editors |-> IF phase[e] \in {"writing", "seen"}
                                      THEN "seen" ELSE "away"]
        /\ op' = [e \in Editors |-> NoOp]
        /\ UNCHANGED <<report, content, trail, page>>
    BY DEF Redeploy
  <1>1. \A x \in Editors : /\ phase'[x] \in {"seen", "away"}
                           /\ phase'[x] = "seen" => phase[x] \in {"writing", "seen"}
    BY <1>0
  <1>2. TypeOK'
    <2>1. NoOp.change \notin Change
      <3>1. NoOp.change.kind = "none"
        BY DEF NoOp
      <3> QED BY <3>1, ChangeKinds
    <2>2. NoOp \in [change : Change \union {NoOp.change}, expected : Nat]
      BY DEF NoOp
    <2>3. op' \in [Editors -> [change : Change \union {NoOp.change}, expected : Nat]]
      BY <1>0, <2>2
    <2>4. \A x \in Editors : phase'[x] \in {"writing", "unchanged", "rereading"} <=>
                            op'[x].change \in Change
      BY <1>0, <1>1, <2>1
    <2> QED BY <1>0, <2>3, <2>4 DEF TypeOK
  <1>3. LockInv' /\ ReadInv' /\ WriteInv'
    BY <1>0, <1>1 DEF LockInv, ReadInv, WriteInv
  <1>4. PageInv'
    BY <1>0, <1>1 DEF PageInv, Complete
  <1> QED BY <1>0, <1>2, <1>3, <1>4, RowsUntouched

Entry == [rev : Nat, about : Criteria \union Findings \union {"report"}, nth : Nat]

LEMMA EntriesType ==
  ASSUME NEW c \in Content, NEW o \in Change, NEW n \in Nat
  PROVE  Entries(o, c, n) \subseteq Entry
  <1>1. CASE o.kind \in {"resolve", "record", "revise"}
    <2>1. o.on \in Criteria
      BY <1>1, ChangeKinds
    <2>2. Applied(o, c).judged[o.on] \in Nat
      BY <2>1, AppliedType DEF Content
    <2>3. Entries(o, c, n) = {[rev |-> n, about |-> o.on,
                               nth |-> Applied(o, c).judged[o.on]]}
      BY <1>1 DEF Entries
    <2> QED BY <2>1, <2>2, <2>3 DEF Entry
  <1>2. CASE o.kind \in {"confirm", "dismiss"}
    <2>1. Touched(o, c) \subseteq Findings
      BY <1>2, ChangeKinds DEF Touched
    <2>2. Entries(o, c, n) = {[rev |-> n, about |-> f, nth |-> 0] : f \in Touched(o, c)}
      BY <1>2 DEF Entries
    <2> QED BY <2>1, <2>2 DEF Entry
  <1>3. CASE o.kind = "verify"
    <2>1. o.on \in Findings
      BY <1>3, ChangeKinds
    <2>2. Entries(o, c, n) = {[rev |-> n, about |-> o.on, nth |-> 0]}
      BY <1>3 DEF Entries
    <2> QED BY <2>1, <2>2 DEF Entry
  <1>4. CASE o.kind \in {"decide", "reopen"}
    <2>1. Entries(o, c, n) = {[rev |-> n, about |-> "report", nth |-> 0]}
      BY <1>4 DEF Entries
    <2> QED BY <2>1 DEF Entry
  <1> QED BY <1>1, <1>2, <1>3, <1>4, ChangeKinds

LEMMA CommitStep ==
  ASSUME IInv, NEW e \in Editors, Commit(e)
  PROVE  IInv'
  <1> USE DEF IInv
  <1>0. /\ phase[e] = "writing"
        /\ trail' = trail \union Entries(op[e].change, content, report.rev + 1)
        /\ phase' = [phase EXCEPT ![e] = "seen"]
        /\ op' = [op EXCEPT ![e] = NoOp]
        /\ UNCHANGED <<policy, readers>>
    BY DEF Commit
  <1>1. /\ op[e].change \in Change
        /\ \A x \in Editors : x # e => phase[x] # "writing"
        /\ \A x \in Editors : phase[x] \notin {"reading", "rereading"}
        /\ page[e].rev = report.rev
    BY <1>0, WriterHoldsRow
  <1>2. writer' = Nobody
    BY <1>0, WriterHoldsRow DEF Commit
  <1>3. /\ content' \in Content
        /\ report' \in [rev : Nat, decision : Decisions \union {Open},
                        verdict : Verdict, logged : Verdict]
        /\ report'.rev = report.rev + 1
        /\ report'.verdict = report'.logged
        /\ \/ report'.verdict = Assess(content', policy)
           \/ report'.verdict = report.verdict /\ content' = content
        /\ \/ report'.decision = Open
           \/ /\ content' = content
              /\ report'.decision \in Decisions
              /\ report'.decision # "returned" => Pending(content) = {}
        /\ ClearedStaysCleared'
    BY CommitLeaves
  <1>4. \/ page' = page
        \/ page' = [page EXCEPT ![e] =
             [rev |-> report'.rev, decision |-> report'.decision, content |-> content',
              shown |-> IF report'.decision # Open THEN report'.logged
                                                   ELSE Assess(content', policy)]]
    BY DEF Commit
  <1>5. Assess(content', policy) \in Verdict /\ policy \in Policies
    BY <1>3, AssessType DEF TypeOK
  <1>6. \A x \in Editors : x # e =>
          phase'[x] = phase[x] /\ op'[x] = op[x] /\ page'[x] = page[x]
    BY <1>0, <1>4 DEF TypeOK
  <1>7. phase'[e] = "seen" /\ op'[e] = NoOp
    BY <1>0 DEF TypeOK
  <1>8. \/ page'[e] = page[e]
        \/ /\ page'[e].rev = report'.rev /\ page'[e].decision = report'.decision
           /\ page'[e].content = content'
           /\ report'.decision # Open => page'[e].shown = report'.logged
    BY <1>4 DEF TypeOK
  <1>9. TypeOK'
    <2>1. NoOp.change \notin Change
      <3>1. NoOp.change.kind = "none"
        BY DEF NoOp
      <3> QED BY <3>1, ChangeKinds
    <2>2. NoOp \in [change : Change \union {NoOp.change}, expected : Nat]
      BY DEF NoOp
    <2>3. op' \in [Editors -> [change : Change \union {NoOp.change}, expected : Nat]]
      BY <1>0, <2>2 DEF TypeOK
    <2>4. \A x \in Editors : phase'[x] \in {"writing", "unchanged", "rereading"} <=>
                            op'[x].change \in Change
      BY <1>6, <1>7, <2>1 DEF TypeOK
    <2>5. page' \in [Editors -> [rev : Nat, decision : Decisions \union {Open},
                                content : Content, shown : Verdict]]
      BY <1>3, <1>4, <1>5 DEF TypeOK
    <2>6. phase' \in [Editors -> {"away", "reading", "seen", "writing", "unchanged",
                                "rereading"}]
      BY <1>0 DEF TypeOK
    <2>7. trail' \subseteq Entry
      <3>1. report.rev + 1 \in Nat /\ content \in Content /\ trail \subseteq Entry
        BY DEF TypeOK, Entry
      <3> QED BY <1>0, <1>1, <3>1, EntriesType
    <2>8. readers' \subseteq Editors /\ policy' \in Policies
      BY <1>0 DEF TypeOK
    <2> QED BY <1>2, <1>3, <2>3, <2>4, <2>5, <2>6, <2>7, <2>8 DEF TypeOK, Entry
  <1>a. LockInv'
    BY <1>1, <1>2, <1>6, <1>7 DEF LockInv
  <1>b. ReadInv'
    BY <1>1, <1>6, <1>7 DEF ReadInv
  <1>c. WriteInv'
    BY <1>1, <1>6, <1>7 DEF WriteInv
  <1>d. PageInv'
    <2>1. report.rev \in Nat /\ \A x \in Editors : page[x].rev \in Nat
      BY DEF TypeOK
    <2>2. \A x \in Editors : Complete(x)' => Complete(x)
      BY <1>0, <1>6, <1>7 DEF Complete
    <2>3. \A x \in Editors : Complete(x) => page[x].rev <= report.rev
      BY DEF PageInv
    <2>4. \A x, y \in Editors : Complete(x) /\ Complete(y) /\ page[x].rev = page[y].rev
                               => page[x].content = page[y].content
      BY DEF PageInv
    <2>5. CASE page'[e] = page[e]
      <3>1. \A x \in Editors : page'[x] = page[x]
        BY <2>5, <1>6
      <3> QED BY <1>3, <2>1, <2>2, <2>3, <2>4, <3>1 DEF PageInv
    <2>6. CASE /\ page'[e].rev = report'.rev /\ page'[e].decision = report'.decision
               /\ page'[e].content = content'
               /\ report'.decision # Open => page'[e].shown = report'.logged
      BY <2>6, <1>3, <1>6, <2>1, <2>2, <2>3, <2>4 DEF PageInv
    <2> QED BY <1>8, <2>5, <2>6
  <1>e. VerdictOfTheRows'
    <2>1. policy \in Policies /\ policy' = policy
      BY <1>0 DEF TypeOK
    <2>2. \E p \in Policies : report'.verdict = Assess(content', p)
      BY <1>3, <2>1 DEF VerdictOfTheRows
    <2>3. report'.decision \in {"approved", "rejected"} => Pending(content') = {}
      BY <1>3 DEF Open, Pending
    <2> QED BY <1>3, <2>2, <2>3 DEF VerdictOfTheRows, Assess
  <1> QED BY <1>3, <1>9, <1>a, <1>b, <1>c, <1>d, <1>e

LEMMA NextInv == IInv /\ [Next]_vars => IInv'
  <1> SUFFICES ASSUME IInv, [Next]_vars PROVE IInv'
    OBVIOUS
  <1>1. CASE UNCHANGED vars
    BY <1>1 DEF vars, IInv, TypeOK, LockInv, ReadInv, PageInv, WriteInv, Complete,
       VerdictOfTheRows, ClearedStaysCleared, Pending, Assess
  <1>2. ASSUME NEW e \in Editors,
               StartRead(e) \/ FinishRead(e) \/ Commit(e) \/ Abort(e)
                 \/ NothingToChange(e) \/ \E o \in Change : Begin(e, o)
        PROVE  IInv'
    BY <1>2, StartReadStep, FinishReadStep, CommitStep, GivenUp, BeginStep
  <1>3. ASSUME NEW p \in Policies, Redeploy(p) PROVE IInv'
    BY <1>3, RedeployStep
  <1> QED BY <1>1, <1>2, <1>3 DEF Next

-----------------------------------------------------------------------------
\* The inductive invariant holds, with any number of pages, criteria, findings
\* and scoring policies.
THEOREM Inductive == Spec => []IInv
  BY InitInv, NextInv, PTL DEF Spec

\* The type invariant.
THEOREM TypeCorrect == Spec => []TypeOK
  <1>1. IInv => TypeOK
    BY DEF IInv
  <1> QED BY Inductive, <1>1, PTL

\* A page stands for one revision of the assessment (get_report under its
\* shared lock).
THEOREM PageOneRevision == Spec => []PageIsOneRevision
  <1>1. IInv => PageIsOneRevision
    BY DEF IInv, PageInv, PageIsOneRevision, Complete
  <1> QED BY Inductive, <1>1, PTL

\* The recorded verdict is the one a decided report shows.
THEOREM DecidedShown == Spec => []DecidedVerdictShown
  <1>1. IInv => DecidedVerdictShown
    BY DEF IInv, PageInv, DecidedVerdictShown, Complete
  <1> QED BY Inductive, <1>1, PTL

\* Row, audit log and rows of results agree on the verdict, and nothing waits
\* for review under an approval or a rejection.
THEOREM VerdictCurrent == Spec => []VerdictOfTheRows
  <1>1. IInv => VerdictOfTheRows
    BY DEF IInv
  <1> QED BY Inductive, <1>1, PTL

\* A finding cleared by its citation source never counts again.
THEOREM Cleared == Spec => []ClearedStaysCleared
  <1>1. IInv => ClearedStaysCleared
    BY DEF IInv
  <1> QED BY Inductive, <1>1, PTL

\* The report row moves only when a change is committed.
LEMMA OnlyCommitsMove ==
  ASSUME IInv, [Next]_vars,
         report' # report \/ content' # content
  PROVE  \E e \in Editors : Commit(e)
  BY DEF Next, vars, StartRead, FinishRead, Abort, NothingToChange, Begin, Redeploy

\* A change applies to the assessment its page showed: the exclusive lock and
\* the compared revision of assessment_write.
THEOREM SeenIsChanged == Spec => ChangesWhatWasSeen
  <1>1. IInv /\ [Next]_vars =>
          (report'.rev # report.rev =>
             \E e \in Editors : /\ phase[e] = "writing"
                                /\ page[e].rev = report.rev
                                /\ page[e].content = content
                                /\ page[e].decision = report.decision)
    <2> SUFFICES ASSUME IInv, [Next]_vars, report'.rev # report.rev
                 PROVE  \E e \in Editors : /\ phase[e] = "writing"
                                           /\ page[e].rev = report.rev
                                           /\ page[e].content = content
                                           /\ page[e].decision = report.decision
      OBVIOUS
    <2>1. PICK e \in Editors : Commit(e)
      BY OnlyCommitsMove
    <2>2. phase[e] = "writing"
      BY <2>1 DEF Commit
    <2> QED BY <2>2, WriterHoldsRow
  <1> QED BY Inductive, <1>1, PTL DEF Spec, ChangesWhatWasSeen

\* A decision freezes the rows it was taken on until it is taken back.
THEOREM Frozen == Spec => DecidedIsFrozen
  <1>1. IInv /\ [Next]_vars =>
          (report.decision # Open =>
             /\ content' = content
             /\ report'.verdict = report.verdict
             /\ report'.decision \in {report.decision, Open})
    <2> SUFFICES ASSUME IInv, [Next]_vars, report.decision # Open
                 PROVE  /\ content' = content
                        /\ report'.verdict = report.verdict
                        /\ report'.decision \in {report.decision, Open}
      OBVIOUS
    <2>1. CASE report' = report /\ content' = content
      BY <2>1
    <2>2. CASE report' # report \/ content' # content
      <3>1. PICK e \in Editors : Commit(e)
        BY <2>2, OnlyCommitsMove
      <3> QED BY <3>1, CommitLeaves
    <2> QED BY <2>1, <2>2
  <1> QED BY Inductive, <1>1, PTL DEF Spec, DecidedIsFrozen

-----------------------------------------------------------------------------
(* The audit log.                                                          *)

\* A criterion that waits for review has never been judged.
TrailInv ==
  /\ TrailIsComplete
  /\ \A k \in Criteria : content.outcome[k] = NeedsReview => content.judged[k] = 0

LEMMA TrailInit == Init => TrailInv
  <1> SUFFICES ASSUME Init PROVE TrailInv
    OBVIOUS
  <1>1. trail = {} /\ report.rev = 0 /\ \A k \in Criteria : content.judged[k] = 0
    BY DEF Init
  <1> QED BY <1>1 DEF TrailInv, TrailIsComplete

\* The entries of a change carry its revision, and there is at least one.
LEMMA EntriesRevision ==
  ASSUME NEW c \in Content, NEW o \in Change, Permitted(o, c), NEW n \in Nat
  PROVE  {t.rev : t \in Entries(o, c, n)} = {n}
  <1>1. CASE o.kind \in {"resolve", "record", "revise"}
    <2>1. Entries(o, c, n) = {[rev |-> n, about |-> o.on,
                               nth |-> Applied(o, c).judged[o.on]]}
      BY <1>1 DEF Entries
    <2> QED BY <2>1
  <1>2. CASE o.kind \in {"confirm", "dismiss"}
    <2>1. Entries(o, c, n) = {[rev |-> n, about |-> f, nth |-> 0] : f \in Touched(o, c)}
      BY <1>2 DEF Entries
    <2>2. Touched(o, c) # {}
      <3>1. CASE o.kind = "confirm"
        BY <3>1 DEF Permitted, MayConfirm
      <3>2. CASE o.kind = "dismiss"
        BY <3>2 DEF Permitted
      <3> QED BY <1>2, <3>1, <3>2
    <2>3. PICK f \in Touched(o, c) : TRUE
      BY <2>2
    <2>4. [rev |-> n, about |-> f, nth |-> 0] \in Entries(o, c, n)
      BY <2>1
    <2>5. n \in {t.rev : t \in Entries(o, c, n)}
      BY <2>4
    <2>6. \A t \in Entries(o, c, n) : t.rev = n
      BY <2>1
    <2> QED BY <2>5, <2>6
  <1>3. CASE o.kind = "verify"
    <2>1. Entries(o, c, n) = {[rev |-> n, about |-> o.on, nth |-> 0]}
      BY <1>3 DEF Entries
    <2> QED BY <2>1
  <1>4. CASE o.kind \in {"decide", "reopen"}
    <2>1. Entries(o, c, n) = {[rev |-> n, about |-> "report", nth |-> 0]}
      BY <1>4 DEF Entries
    <2> QED BY <2>1
  <1> QED BY <1>1, <1>2, <1>3, <1>4, ChangeKinds

\* What a change does to the judgments of one criterion: nothing, or one entry
\* that counts one further.
LEMMA EntriesOfCriterion ==
  ASSUME NEW c \in Content, NEW o \in Change, Permitted(o, c), NEW n \in Nat,
         NEW k \in Criteria,
         c.outcome[k] = NeedsReview => c.judged[k] = 0
  PROVE  LET after == Applied(o, c)
             about == {t \in Entries(o, c, n) : t.about = k}
         IN  /\ after.outcome[k] = NeedsReview => after.judged[k] = 0
             /\ \/ about = {} /\ after.judged[k] = c.judged[k]
                \/ /\ after.judged[k] = c.judged[k] + 1
                   /\ about = {[rev |-> n, about |-> k, nth |-> c.judged[k] + 1]}
  <1>0. c.outcome \in [Criteria -> Grades \union {NeedsReview}]
        /\ c.judged \in [Criteria -> Nat]
    BY DEF Content
  <1>1. CASE o.kind \in {"resolve", "record", "revise"}
    <2>0. o.on \in Criteria /\ o.grade \in Grades
      BY <1>1, ChangeKinds
    <2>1. Applied(o, c) = Graded(c, o.on, o.grade, c.judged[o.on] + 1)
            \/ (o.on # k /\ Applied(o, c) = Graded(c, o.on, o.grade, 1))
      <3>1. CASE o.kind = "resolve"
        <4>1. Applied(o, c) = Graded(c, o.on, o.grade, 1)
          BY <3>1 DEF Applied, ResolveEscalation
        <4>2. o.on = k => c.judged[o.on] + 1 = 1
          BY <1>0, <2>0, <3>1 DEF Permitted
        <4> QED BY <4>1, <4>2
      <3>2. CASE o.kind = "record"
        <4>1. Applied(o, c) = Graded(c, o.on, o.grade, 1)
          BY <3>2 DEF Applied, RecordJudgment
        <4>2. o.on = k => c.judged[o.on] + 1 = 1
          BY <1>0, <2>0, <3>2 DEF Permitted, Recordable
        <4> QED BY <4>1, <4>2
      <3>3. CASE o.kind = "revise"
        BY <3>3 DEF Applied, ReviseJudgment
      <3> QED BY <1>1, <3>1, <3>2, <3>3
    <2>2. Entries(o, c, n) = {[rev |-> n, about |-> o.on,
                               nth |-> Applied(o, c).judged[o.on]]}
      BY <1>1 DEF Entries
    <2>3. CASE o.on = k
      <3>1. /\ Applied(o, c).judged[k] = c.judged[k] + 1
            /\ Applied(o, c).outcome[k] = o.grade
        BY <1>0, <2>0, <2>1, <2>3 DEF Graded
      <3>2. o.grade # NeedsReview
        BY <2>0 DEF Grades, NeedsReview
      <3> QED BY <2>2, <2>3, <3>1, <3>2
    <2>4. CASE o.on # k
      <3>1. /\ Applied(o, c).judged[k] = c.judged[k]
            /\ Applied(o, c).outcome[k] = c.outcome[k]
        BY <1>0, <2>0, <2>1, <2>4 DEF Graded
      <3> QED BY <2>2, <2>4, <3>1
    <2> QED BY <2>3, <2>4
  <1>2. CASE o.kind \in {"confirm", "dismiss"}
    <2>1. Entries(o, c, n) = {[rev |-> n, about |-> f, nth |-> 0] : f \in Touched(o, c)}
      BY <1>2 DEF Entries
    <2>2. Touched(o, c) \subseteq Findings
      BY <1>2, ChangeKinds DEF Touched
    <2>3. Applied(o, c) = [c EXCEPT !.flag = Resolved(o, c)]
      BY <1>2 DEF Applied
    <2>4. Applied(o, c).outcome = c.outcome /\ Applied(o, c).judged = c.judged
      BY <2>3 DEF Content
    <2> QED BY <2>1, <2>2, <2>4, NamesAssumption
  <1>3. CASE o.kind = "verify"
    <2>1. Entries(o, c, n) = {[rev |-> n, about |-> o.on, nth |-> 0]} /\ o.on \in Findings
      BY <1>3, ChangeKinds DEF Entries
    <2>2. Applied(o, c) = [c EXCEPT !.flag = [c.flag EXCEPT ![o.on] = Verified(c.flag[o.on])]]
      BY <1>3 DEF Applied
    <2>3. Applied(o, c).outcome = c.outcome /\ Applied(o, c).judged = c.judged
      BY <2>2 DEF Content
    <2> QED BY <2>1, <2>3, NamesAssumption
  <1>4. CASE o.kind \in {"decide", "reopen"}
    <2>1. Entries(o, c, n) = {[rev |-> n, about |-> "report", nth |-> 0]}
      BY <1>4 DEF Entries
    <2>2. Applied(o, c) = c
      BY <1>4 DEF Applied
    <2> QED BY <2>1, <2>2, NamesAssumption
  <1> QED BY <1>1, <1>2, <1>3, <1>4, ChangeKinds

LEMMA TrailCommit ==
  ASSUME IInv, TrailInv, NEW e \in Editors, Commit(e)
  PROVE  TrailInv'
  <1> DEFINE o == op[e].change
             n == report.rev + 1
             new == Entries(o, content, n)
  <1>1. /\ o \in Change /\ Permitted(o, content)
        /\ trail' = trail \union new /\ content' = Applied(o, content)
    <2>1. phase[e] = "writing"
      BY DEF Commit
    <2> QED BY <2>1, WriterHoldsRow DEF Commit
  <1>2. report.rev \in Nat /\ n \in Nat /\ content \in Content /\ trail \subseteq Entry
        /\ report'.rev = n
    BY CommitLeaves DEF IInv, TypeOK, Entry
  <1>3. {t.rev : t \in new} = {n}
    BY <1>1, <1>2, EntriesRevision
  <1> HIDE DEF new
  <1>4. {t.rev : t \in trail'} = 1..report'.rev
    <2>1. {t.rev : t \in trail} = 1..report.rev
      BY DEF TrailInv, TrailIsComplete
    <2>2. {t.rev : t \in trail'} = {t.rev : t \in trail} \union {t.rev : t \in new}
      BY <1>1
    <2>3. 1..n = (1..report.rev) \union {n}
      BY <1>2
    <2> QED BY <1>2, <1>3, <2>1, <2>2, <2>3
  <1>5. ASSUME NEW k \in Criteria
        PROVE  LET about == {t \in trail' : t.about = k}
               IN  /\ content'.outcome[k] = NeedsReview => content'.judged[k] = 0
                   /\ {t.nth : t \in about} = 1..content'.judged[k]
                   /\ \A s, t \in about : s.rev < t.rev <=> s.nth < t.nth
    <2> DEFINE old == {t \in trail : t.about = k}
               add == {t \in new : t.about = k}
               all == {t \in trail' : t.about = k}
               j == content.judged[k]
    <2>1. /\ content'.outcome[k] = NeedsReview => content'.judged[k] = 0
          /\ \/ add = {} /\ content'.judged[k] = j
             \/ /\ content'.judged[k] = j + 1
                /\ add = {[rev |-> n, about |-> k, nth |-> j + 1]}
      BY <1>1, <1>2, EntriesOfCriterion DEF TrailInv, new
    <2>2. all = old \union add
      BY <1>1
    <2>3. /\ {t.nth : t \in old} = 1..j
          /\ \A s, t \in old : s.rev < t.rev <=> s.nth < t.nth
      BY DEF TrailInv, TrailIsComplete
    <2>4. j \in Nat
      BY <1>2 DEF Content
    <2>5. \A t \in old : t.rev \in Nat /\ t.nth \in Nat /\ t.rev < n /\ t.nth <= j
      <3>1. \A t \in old : t.rev \in 1..report.rev
        BY DEF TrailInv, TrailIsComplete
      <3>2. \A t \in old : t.nth \in 1..j
        BY <2>3
      <3> QED BY <1>2, <2>4, <3>1, <3>2
    <2> HIDE DEF old, add, all, j
    <2>6. CASE add = {} /\ content'.judged[k] = j
      BY <2>1, <2>2, <2>3, <2>6 DEF all
    <2>7. CASE /\ content'.judged[k] = j + 1
               /\ add = {[rev |-> n, about |-> k, nth |-> j + 1]}
      <3>1. {t.nth : t \in all} = {t.nth : t \in old} \union {j + 1}
        <4>1. {t.nth : t \in add} = {j + 1}
          BY <2>7
        <4> QED BY <2>2, <4>1
      <3>2. 1..(j + 1) = (1..j) \union {j + 1}
        BY <2>4
      <3>3. {t.nth : t \in all} = 1..content'.judged[k]
        BY <2>3, <2>7, <3>1, <3>2
      <3>4. \A s, t \in all : s.rev < t.rev <=> s.nth < t.nth
        <4> SUFFICES ASSUME NEW s \in all, NEW t \in all
                     PROVE  s.rev < t.rev <=> s.nth < t.nth
          OBVIOUS
        <4>1. CASE s \in old /\ t \in old
          BY <2>3, <4>1
        <4>2. CASE s \in old /\ t \in add
          <5>1. t.rev = n /\ t.nth = j + 1
            BY <2>7, <4>2
          <5> QED BY <1>2, <2>4, <2>5, <4>2, <5>1
        <4>3. CASE s \in add /\ t \in old
          <5>1. s.rev = n /\ s.nth = j + 1
            BY <2>7, <4>3
          <5> QED BY <1>2, <2>4, <2>5, <4>3, <5>1
        <4>4. CASE s \in add /\ t \in add
          <5>1. s.rev = n /\ s.nth = j + 1 /\ t.rev = n /\ t.nth = j + 1
            BY <2>7, <4>4
          <5> QED BY <1>2, <2>4, <5>1
        <4> QED BY <2>2, <4>1, <4>2, <4>3, <4>4
      <3> QED BY <2>1, <3>3, <3>4 DEF all
    <2> QED BY <2>1, <2>6, <2>7
  <1> QED BY <1>4, <1>5 DEF TrailInv, TrailIsComplete

LEMMA TrailNext == IInv /\ TrailInv /\ [Next]_vars => TrailInv'
  <1> SUFFICES ASSUME IInv, TrailInv, [Next]_vars PROVE TrailInv'
    OBVIOUS
  <1>1. CASE \E e \in Editors : Commit(e)
    BY <1>1, TrailCommit
  <1>2. CASE ~ \E e \in Editors : Commit(e)
    <2>1. report' = report /\ content' = content
      BY <1>2, OnlyCommitsMove
    <2>2. trail' = trail
      BY <1>2 DEF Next, vars, StartRead, FinishRead, Abort, NothingToChange, Begin,
         Redeploy
    <2> QED BY <2>1, <2>2 DEF TrailInv, TrailIsComplete
  <1> QED BY <1>1, <1>2

\* The audit log explains every revision and numbers the judgments of every
\* criterion without a gap, in their order.
THEOREM TrailComplete == Spec => []TrailIsComplete
  <1>1. TrailInv => TrailIsComplete
    BY DEF TrailInv
  <1> QED BY Inductive, TrailInit, TrailNext, <1>1, PTL DEF Spec
=============================================================================
