-------------------------- MODULE ReportOutputs_proofs --------------------------
(***************************************************************************)
(* What ReportOutputs promises: of the links of a report, by an invariant  *)
(* of the locks of its requests; of the prepared documents, by one of what *)
(* a job has read and of who holds its file; and of the score, by what the *)
(* loop over the flag rows and the sums come to.                           *)
(***************************************************************************)
EXTENDS ReportOutputs, FiniteSetTheorems, WellFoundedInduction, TLAPS

\* The instances have operators of FiniteSets of their own.
LEMMA SameCount ==
  \A S : Share!Cardinality(S) = Cardinality(S) /\ Export!Cardinality(S) = Cardinality(S)
  BY DEF Cardinality, Share!Cardinality, Export!Cardinality

-----------------------------------------------------------------------------
(* Links: the invariant.                                                   *)

\* A row being changed is active until its transaction ends.
RowsInv ==
  /\ \E n \in 0..LastLink : made = 1..n
  /\ \A x \in Share!Links : linkLock[x] # Nothing =>
       /\ x \in Share!Active /\ reqOp[linkLock[x]] \in {"create", "revoke"}
       /\ reqAt[linkLock[x]] \in {"update", "report", "flags", "end"}
  /\ \A x \in Share!Links : recorded[x] # Nothing => recorded[x].report = recorded[x].flags
  /\ Cardinality(Share!Active) <= 1

\* A create has the run to itself; what was active before it is found.
Changing(q) ==
  /\ reqAt[q] \in {"find", "update"} => reqOp[q] \in {"create", "revoke"}
  /\ reqOp[q] = "create" /\ reqAt[q] \in {"find", "update", "report", "flags", "end"} =>
       runLock = q
  /\ reqAt[q] = "update" =>
       /\ reqOp[q] = "create" => Share!Active \subseteq todo[q] \union Share!Changed(q)
       /\ stood[q] \intersect Share!Active \subseteq todo[q] \union Share!Changed(q)
  /\ reqOp[q] = "create" /\ reqAt[q] \in {"report", "flags", "end"} =>
       Share!Active \subseteq Share!Changed(q)
  /\ stood[q] \subseteq made
  /\ answer[q] # Nothing => reqAt[q] = "done"
  /\ answer[q] # "collided"
  /\ reqOp[q] \in {"create", "revoke"} /\ answer[q] \in {"ok", "none"} =>
       stood[q] \intersect Share!Active = {}

\* Who has read the report keeps the assessment from being changed.
Reading(q) ==
  /\ reqAt[q] \in {"idle", "asked", "find", "update", "report"} => got[q] = Share!Unread
  /\ reqAt[q] \in {"report", "flags"} => reqOp[q] \in {"create", "read"}
  /\ reqAt[q] = "end" => reqOp[q] \in {"create", "read", "write"}
  /\ reqAt[q] = "flags" => q \in sharedReaders /\ got[q].report = sharedRevision
  /\ reqAt[q] = "end" /\ reqOp[q] \in {"create", "read"} =>
       \/ q \in sharedReaders /\ got[q].report = sharedRevision /\ got[q].flags = sharedRevision
       \/ reqOp[q] = "create" /\ got[q] = Share!Unread
  /\ reqAt[q] = "end" /\ reqOp[q] = "write" => sharedWriter = q
  /\ reqOp[q] = "read" /\ reqAt[q] # "idle" => link[q] \in made

SharedInv == Share!TypeOK /\ RowsInv /\ \A q \in Requests : Changing(q) /\ Reading(q)

-----------------------------------------------------------------------------
(* Links: what a step leaves to the other requests.                        *)

Apart(q) ==
  \A p \in Requests \ {q} :
    /\ reqAt'[p] = reqAt[p] /\ reqOp'[p] = reqOp[p]
        /\ link'[p] = link[p] /\ todo'[p] = todo[p]
    /\ got'[p] = got[p] /\ answer'[p] = answer[p] /\ stood'[p] = stood[p]
    /\ runLock' = p <=> runLock = p
    /\ p \in sharedReaders' <=> p \in sharedReaders
    /\ sharedWriter' = p <=> sharedWriter = p
    /\ \A x \in Share!Links : linkLock'[x] = p <=> linkLock[x] = p

\* Links become active only as new ones, made under the lock of the run.
Grows(q) ==
  /\ made \subseteq made'
  /\ \/ Share!Active' \subseteq Share!Active
     \/ runLock = q /\ Share!Active' \intersect made \subseteq Share!Active
  /\ sharedRevision' = sharedRevision \/ sharedReaders = {}

LEMMA OthersKeep ==
  ASSUME SharedInv, NEW q \in Requests, Apart(q), Grows(q)
  PROVE  \A p \in Requests \ {q} : Changing(p)' /\ Reading(p)'
  <1> SUFFICES ASSUME NEW p \in Requests \ {q} PROVE Changing(p)' /\ Reading(p)'
    OBVIOUS
  <1>1. /\ reqAt'[p] = reqAt[p] /\ reqOp'[p] = reqOp[p]
        /\ link'[p] = link[p] /\ todo'[p] = todo[p]
        /\ got'[p] = got[p] /\ answer'[p] = answer[p] /\ stood'[p] = stood[p]
        /\ runLock' = p <=> runLock = p
        /\ p \in sharedReaders' <=> p \in sharedReaders
        /\ sharedWriter' = p <=> sharedWriter = p
        /\ Share!Changed(p)' = Share!Changed(p)
        /\ Changing(p) /\ Reading(p) /\ stood[p] \subseteq made
    BY DEF Apart, SharedInv, Changing, Share!Changed
  <1>2. stood[p] \intersect Share!Active' \subseteq stood[p] \intersect Share!Active
    BY <1>1 DEF Grows
  <1>3. reqOp[p] = "create" /\ reqAt[p] \in {"find", "update", "report", "flags", "end"} =>
          Share!Active' \subseteq Share!Active
    BY <1>1 DEF Grows, Changing
  <1>4. Changing(p)'
    BY <1>1, <1>2, <1>3 DEF Changing, Grows
  <1>5. Reading(p)'
    BY <1>1 DEF Reading, Grows
  <1> QED BY <1>4, <1>5

LEMMA Answered ==
  ASSUME Share!TypeOK, NEW q \in Requests, NEW what, Share!Answer(q, what)
  PROVE  /\ reqAt'[q] = "done" /\ answer'[q] = what
         /\ \A p \in Requests \ {q} :
              /\ reqAt'[p] = reqAt[p] /\ answer'[p] = answer[p]
              /\ runLock' = p <=> runLock = p
              /\ p \in sharedReaders' <=> p \in sharedReaders
              /\ sharedWriter' = p <=> sharedWriter = p
              /\ \A x \in Share!Links : linkLock'[x] = p <=> linkLock[x] = p
         /\ \A x \in Share!Links : linkLock'[x] # Nothing =>
              linkLock'[x] = linkLock[x] /\ linkLock[x] # q
         /\ \A x \in Share!Links : linkLock'[x] \in {linkLock[x], Nothing}
  BY LinksAssumption DEF Share!Answer, Share!Goto, Share!TypeOK, Share!ShareAssumption

LEMMA AnswerTypes ==
  ASSUME Share!TypeOK, NEW q \in Requests, NEW what \in Share!Replies, Share!Answer(q, what)
  PROVE  /\ reqAt' \in [Requests -> Share!Places] /\ answer' \in [Requests -> Share!Answers]
         /\ runLock' \in Requests \union {Nothing} /\ sharedWriter' \in Requests \union {Nothing}
         /\ linkLock' \in [Share!Links -> Requests \union {Nothing}]
         /\ sharedReaders' \subseteq Requests /\ (sharedWriter' # Nothing => sharedReaders' = {})
  BY DEF Share!Answer, Share!Goto, Share!TypeOK, Share!Places, Share!Answers

\* A request that holds a row may do so where it goes.
MayHold(q) ==
  reqOp'[q] \in {"create", "revoke"} /\ reqAt'[q] \in {"update", "report", "flags", "end"}

LEMMA QuietRows ==
  ASSUME Share!TypeOK, RowsInv, NEW q \in Requests, Apart(q),
         UNCHANGED <<made, revoked, recorded, linkLock>>,
         Share!Changed(q) # {} => MayHold(q)
  PROVE  RowsInv'
  <1>1. Share!Active' = Share!Active
    BY DEF Share!Active
  <1>2. \A x \in Share!Links : linkLock[x] # Nothing => linkLock[x] \in Requests
    BY DEF Share!TypeOK
  <1>3. ASSUME NEW x \in Share!Links, linkLock[x] # Nothing
        PROVE  /\ reqOp'[linkLock[x]] \in {"create", "revoke"}
               /\ reqAt'[linkLock[x]] \in {"update", "report", "flags", "end"}
    <2>1. CASE linkLock[x] = q
      BY <1>3, <2>1 DEF Share!Changed, MayHold
    <2>2. CASE linkLock[x] # q
      BY <1>2, <1>3, <2>2 DEF RowsInv, Apart
    <2> QED BY <2>1, <2>2
  <1> QED BY <1>1, <1>3 DEF RowsInv

LEMMA AnsweredRows ==
  ASSUME Share!TypeOK, RowsInv, NEW q \in Requests, NEW what, Share!Answer(q, what), Apart(q),
         UNCHANGED <<made, revoked, recorded>>
  PROVE  RowsInv'
  <1>1. Share!Active' = Share!Active
    BY DEF Share!Active
  <1>2. \A x \in Share!Links : linkLock[x] # Nothing => linkLock[x] \in Requests
    BY DEF Share!TypeOK
  <1>3. ASSUME NEW x \in Share!Links, linkLock'[x] # Nothing
        PROVE  linkLock'[x] = linkLock[x] /\ linkLock[x] \in Requests \ {q}
    BY <1>2, <1>3, Answered
  <1>4. ASSUME NEW x \in Share!Links, linkLock'[x] # Nothing
        PROVE  /\ x \in Share!Active /\ reqOp'[linkLock'[x]] \in {"create", "revoke"}
               /\ reqAt'[linkLock'[x]] \in {"update", "report", "flags", "end"}
    BY <1>3, <1>4 DEF RowsInv, Apart
  <1> QED BY <1>1, <1>4 DEF RowsInv

LEMMA Moved ==
  ASSUME SharedInv, NEW q \in Requests, Apart(q), Grows(q),
         Share!TypeOK', RowsInv', Changing(q)', Reading(q)'
  PROVE  SharedInv'
  BY OthersKeep DEF SharedInv

-----------------------------------------------------------------------------
(* Links: the steps.                                                       *)

LEMMA AskSteps ==
  ASSUME SharedInv, NEW q \in Requests, 
         NEW o \in {"create", "revoke", "read", "write"}, Share!Ask(q, o)
  PROVE  SharedInv'
  <1>1. Share!TypeOK /\ RowsInv /\ Changing(q) /\ Reading(q)
    BY DEF SharedInv
  <1>2. /\ reqAt'[q] = "asked" /\ reqOp'[q] = o /\ stood'[q] = Share!Active
        /\ UNCHANGED <<Share!table, Share!locks, todo, got, answer>>
    BY <1>1 DEF Share!Ask, Share!Goto, Share!TypeOK
  <1>3. o = "read" => link'[q] \in made
    BY <1>1 DEF Share!Ask, Share!TypeOK
  <1>4. Share!TypeOK'
    <2>1. /\ reqAt' = [reqAt EXCEPT ![q] = "asked"] /\ reqOp' = [reqOp EXCEPT ![q] = o]
          /\ stood' = [stood EXCEPT ![q] = Share!Active]
          /\ UNCHANGED <<Share!table, Share!locks, todo, got, answer, deaths>>
      BY DEF Share!Ask, Share!Goto
    <2>2. link' \in [Requests -> 0..LastLink]
      <3>1. link \in [Requests -> 0..LastLink] /\ made \subseteq 0..LastLink
        BY <1>1 DEF Share!TypeOK, Share!Links
      <3>2. link' = link \/ \E x \in made : link' = [link EXCEPT ![q] = x]
        BY DEF Share!Ask
      <3> QED BY <3>1, <3>2
    <2>3. /\ reqAt' \in [Requests -> Share!Places]
          /\ reqOp' \in [Requests -> {"create", "revoke", "read", "write"}]
      BY <1>1, <2>1 DEF Share!TypeOK, Share!Places
    <2>4. stood' \in [Requests -> SUBSET Share!Links]
      <3>1. Share!Active \in SUBSET Share!Links /\ stood \in [Requests -> SUBSET Share!Links]
        BY <1>1 DEF Share!TypeOK, Share!Active
      <3> QED BY <2>1, <3>1
    <2> QED BY <1>1, <2>1, <2>2, <2>3, <2>4 DEF Share!TypeOK, Share!table, Share!locks
  <1>5. Apart(q) /\ Grows(q)
    BY <1>1 DEF Share!Ask, Share!Goto, Share!TypeOK, Share!table, Share!locks, Apart, Grows,
       Share!Active
  <1>6. Share!Changed(q) = {}
    BY <1>1, LinksAssumption DEF Share!Changed, RowsInv, Share!Ask, Share!ShareAssumption
  <1>7. RowsInv'
    BY <1>1, <1>2, <1>5, <1>6, QuietRows DEF Share!table, Share!locks
  <1>8. Changing(q)'
    BY <1>1, <1>2, LinksAssumption DEF Changing, Share!Ask, Share!table, Share!locks,
       Share!Active, Share!ShareAssumption, Share!Replies
  <1>9. Reading(q)'
    BY <1>1, <1>2, <1>3 DEF Reading, Share!Ask, Share!table, Share!locks
  <1> QED BY <1>4, <1>5, <1>7, <1>8, <1>9, Moved

LEMMA LockRunSteps ==
  ASSUME SharedInv, NEW q \in Requests, Share!LockRun(q)
  PROVE  SharedInv'
  <1>1. Share!TypeOK /\ RowsInv /\ Changing(q) /\ Reading(q)
    BY DEF SharedInv
  <1>2. reqAt'[q] = "find" /\ reqAt[q] = "asked" /\ reqOp[q] = "create" /\ runLock' = q
    BY <1>1 DEF Share!LockRun, Share!Goto, Share!TypeOK
  <1>3. UNCHANGED <<Share!table, linkLock, sharedWriter, sharedReaders, Share!local, answer>>
    BY DEF Share!LockRun
  <1>4. Share!TypeOK'
    BY <1>1 DEF Share!LockRun, Share!Goto, Share!TypeOK, Share!table, Share!local, Share!Places
  <1>5. Apart(q) /\ Grows(q)
    BY <1>1, LinksAssumption DEF Share!LockRun, Share!Goto, Share!TypeOK, Share!table,
       Share!local, Apart, Grows, Share!Active, Share!ShareAssumption
  <1>6. Share!Changed(q) = {}
    BY <1>1, <1>2, LinksAssumption DEF Share!Changed, RowsInv, Share!ShareAssumption
  <1>7. RowsInv'
    BY <1>1, <1>3, <1>5, <1>6, QuietRows DEF Share!table
  <1>8. Changing(q)'
    BY <1>1, <1>2, <1>3 DEF Changing, Share!table, Share!local, Share!Active
  <1>9. Reading(q)'
    BY <1>1, <1>2, <1>3 DEF Reading, Share!table, Share!local
  <1> QED BY <1>4, <1>5, <1>7, <1>8, <1>9, Moved

LEMMA StartRevokeSteps ==
  ASSUME SharedInv, NEW q \in Requests, Share!StartRevoke(q)
  PROVE  SharedInv'
  <1>1. Share!TypeOK /\ RowsInv /\ Changing(q) /\ Reading(q)
    BY DEF SharedInv
  <1>2. reqAt'[q] = "find" /\ reqAt[q] = "asked" /\ reqOp[q] = "revoke"
    BY <1>1 DEF Share!StartRevoke, Share!Goto, Share!TypeOK
  <1>3. UNCHANGED <<Share!table, Share!locks, Share!local, answer>>
    BY DEF Share!StartRevoke
  <1>4. Share!TypeOK'
    BY <1>1 DEF Share!StartRevoke, Share!Goto, Share!TypeOK, Share!table, Share!local,
       Share!locks, Share!Places
  <1>5. Apart(q) /\ Grows(q)
    BY <1>1 DEF Share!StartRevoke, Share!Goto, Share!TypeOK, Share!table, Share!local,
       Share!locks, Apart, Grows, Share!Active
  <1>6. Share!Changed(q) = {}
    BY <1>1, <1>2, LinksAssumption DEF Share!Changed, RowsInv, Share!ShareAssumption
  <1>7. RowsInv'
    BY <1>1, <1>3, <1>5, <1>6, QuietRows DEF Share!table, Share!locks
  <1>8. Changing(q)'
    BY <1>1, <1>2, <1>3 DEF Changing, Share!table, Share!local, Share!locks, Share!Active
  <1>9. Reading(q)'
    BY <1>1, <1>2, <1>3 DEF Reading, Share!table, Share!local, Share!locks
  <1> QED BY <1>4, <1>5, <1>7, <1>8, <1>9, Moved

LEMMA FindSteps ==
  ASSUME SharedInv, NEW q \in Requests, Share!Find(q)
  PROVE  SharedInv'
  <1>1. Share!TypeOK /\ RowsInv /\ Changing(q) /\ Reading(q)
    BY DEF SharedInv
  <1>2. reqAt'[q] = "update" /\ reqAt[q] = "find" /\ todo'[q] = Share!Active
    BY <1>1 DEF Share!Find, Share!Goto, Share!TypeOK
  <1>3. UNCHANGED <<Share!table, Share!locks, reqOp, link, got, stood, answer>>
    BY DEF Share!Find
  <1>4. Share!TypeOK'
    BY <1>1 DEF Share!Find, Share!Goto, Share!TypeOK, Share!table, Share!locks, Share!Places,
       Share!Active
  <1>5. Apart(q) /\ Grows(q)
    BY <1>1 DEF Share!Find, Share!Goto, Share!TypeOK, Share!table, Share!locks, Apart, Grows,
       Share!Active
  <1>6. Share!Changed(q) = {}
    BY <1>1, <1>2, LinksAssumption DEF Share!Changed, RowsInv, Share!ShareAssumption
  <1>7. RowsInv'
    BY <1>1, <1>3, <1>5, <1>6, QuietRows DEF Share!table, Share!locks
  <1>8. Changing(q)'
    BY <1>1, <1>2, <1>3 DEF Changing, Share!table, Share!locks, Share!Active
  <1>9. Reading(q)'
    BY <1>1, <1>2, <1>3 DEF Reading, Changing, Share!table, Share!locks
  <1> QED BY <1>4, <1>5, <1>7, <1>8, <1>9, Moved

LEMMA RecordSteps ==
  ASSUME SharedInv, NEW q \in Requests, Share!Record(q)
  PROVE  SharedInv'
  <1>1. Share!TypeOK /\ RowsInv /\ Changing(q) /\ Reading(q)
    BY DEF SharedInv
  <1>2. /\ reqAt'[q] \in {"report", "end"} /\ reqAt[q] = "update"
        /\ reqOp[q] = "create" /\ todo[q] = {}
    BY <1>1 DEF Share!Record, Share!Goto, Share!TypeOK
  <1>3. UNCHANGED <<Share!table, Share!locks, Share!local, answer>>
    BY DEF Share!Record
  <1>4. Share!TypeOK'
    BY <1>1 DEF Share!Record, Share!Goto, Share!TypeOK, Share!table, Share!local, Share!locks,
       Share!Places
  <1>5. Apart(q) /\ Grows(q)
    BY <1>1 DEF Share!Record, Share!Goto, Share!TypeOK, Share!table, Share!local, Share!locks,
       Apart, Grows, Share!Active
  <1>6. MayHold(q)
    BY <1>2, <1>3 DEF MayHold, Share!local
  <1>7. RowsInv'
    BY <1>1, <1>3, <1>5, <1>6, QuietRows DEF Share!table, Share!locks
  <1>8. Changing(q)'
    BY <1>1, <1>2, <1>3
       DEF Changing, Share!table, Share!local, Share!locks, Share!Active, Share!Changed
  <1>9. Reading(q)'
    BY <1>1, <1>2, <1>3 DEF Reading, Share!table, Share!local, Share!locks
  <1> QED BY <1>4, <1>5, <1>7, <1>8, <1>9, Moved

LEMMA ReadReportSteps ==
  ASSUME SharedInv, NEW q \in Requests, Share!ReadReport(q)
  PROVE  SharedInv'
  <1>1. Share!TypeOK /\ RowsInv /\ Changing(q) /\ Reading(q)
    BY DEF SharedInv
  <1>2. /\ reqAt'[q] = "flags" /\ reqAt[q] = "report" /\ sharedWriter = Nothing
        /\ sharedReaders' = sharedReaders \union {q} /\ got'[q].report = sharedRevision
    BY <1>1 DEF Share!ReadReport, Share!Goto, Share!TypeOK
  <1>3. UNCHANGED <<Share!table, runLock, linkLock, sharedWriter, reqOp, link, todo, stood,
                    answer>>
    BY DEF Share!ReadReport
  <1>4. Share!TypeOK'
    BY <1>1 DEF Share!ReadReport, Share!Goto, Share!TypeOK, Share!table, Share!Places
  <1>5. Apart(q) /\ Grows(q)
    BY <1>1
       DEF Share!ReadReport, Share!Goto, Share!TypeOK, Share!table, Apart, Grows, Share!Active
  <1>6. Share!Changed(q) # {} => MayHold(q)
    BY <1>1, <1>2, <1>3, LinksAssumption
       DEF MayHold, Share!Changed, RowsInv, Share!ShareAssumption
  <1>7. RowsInv'
    BY <1>1, <1>3, <1>5, <1>6, QuietRows DEF Share!table
  <1>8. Changing(q)'
    BY <1>1, <1>2, <1>3 DEF Changing, Share!table, Share!Active, Share!Changed
  <1>9. Reading(q)'
    BY <1>1, <1>2, <1>3 DEF Reading, Share!table
  <1> QED BY <1>4, <1>5, <1>7, <1>8, <1>9, Moved

LEMMA ReadFlagsSteps ==
  ASSUME SharedInv, NEW q \in Requests, Share!ReadFlags(q)
  PROVE  SharedInv'
  <1>1. Share!TypeOK /\ RowsInv /\ Changing(q) /\ Reading(q)
    BY DEF SharedInv
  <1>2. /\ reqAt'[q] = "end" /\ reqAt[q] = "flags"
        /\ got'[q].flags = sharedRevision /\ got'[q].report = got[q].report
    BY <1>1 DEF Share!ReadFlags, Share!Goto, Share!TypeOK
  <1>3. UNCHANGED <<Share!table, Share!locks, reqOp, link, todo, stood, answer>>
    BY DEF Share!ReadFlags
  <1>4. Share!TypeOK'
    BY <1>1 DEF Share!ReadFlags, Share!Goto, Share!TypeOK, Share!table, Share!locks, Share!Places
  <1>5. Apart(q) /\ Grows(q)
    BY <1>1 DEF Share!ReadFlags, Share!Goto, Share!TypeOK, Share!table, Share!locks, Apart,
       Grows, Share!Active
  <1>6. Share!Changed(q) # {} => MayHold(q)
    BY <1>1, <1>2, <1>3, LinksAssumption
       DEF MayHold, Share!Changed, RowsInv, Share!ShareAssumption
  <1>7. RowsInv'
    BY <1>1, <1>3, <1>5, <1>6, QuietRows DEF Share!table, Share!locks
  <1>8. Changing(q)'
    BY <1>1, <1>2, <1>3 DEF Changing, Share!table, Share!locks, Share!Active, Share!Changed
  <1>9. Reading(q)'
    BY <1>1, <1>2, <1>3 DEF Reading, Share!table, Share!locks
  <1> QED BY <1>4, <1>5, <1>7, <1>8, <1>9, Moved

LEMMA LockReportSteps ==
  ASSUME SharedInv, NEW q \in Requests, Share!LockReport(q)
  PROVE  SharedInv'
  <1>1. Share!TypeOK /\ RowsInv /\ Changing(q) /\ Reading(q)
    BY DEF SharedInv
  <1>2. reqAt'[q] = "end" /\ reqAt[q] = "asked" /\ reqOp[q] = "write" /\ sharedWriter' = q
    BY <1>1 DEF Share!LockReport, Share!Goto, Share!TypeOK
  <1>3. UNCHANGED <<Share!table, runLock, linkLock, sharedReaders, Share!local, answer>>
    BY DEF Share!LockReport
  <1>4. Share!TypeOK'
    BY <1>1 DEF Share!LockReport, Share!Goto, Share!TypeOK, Share!table, Share!local, Share!Places
  <1>5. Apart(q) /\ Grows(q)
    BY <1>1, LinksAssumption DEF Share!LockReport, Share!Goto, Share!TypeOK, Share!table,
       Share!local, Apart, Grows, Share!Active, Share!ShareAssumption
  <1>6. Share!Changed(q) = {}
    BY <1>1, <1>2, LinksAssumption DEF Share!Changed, RowsInv, Share!ShareAssumption
  <1>7. RowsInv'
    BY <1>1, <1>3, <1>5, <1>6, QuietRows DEF Share!table
  <1>8. Changing(q)'
    BY <1>1, <1>2, <1>3 DEF Changing, Share!table, Share!local, Share!Active
  <1>9. Reading(q)'
    BY <1>1, <1>2, <1>3 DEF Reading, Share!table, Share!local
  <1> QED BY <1>4, <1>5, <1>7, <1>8, <1>9, Moved

\* An answer that tells of no change.
LEMMA PlainAnswers ==
  ASSUME SharedInv, NEW q \in Requests, NEW what \in {"gone", "conflict", "served", "lost"},
         reqAt[q] # "idle", Share!Answer(q, what), UNCHANGED <<Share!table, Share!local>>,
         deaths' \in 0..MaxDeaths
  PROVE  SharedInv'
  <1>1. Share!TypeOK /\ RowsInv /\ Changing(q) /\ Reading(q)
    BY DEF SharedInv
  <1>2. reqAt'[q] = "done" /\ answer'[q] = what
    BY <1>1, Answered
  <1>3. Share!TypeOK'
    BY <1>1, AnswerTypes DEF Share!TypeOK, Share!table, Share!local, Share!Replies
  <1>4. Apart(q) /\ Grows(q)
    BY <1>1, Answered DEF Share!table, Share!local, Apart, Grows, Share!Active
  <1>5. RowsInv'
    BY <1>1, <1>4, AnsweredRows DEF Share!table
  <1>6. Changing(q)'
    BY <1>1, <1>2 DEF Changing, Share!table, Share!local
  <1>7. Reading(q)'
    BY <1>1, <1>2 DEF Reading, Share!table, Share!local, Share!Answer, Share!Goto, Share!TypeOK
  <1> QED BY <1>3, <1>4, <1>5, <1>6, <1>7, Moved

LEMMA OpenSteps ==
  ASSUME SharedInv, NEW q \in Requests, Share!Open(q)
  PROVE  SharedInv'
  <1>1. Share!TypeOK /\ RowsInv /\ Changing(q) /\ Reading(q)
    BY DEF SharedInv
  <1>2. reqAt[q] = "asked" /\ reqOp[q] = "read" /\ UNCHANGED <<Share!table, Share!local, deaths>>
    BY DEF Share!Open
  <1>3. CASE \E what \in {"gone", "conflict"} : Share!Answer(q, what)
    <2>1. deaths' \in 0..MaxDeaths
      BY <1>1, <1>2 DEF Share!TypeOK
    <2> QED BY <1>2, <1>3, <2>1, PlainAnswers
  <1>4. CASE Share!Goto(q, "report") /\ UNCHANGED <<Share!locks, answer>>
    <2>1. reqAt'[q] = "report"
      BY <1>1, <1>4 DEF Share!Goto, Share!TypeOK
    <2>2. Share!TypeOK'
      BY <1>1, <1>2, <1>4
         DEF Share!Goto, Share!TypeOK, Share!table, Share!local, Share!locks, Share!Places
    <2>3. Apart(q) /\ Grows(q)
      BY <1>1, <1>2, <1>4 DEF Share!Goto, Share!TypeOK, Share!table, Share!local, Share!locks,
         Apart, Grows, Share!Active
    <2>4. Share!Changed(q) = {}
      BY <1>1, <1>2, LinksAssumption DEF Share!Changed, RowsInv, Share!ShareAssumption
    <2>5. RowsInv'
      BY <1>1, <1>2, <1>4, <2>3, <2>4, QuietRows DEF Share!table, Share!locks
    <2>6. Changing(q)'
      BY <1>1, <1>2, <1>4, <2>1 DEF Changing, Share!table, Share!local, Share!locks, Share!Active
    <2>7. Reading(q)'
      BY <1>1, <1>2, <1>4, <2>1 DEF Reading, Share!table, Share!local, Share!locks
    <2> QED BY <2>2, <2>3, <2>5, <2>6, <2>7, Moved
  <1> QED BY <1>3, <1>4 DEF Share!Open

LEMMA UpdateSteps ==
  ASSUME SharedInv, NEW q \in Requests, Share!Update(q)
  PROVE  SharedInv'
  <1>1. Share!TypeOK /\ RowsInv /\ Changing(q) /\ Reading(q)
    BY DEF SharedInv
  <1>2. PICK x \in todo[q] :
          /\ linkLock[x] = Nothing
          /\ todo' = [todo EXCEPT ![q] = @ \ {x}]
          /\ linkLock' = IF x \in Share!Active THEN [linkLock EXCEPT ![x] = q] ELSE linkLock
    BY DEF Share!Update
  <1>3. reqAt[q] = "update" /\ reqOp[q] \in {"create", "revoke"} /\ x \in Share!Links
    BY <1>1 DEF Share!Update, Share!TypeOK, Changing
  <1>4. UNCHANGED <<Share!table, runLock, sharedWriter, sharedReaders, reqOp, link, got, stood,
                    reqAt, answer>>
    BY DEF Share!Update
  <1>5. todo'[q] = todo[q] \ {x}
    BY <1>1, <1>2 DEF Share!TypeOK
  <1>6. \A y \in Share!Links :
          linkLock'[y] = IF y = x /\ x \in Share!Active THEN q ELSE linkLock[y]
    BY <1>1, <1>2, <1>3 DEF Share!TypeOK
  <1>7. Share!TypeOK'
    BY <1>1, <1>2, <1>3, <1>4 DEF Share!Update, Share!TypeOK, Share!table
  <1>8. Apart(q) /\ Grows(q)
    BY <1>1, <1>2, <1>4, <1>6, LinksAssumption
       DEF Share!TypeOK, Share!table, Apart, Grows, Share!Active, Share!ShareAssumption
  <1>9. RowsInv'
    BY <1>1, <1>3, <1>4, <1>6 DEF RowsInv, Share!table, Share!Active
  <1>10. Share!Active' = Share!Active
    BY <1>4 DEF Share!Active, Share!table
  <1>11. Share!Changed(q)' = Share!Changed(q) \union ({x} \intersect Share!Active)
    BY <1>2, <1>3, <1>6, LinksAssumption DEF Share!Changed, Share!ShareAssumption
  <1>12. Changing(q)'
    BY <1>1, <1>3, <1>4, <1>5, <1>10, <1>11 DEF Changing, Share!table
  <1>13. Reading(q)'
    BY <1>1, <1>3, <1>4 DEF Reading, Share!table
  <1> QED BY <1>7, <1>8, <1>9, <1>12, <1>13, Moved

LEMMA ActiveFinite ==
  ASSUME Share!TypeOK, RowsInv
  PROVE  IsFiniteSet(made) /\ IsFiniteSet(Share!Active)
  <1>1. PICK n \in 0..LastLink : made = 1..n
    BY DEF RowsInv
  <1>2. IsFiniteSet(made)
    BY <1>1, FS_Interval
  <1> QED BY <1>2, FS_Subset DEF Share!Active

LEMMA RevokeSteps ==
  ASSUME SharedInv, NEW q \in Requests, Share!Revoke(q)
  PROVE  SharedInv'
  <1>1. Share!TypeOK /\ RowsInv /\ Changing(q) /\ Reading(q)
    BY DEF SharedInv
  <1>2. PICK what \in {"ok", "none"} : Share!Answer(q, what)
    BY DEF Share!Revoke
  <1>3. /\ reqAt[q] = "update" /\ reqOp[q] = "revoke" /\ todo[q] = {}
        /\ revoked' = revoked \union Share!Changed(q)
        /\ UNCHANGED <<made, expired, recorded, sharedDone, sharedRevision, Share!local, deaths>>
    BY DEF Share!Revoke
  <1>4. reqAt'[q] = "done" /\ answer'[q] = what
    BY <1>1, <1>2, Answered
  <1>5. Share!Changed(q) \subseteq made
    BY <1>1, LinksAssumption DEF Share!Changed, RowsInv, Share!Active, Share!ShareAssumption
  <1>6. Share!TypeOK'
    BY <1>1, <1>2, <1>3, <1>5, AnswerTypes DEF Share!TypeOK, Share!local, Share!Replies
  <1>7. Share!Active' = Share!Active \ Share!Changed(q)
    BY <1>3 DEF Share!Active
  <1>8. Apart(q) /\ Grows(q)
    BY <1>1, <1>2, <1>3, <1>7, Answered DEF Share!local, Apart, Grows
  <1>9. RowsInv'
    <2>1. \A x \in Share!Links : linkLock[x] # Nothing => linkLock[x] \in Requests
      BY <1>1 DEF Share!TypeOK
    <2>2. ASSUME NEW x \in Share!Links, linkLock'[x] # Nothing
          PROVE  /\ linkLock'[x] = linkLock[x] /\ linkLock[x] # Nothing
                 /\ linkLock[x] \in Requests \ {q}
      BY <1>1, <1>2, <2>1, <2>2, Answered
    <2>3. ASSUME NEW x \in Share!Links, linkLock'[x] # Nothing
          PROVE  /\ x \in Share!Active' /\ reqOp'[linkLock'[x]] \in {"create", "revoke"}
                 /\ reqAt'[linkLock'[x]] \in {"update", "report", "flags", "end"}
      <3>1. x \in Share!Active /\ x \notin Share!Changed(q)
        BY <1>1, <2>2, <2>3 DEF RowsInv, Share!Changed
      <3> QED BY <1>1, <1>7, <1>8, <2>2, <2>3, <3>1 DEF RowsInv, Apart
    <2>4. Cardinality(Share!Active') <= 1
      <3>1. /\ Cardinality(Share!Active') <= Cardinality(Share!Active)
            /\ Cardinality(Share!Active) <= 1
        BY <1>1, <1>7, ActiveFinite, FS_Subset DEF RowsInv
      <3>2. Cardinality(Share!Active) \in Nat /\ Cardinality(Share!Active') \in Nat
        BY <1>1, <1>7, ActiveFinite, FS_Subset, FS_CardinalityType
      <3> QED BY <3>1, <3>2
    <2> QED BY <1>1, <1>3, <2>3, <2>4 DEF RowsInv
  <1>10. Changing(q)'
    BY <1>1, <1>3, <1>4, <1>7 DEF Changing, Share!local
  <1>11. Reading(q)'
    BY <1>1, <1>3, <1>4 DEF Reading, Share!local
  <1> QED BY <1>6, <1>8, <1>9, <1>10, <1>11, Moved

LEMMA CommitSteps ==
  ASSUME SharedInv, NEW q \in Requests, Share!Commit(q)
  PROVE  SharedInv'
  <1>1. Share!TypeOK /\ RowsInv /\ Changing(q) /\ Reading(q)
    BY DEF SharedInv
  <1>2. PICK n \in 0..LastLink : made = 1..n
    BY <1>1 DEF RowsInv
  <1>3. Cardinality(made) = n
    BY <1>2, FS_Interval, LinksAssumption DEF Share!ShareAssumption
  <1>4. PICK x : x = Cardinality(made) + 1
    OBVIOUS
  <1>5. x = n + 1 /\ x \in Share!Links /\ x \notin made /\ made \union {x} = 1..x
    BY <1>2, <1>3, <1>4, LinksAssumption DEF Share!Commit, Share!Links, Share!ShareAssumption
  <1>6. /\ reqAt[q] = "end" /\ reqOp[q] = "create"
        /\ Share!Active \ Share!Changed(q) = {} /\ x \notin revoked
    BY <1>1, <1>5 DEF Share!Commit, Changing, Share!TypeOK
  <1>7. /\ made' = made \union {x}
        /\ revoked' = revoked \union Share!Changed(q)
        /\ recorded' = IF got[q] = Share!Unread THEN recorded ELSE [recorded EXCEPT ![x] = got[q]]
        /\ link' = [link EXCEPT ![q] = x]
        /\ Share!Answer(q, "ok")
        /\ UNCHANGED <<expired, sharedDone, sharedRevision, reqOp, todo, got, stood, deaths>>
    BY <1>4, <1>6, SameCount DEF Share!Commit
  <1>8. reqAt'[q] = "done" /\ answer'[q] = "ok" /\ link'[q] = x
    BY <1>1, <1>7, Answered DEF Share!TypeOK
  <1>9. Share!Changed(q) \subseteq Share!Active
    BY <1>1, LinksAssumption DEF Share!Changed, RowsInv, Share!ShareAssumption
  <1>10. Share!Active' = {x}
    BY <1>5, <1>6, <1>7, <1>9 DEF Share!Active
  <1>11. got[q] # Share!Unread => /\ got[q].report = got[q].flags
                            /\ got[q] \in [report : 0..MaxChanges, flags : 0..MaxChanges]
    BY <1>1, <1>6 DEF Reading, Share!TypeOK
  <1>12. Share!TypeOK'
    <2>1. recorded' \in
            [Share!Links -> {Nothing} \union [report : 0..MaxChanges, flags : 0..MaxChanges]]
      BY <1>1, <1>7, <1>11 DEF Share!TypeOK
    <2>2. link' \in [Requests -> 0..LastLink]
      BY <1>1, <1>5, <1>7 DEF Share!TypeOK, Share!Links
    <2> QED
      BY <1>1, <1>5, <1>7, <1>9, <2>1, <2>2, AnswerTypes
         DEF Share!TypeOK, Share!Replies, Share!Active
  <1>13. Apart(q) /\ Grows(q)
    BY <1>1, <1>5, <1>6, <1>7, <1>10, Answered DEF Apart, Grows, Changing, Share!TypeOK
  <1>14. RowsInv'
    <2>1. \A y \in Share!Links : linkLock'[y] = Nothing
      <3>1. ASSUME NEW y \in Share!Links, linkLock'[y] # Nothing PROVE FALSE
        BY <1>1, <1>6, <1>7, <3>1, Answered DEF RowsInv, Share!Changed
      <3> QED BY <3>1
    <2>2. \A y \in Share!Links :
            recorded'[y] # Nothing => recorded'[y].report = recorded'[y].flags
      BY <1>1, <1>7, <1>11 DEF RowsInv, Share!TypeOK
    <2>3. Cardinality(Share!Active') <= 1
      <3>1. Cardinality({x}) = 1
        BY FS_Singleton
      <3> QED BY <1>10, <3>1
    <2>4. x \in 0..LastLink /\ made' = 1..x
      BY <1>5, <1>7 DEF Share!Links
    <2> QED BY <2>1, <2>2, <2>3, <2>4 DEF RowsInv
  <1>15. Changing(q)'
    BY <1>1, <1>5, <1>6, <1>7, <1>8, <1>10 DEF Changing
  <1>16. Reading(q)'
    BY <1>1, <1>6, <1>7, <1>8 DEF Reading
  <1> QED BY <1>12, <1>13, <1>14, <1>15, <1>16, Moved

LEMMA WriteSteps ==
  ASSUME SharedInv, NEW q \in Requests, Share!Write(q)
  PROVE  SharedInv'
  <1>1. Share!TypeOK /\ RowsInv /\ Changing(q) /\ Reading(q)
    BY DEF SharedInv
  <1>2. /\ reqAt[q] = "end" /\ reqOp[q] = "write" /\ Share!Answer(q, "ok")
        /\ sharedRevision' \in 0..MaxChanges
        /\ UNCHANGED <<made, revoked, expired, recorded, sharedDone, Share!local, deaths>>
    BY <1>1, LinksAssumption DEF Share!Write, Share!TypeOK, Share!ShareAssumption
  <1>3. reqAt'[q] = "done" /\ answer'[q] = "ok" /\ sharedReaders = {}
    BY <1>1, <1>2, Answered, LinksAssumption DEF Share!TypeOK, Reading, Share!ShareAssumption
  <1>4. Share!TypeOK'
    BY <1>1, <1>2, AnswerTypes DEF Share!TypeOK, Share!local, Share!Replies
  <1>5. Apart(q) /\ Grows(q)
    BY <1>1, <1>2, <1>3, Answered DEF Share!local, Apart, Grows, Share!Active
  <1>6. RowsInv'
    BY <1>1, <1>2, <1>5, AnsweredRows
  <1>7. Changing(q)'
    BY <1>1, <1>2, <1>3 DEF Changing, Share!local
  <1>8. Reading(q)'
    BY <1>1, <1>2, <1>3 DEF Reading, Share!local
  <1> QED BY <1>4, <1>5, <1>6, <1>7, <1>8, Moved

\* What no request does: a link expires, the run is finished.
LEMMA WorldSteps ==
  ASSUME SharedInv, (\E x \in Share!Links : Share!Expire(x)) \/ Share!FinishRun
  PROVE  SharedInv'
  <1>1. /\ UNCHANGED <<made, revoked, recorded, sharedRevision, Share!locks, Share!local, reqAt,
                       answer, deaths>>
        /\ expired' \in SUBSET (made \union expired) /\ sharedDone' \in {sharedDone, TRUE}
    BY DEF Share!Expire, Share!FinishRun
  <1>2. Share!Active' = Share!Active /\ \A q \in Requests : Share!Changed(q)' = Share!Changed(q)
    BY <1>1 DEF Share!Active, Share!locks, Share!Changed
  <1>3. Share!TypeOK'
    BY <1>1 DEF SharedInv, Share!TypeOK, Share!locks, Share!local
  <1>4. RowsInv'
    BY <1>1, <1>2 DEF SharedInv, RowsInv, Share!locks, Share!local
  <1>5. ASSUME NEW q \in Requests PROVE Changing(q)' /\ Reading(q)'
    BY <1>1, <1>2 DEF SharedInv, Changing, Reading, Share!locks, Share!local
  <1> QED BY <1>3, <1>4, <1>5 DEF SharedInv

-----------------------------------------------------------------------------
(* Links: the theorem.                                                     *)

LEMMA SharedInit == Share!Init => SharedInv
  <1> SUFFICES ASSUME Share!Init PROVE SharedInv
    OBVIOUS
  <1>1. Share!TypeOK
    BY LinksAssumption DEF Share!Init, Share!TypeOK, Share!ShareAssumption, Share!Unread,
       Share!Links, Share!Places, Share!Answers
  <1>2. RowsInv
    <2>1. \E n \in 0..LastLink : made = 1..n
      <3>1. 1..0 = {} /\ 1..1 = {1} /\ 0 \in 0..LastLink /\ 1 \in 0..LastLink
        BY LinksAssumption DEF Share!ShareAssumption
      <3> QED BY <3>1 DEF Share!Init
    <2>2. Cardinality(Share!Active) <= 1
      <3>1. Share!Active \in {{}, {1}}
        BY DEF Share!Init, Share!Active
      <3>2. Cardinality({}) = 0 /\ Cardinality({1}) = 1
        BY FS_EmptySet, FS_Singleton
      <3> QED BY <3>1, <3>2
    <2> QED BY <2>1, <2>2 DEF Share!Init, RowsInv
  <1>3. ASSUME NEW q \in Requests PROVE Changing(q) /\ Reading(q)
    BY LinksAssumption DEF Share!Init, Changing, Reading, Share!ShareAssumption, Share!Replies
  <1> QED BY <1>1, <1>2, <1>3 DEF SharedInv

LEMMA SharedNext == SharedInv /\ [Share!Next]_(Share!vars) => SharedInv'
  <1> SUFFICES ASSUME SharedInv, [Share!Next]_(Share!vars) PROVE SharedInv'
    OBVIOUS
  <1>1. CASE UNCHANGED Share!vars
    <2>1. UNCHANGED <<made, revoked, recorded, sharedRevision, expired, sharedDone, Share!locks,
                      Share!local, reqAt, answer, deaths>>
      BY <1>1 DEF Share!vars, Share!table
    <2>2. Share!Active' = Share!Active /\ \A q \in Requests : Share!Changed(q)' = Share!Changed(q)
      BY <2>1 DEF Share!Active, Share!locks, Share!Changed
    <2>3. Share!TypeOK' /\ RowsInv'
      BY <2>1, <2>2 DEF SharedInv, Share!TypeOK, RowsInv, Share!locks, Share!local
    <2>4. ASSUME NEW q \in Requests PROVE Changing(q)' /\ Reading(q)'
      BY <2>1, <2>2 DEF SharedInv, Changing, Reading, Share!locks, Share!local
    <2> QED BY <2>3, <2>4 DEF SharedInv
  <1>2. ASSUME NEW q \in Requests, Share!Step(q) PROVE SharedInv'
    <2>1. CASE Share!Serve(q)
      <3>1. /\ reqAt[q] # "idle" /\ deaths' \in 0..MaxDeaths
            /\ UNCHANGED <<Share!table, Share!local>>
        BY <2>1 DEF Share!Serve, SharedInv, Share!TypeOK
      <3>2. \E what \in {"gone", "served"} : Share!Answer(q, what)
        BY <2>1 DEF Share!Serve
      <3> QED BY <3>1, <3>2, PlainAnswers
    <2>2. CASE Share!RefuseWrite(q)
      <3>1. /\ reqAt[q] # "idle" /\ deaths' \in 0..MaxDeaths
            /\ UNCHANGED <<Share!table, Share!local>> /\ Share!Answer(q, "conflict")
        BY <2>2 DEF Share!RefuseWrite, SharedInv, Share!TypeOK
      <3> QED BY <3>1, PlainAnswers
    <2> QED
      BY <1>2, <2>1, <2>2, LockRunSteps, StartRevokeSteps, FindSteps, UpdateSteps, RevokeSteps,
         RecordSteps, ReadReportSteps, ReadFlagsSteps, CommitSteps, OpenSteps, LockReportSteps,
         WriteSteps DEF Share!Step
  <1>3. ASSUME NEW q \in Requests, Share!Die(q) PROVE SharedInv'
    <2>1. /\ reqAt[q] # "idle" /\ deaths' \in 0..MaxDeaths
          /\ UNCHANGED <<Share!table, Share!local>> /\ Share!Answer(q, "lost")
      BY <1>3, LinksAssumption DEF Share!Die, SharedInv, Share!TypeOK, Share!ShareAssumption
    <2> QED BY <2>1, PlainAnswers
  <1> QED BY <1>1, <1>2, <1>3, AskSteps, WorldSteps DEF Share!Next

LEMMA SharedPromises ==
  SharedInv => Share!CreateNeverCollides /\ Share!EarlierLinksAreOff /\ Share!ServedOneAssessment
  <1> SUFFICES ASSUME SharedInv
               PROVE  /\ Share!CreateNeverCollides /\ Share!EarlierLinksAreOff
                      /\ Share!ServedOneAssessment
    OBVIOUS
  <1>1. Share!CreateNeverCollides
    BY SameCount DEF SharedInv, RowsInv, Changing, Share!CreateNeverCollides
  <1>2. Share!EarlierLinksAreOff
    BY DEF SharedInv, Changing, Share!EarlierLinksAreOff
  <1>3. ASSUME NEW q \in Requests, reqOp[q] = "read", reqAt[q] = "end"
        PROVE  /\ got[q].flags = got[q].report
               /\ Share!DetailState(q) = "current" => recorded[link[q]] = got[q]
    <2>1. /\ got[q].report = sharedRevision /\ got[q].flags = sharedRevision
          /\ link[q] \in Share!Links
      BY <1>3 DEF SharedInv, Reading, Share!TypeOK
    <2>2. ASSUME Share!DetailState(q) = "current" PROVE recorded[link[q]] = got[q]
      <3>1. recorded[link[q]] # Nothing /\ recorded[link[q]].report = sharedRevision
        BY <2>1, <2>2 DEF Share!DetailState
      <3>2. recorded[link[q]] \in [report : 0..MaxChanges, flags : 0..MaxChanges]
        BY <2>1, <3>1 DEF SharedInv, Share!TypeOK
      <3>3. recorded[link[q]].flags = sharedRevision
        BY <2>1, <3>1 DEF SharedInv, RowsInv
      <3>4. got[q] \in [report : 0..MaxChanges \union {Nothing},
                         flags : 0..MaxChanges \union {Nothing}]
        BY DEF SharedInv, Share!TypeOK
      <3> QED BY <2>1, <3>1, <3>2, <3>3, <3>4
    <2> QED BY <2>1, <2>2
  <1>4. Share!ServedOneAssessment
    BY <1>3 DEF Share!ServedOneAssessment
  <1> QED BY <1>1, <1>2, <1>4

LEMMA ServedWhenOn ==
  SharedInv /\ [Share!Next]_(Share!vars) => [Share!TurnedOffIsNotServed]_(Share!vars)
  <1> SUFFICES ASSUME SharedInv, Share!Next, NEW q \in Requests,
                      answer'[q] = "served", answer[q] # "served"
               PROVE  link[q] \in Share!Active \ expired
    BY DEF Share!TurnedOffIsNotServed
  <1>1. \A p \in Requests : \A what : Share!Answer(p, what) =>
          answer'[q] = IF p = q THEN what ELSE answer[q]
    BY DEF Share!Answer, SharedInv, Share!TypeOK
  <1>2. ASSUME NEW p \in Requests, NEW what, Share!Answer(p, what), what # "served" PROVE FALSE
    BY <1>1, <1>2
  <1>3. answer' # answer
    OBVIOUS
  <1>4. ASSUME NEW p \in Requests, Share!Step(p) PROVE Share!Serve(p)
    BY <1>2, <1>3, <1>4 DEF Share!Step, Share!LockRun, Share!StartRevoke, Share!Find,
       Share!Update, Share!Revoke, Share!Record,
         Share!ReadReport, Share!ReadFlags, Share!Commit, Share!Open, Share!LockReport,
         Share!RefuseWrite, Share!Write
  <1>5. ASSUME NEW p \in Requests, Share!Die(p) PROVE FALSE
    BY <1>2, <1>5 DEF Share!Die
  <1>6. ASSUME NEW p \in Requests, NEW o, Share!Ask(p, o) PROVE FALSE
    BY <1>3, <1>6 DEF Share!Ask
  <1>7. ASSUME (\E x \in Share!Links : Share!Expire(x)) \/ Share!FinishRun PROVE FALSE
    BY <1>3, <1>7 DEF Share!Expire, Share!FinishRun
  <1>8. PICK p \in Requests : Share!Serve(p)
    BY <1>4, <1>5, <1>6, <1>7 DEF Share!Next
  <1>9. p = q /\ ~Share!Off(link[q])
    BY <1>1, <1>8 DEF Share!Serve
  <1>10. link[q] \in made
    BY <1>8, <1>9 DEF Share!Serve, SharedInv, Reading
  <1> QED BY <1>9, <1>10 DEF Share!Off, Share!Active

\* The locks and what is read under them, in every behaviour of the requests.
THEOREM SharedInductive == Share!Spec => []SharedInv
  BY SharedInit, SharedNext, PTL DEF Share!Spec

\* Creates do not collide, earlier links are off when a create or a revoke is
\* answered, and a reader is shown one assessment of a link that is on.
THEOREM LinksTheorem == Share!Spec => LinksAreKept
  <1>1. SharedInv => /\ Share!TypeOK /\ Share!CreateNeverCollides
                     /\ Share!EarlierLinksAreOff /\ Share!ServedOneAssessment
    BY SharedPromises DEF SharedInv
  <1>2. Share!Spec => []( /\ Share!TypeOK /\ Share!CreateNeverCollides
                         /\ Share!EarlierLinksAreOff /\ Share!ServedOneAssessment)
    BY <1>1, SharedInductive, PTL
  <1>3. Share!Spec => [][Share!TurnedOffIsNotServed]_(Share!vars)
    BY SharedInductive, ServedWhenOn, PTL DEF Share!Spec
  <1> QED BY <1>2, <1>3, PTL DEF LinksAreKept

-----------------------------------------------------------------------------
(* Documents: the invariant.                                               *)

\* What was read of a report: a purged source stays purged.
Read(b) == b.report \in Reports /\ (b.purged => b.report \in purged)

Holders(j) == {c \in Clients : at[c] = "stream" /\ wants[c] = j}

\* The life of a job, and what keeps its file.
Kept(j) ==
  /\ state[j] = "preparing" <=> task[j] # "none"
  /\ state[j] = "preparing" => j = slot
  /\ j \in files => task[j] = "write" \/ state[j] = "ready"
  /\ j \in files => j = slot \/ leases[j] > 0
  /\ leases[j] > 0 => state[j] = "ready"
  /\ leases[j] = Cardinality(Holders(j))

\* What has been read for its document, and compared.
Told(j) ==
  /\ state[j] # "none" => Read(binding[j])
  /\ task[j] \in {"images", "build", "recheck"} => document[j].report = binding[j].report
  /\ task[j] \in {"build", "recheck"} =>
       /\ document[j].revision = binding[j].revision
       /\ Read(document[j]) /\ (binding[j].purged => document[j].purged)
  /\ task[j] = "write" \/ state[j] = "ready" => document[j] = binding[j]

\* A request with the lock of a source knows whether it is purged.
Serving(c) ==
  /\ at[c] # "idle" => Read(seen[c])
  /\ at[c] \in {"find", "stream"} => /\ wants[c] \in Export!Jobs
                                     /\ seen[c].report \in purged => seen[c].purged
  /\ at[c] = "stream" => wants[c] \in files /\ binding[wants[c]] = seen[c]

JobsInv ==
  /\ Export!TypeOK
  /\ \A j \in Export!Jobs : Kept(j) /\ Told(j)
  /\ \A c \in Clients : Serving(c)

-----------------------------------------------------------------------------
(* Links: requests never all wait.                                         *)

\* A request has its locks only where it goes on to commit, and the row of a link
\* only when it needs no other.
Orderly(q) ==
  /\ runLock = q => reqAt[q] \in {"find", "update", "report", "flags", "end"}
  /\ sharedWriter = q => reqAt[q] = "end"
  /\ q \in sharedReaders => reqAt[q] \in {"flags", "end"}
  /\ \A x, y \in todo[q] : x = y
  /\ \A x \in Share!Links : linkLock[x] = q => todo[q] = {}

OrderlyInv == \A q \in Requests : Orderly(q)

Acting(q) ==
  Share!Step(q) \/ Share!Die(q) \/ \E o \in {"create", "revoke", "read", "write"} : Share!Ask(q, o)

LEMMA OthersOrderly ==
  ASSUME Share!TypeOK, NEW q \in Requests, Acting(q), NEW p \in Requests \ {q}, Orderly(p)
  PROVE  Orderly(p)'
  <1>1. p # q /\ p # Nothing
    BY LinksAssumption DEF Share!ShareAssumption
  <1>2. reqAt'[p] = reqAt[p] /\ todo'[p] = todo[p]
    BY <1>1 DEF Share!TypeOK, Acting, Share!Step, Share!Die, Share!Ask, Share!LockRun,
       Share!StartRevoke, Share!Find, Share!Update, Share!Revoke, Share!Record,
       Share!ReadReport, Share!ReadFlags, Share!Commit, Share!Open, Share!Serve,
       Share!LockReport, Share!RefuseWrite, Share!Write, Share!Answer, Share!Goto, Share!local
  <1>3. /\ runLock' = p => runLock = p
        /\ sharedWriter' = p => sharedWriter = p
        /\ p \in sharedReaders' => p \in sharedReaders
    BY <1>1 DEF Share!TypeOK, Acting, Share!Step, Share!Die, Share!Ask, Share!LockRun,
       Share!StartRevoke, Share!Find, Share!Update, Share!Revoke, Share!Record,
       Share!ReadReport, Share!ReadFlags, Share!Commit, Share!Open, Share!Serve,
       Share!LockReport, Share!RefuseWrite, Share!Write, Share!Answer, Share!locks
  <1>4. \A x \in Share!Links : linkLock'[x] = p => linkLock[x] = p
    BY <1>1 DEF Share!TypeOK, Acting, Share!Step, Share!Die, Share!Ask, Share!LockRun,
       Share!StartRevoke, Share!Find, Share!Update, Share!Revoke, Share!Record,
       Share!ReadReport, Share!ReadFlags, Share!Commit, Share!Open, Share!Serve,
       Share!LockReport, Share!RefuseWrite, Share!Write, Share!Answer, Share!locks
  <1> QED BY <1>2, <1>3, <1>4 DEF Orderly

\* Two active links are one.
LEMMA OneIsActive ==
  ASSUME Share!TypeOK, RowsInv
  PROVE  \A x, y \in Share!Active : x = y
  <1> SUFFICES ASSUME NEW x \in Share!Active, NEW y \in Share!Active, x # y PROVE FALSE
    OBVIOUS
  <1>1. Cardinality({x, y}) = 2
    <2>1. IsFiniteSet({x}) /\ Cardinality({x}) = 1
      BY FS_Singleton
    <2>2. Cardinality({x} \union {y}) = Cardinality({x}) + 1
      BY <2>1, FS_AddElement
    <2>3. {x, y} = {x} \union {y}
      OBVIOUS
    <2> QED BY <2>1, <2>2, <2>3
  <1>2. Cardinality({x, y}) <= Cardinality(Share!Active) /\ Cardinality(Share!Active) \in Nat
    BY ActiveFinite, FS_Subset, FS_CardinalityType
  <1> QED BY <1>1, <1>2 DEF RowsInv

LEMMA OrderlyStep ==
  ASSUME SharedInv, NEW q \in Requests, Acting(q), Orderly(q)
  PROVE  Orderly(q)'
  <1>1. Share!TypeOK /\ RowsInv /\ q # Nothing /\ Share!Active \subseteq Share!Links
    BY LinksAssumption DEF SharedInv, Share!ShareAssumption, Share!Active, Share!TypeOK
  <1>2. ASSUME NEW what, Share!Answer(q, what), todo' = todo PROVE Orderly(q)'
    <2>1. runLock' # q /\ sharedWriter' # q /\ q \notin sharedReaders'
          /\ \A x \in Share!Links : linkLock'[x] # q
      BY <1>1, <1>2 DEF Share!Answer
    <2> QED BY <1>2, <2>1 DEF Orderly
  <1>3. CASE Share!Find(q)
    <2>1. /\ reqAt[q] = "find" /\ reqAt'[q] = "update" /\ todo'[q] = Share!Active
          /\ UNCHANGED Share!locks
      BY <1>1, <1>3 DEF Share!Find, Share!Goto, Share!TypeOK
    <2>2. \A x \in Share!Links : linkLock[x] # q
      BY <1>1, <2>1 DEF RowsInv
    <2>3. \A x, y \in Share!Active : x = y
      BY <1>1, OneIsActive
    <2> QED BY <2>1, <2>2, <2>3 DEF Orderly, Share!locks
  <1>4. CASE Share!Update(q)
    <2>1. PICK x \in todo[q] : todo' = [todo EXCEPT ![q] = @ \ {x}]
      BY <1>4 DEF Share!Update
    <2>2. todo'[q] = {}
      BY <1>1, <2>1 DEF Orderly, Share!TypeOK
    <2> QED BY <1>4, <2>2 DEF Share!Update, Orderly
  <1>5. CASE \/ Share!LockRun(q) \/ Share!StartRevoke(q) \/ Share!ReadReport(q)
             \/ Share!LockReport(q) \/ (Share!Open(q) /\ reqAt'[q] = "report")
             \/ Share!ReadFlags(q) \/ Share!Record(q)
             \/ \E o \in {"create", "revoke", "read", "write"} : Share!Ask(q, o)
    BY <1>1, <1>5 DEF Orderly, Share!LockRun, Share!StartRevoke, Share!ReadReport, Share!ReadFlags,
       Share!Record, Share!LockReport, Share!Open, Share!Ask, Share!Goto, Share!TypeOK,
       Share!locks, Share!local, Share!Answer
  <1>6. CASE \/ Share!Revoke(q) \/ Share!Commit(q) \/ (Share!Open(q) /\ reqAt'[q] # "report")
             \/ Share!Serve(q) \/ Share!RefuseWrite(q) \/ Share!Write(q) \/ Share!Die(q)
    <2>1. todo' = todo /\ \E what : Share!Answer(q, what)
      BY <1>1, <1>6 DEF Share!Revoke, Share!Commit, Share!Open, Share!Serve, Share!RefuseWrite,
         Share!Write, Share!Die, Share!local, Share!Goto, Share!TypeOK
    <2> QED BY <1>2, <2>1
  <1> QED BY <1>3, <1>4, <1>5, <1>6 DEF Acting, Share!Step

LEMMA OrderlyNext == SharedInv /\ OrderlyInv /\ [Share!Next]_(Share!vars) => OrderlyInv'
  <1> SUFFICES ASSUME SharedInv, OrderlyInv, [Share!Next]_(Share!vars) PROVE OrderlyInv'
    OBVIOUS
  <1>1. ASSUME NEW q \in Requests, Acting(q) PROVE OrderlyInv'
    BY <1>1, OthersOrderly, OrderlyStep DEF OrderlyInv, SharedInv
  <1>2. ASSUME UNCHANGED <<Share!locks, todo, reqAt>> PROVE OrderlyInv'
    BY <1>2 DEF OrderlyInv, Orderly, Share!locks
  <1> QED
    BY <1>1, <1>2 DEF Share!Next, Acting, Share!Expire, Share!FinishRun, Share!vars, Share!local

\* Writers and readers of the report go on, hence those who change a link do,
\* hence whoever has the run does.
LEMMA LinkHolderGoesOn == SharedInv /\ OrderlyInv => LinksGoOn
  <1> SUFFICES ASSUME SharedInv, OrderlyInv, NEW q \in Requests, Share!AtWork(q),
                      \A p \in Requests : Share!AtWork(p) => Share!Waits(p)
               PROVE  FALSE
    BY DEF LinksGoOn, Share!NobodyIsStuck
  <1>1. Share!TypeOK /\ RowsInv /\ \A p \in Requests : Orderly(p)
    BY DEF SharedInv, OrderlyInv
  <1>2. ASSUME NEW p \in Requests, reqAt[p] \in {"find", "flags", "end"} PROVE FALSE
    BY <1>2 DEF Share!AtWork, Share!Waits
  <1>3. sharedWriter = Nothing /\ sharedReaders = {}
    BY <1>1, <1>2 DEF Orderly, Share!TypeOK
  <1>4. ASSUME NEW p \in Requests, reqAt[p] = "update" PROVE FALSE
    <2>1. PICK x \in todo[p] : linkLock[x] # Nothing
      BY <1>4 DEF Share!AtWork, Share!Waits
    <2>2. /\ x \in Share!Links /\ linkLock[x] \in Requests
          /\ reqAt[linkLock[x]] \in {"update", "report", "flags", "end"}
          /\ todo[linkLock[x]] = {}
      BY <1>1, <2>1 DEF Share!TypeOK, RowsInv, Orderly
    <2> QED BY <1>3, <2>2 DEF Share!AtWork, Share!Waits
  <1>5. runLock # Nothing /\ reqAt[runLock] \in {"find", "update", "report", "flags", "end"}
        /\ runLock \in Requests
    BY <1>1, <1>3, <1>4 DEF Share!AtWork, Share!Waits, Orderly, Share!TypeOK
  <1> QED BY <1>2, <1>3, <1>4, <1>5 DEF Share!AtWork, Share!Waits

\* Creates, revokes, readers and changes of the assessment never all wait for
\* each other, however many they are.
THEOREM LinksGoOnTheorem == Share!Spec => []LinksGoOn
  <1>1. Share!Init => OrderlyInv
    BY LinksAssumption DEF Share!Init, OrderlyInv, Orderly, Share!ShareAssumption
  <1> QED BY <1>1, OrderlyNext, LinkHolderGoesOn, SharedInductive, PTL DEF Share!Spec

-----------------------------------------------------------------------------
(* Documents: leases, and what the slot and the disk lose.                 *)

LEMMA LeaseHeld ==
  ASSUME Export!TypeOK, NEW c \in Clients, at[c] = "stream",
         wants[c] \in Export!Jobs, Kept(wants[c])
  PROVE  leases[wants[c]] > 0 /\ state[wants[c]] = "ready" /\ task[wants[c]] = "none"
  <1>1. IsFiniteSet(Holders(wants[c])) /\ c \in Holders(wants[c])
    BY FS_Subset, DocumentsAssumption DEF Holders
  <1>2. Cardinality(Holders(wants[c])) # 0
    BY <1>1, FS_EmptySet
  <1>3. leases[wants[c]] \in Nat
    BY DEF Export!TypeOK
  <1> QED BY <1>2, <1>3 DEF Kept, Export!TypeOK

\* Leases count some of the clients.
LEMMA SubsetCount ==
  \A S \in SUBSET Clients : Cardinality(S) \in 0..Cardinality(Clients)
  <1> SUFFICES ASSUME NEW S \in SUBSET Clients PROVE Cardinality(S) \in 0..Cardinality(Clients)
    OBVIOUS
  <1>1. /\ Cardinality(S) \in Nat /\ Cardinality(Clients) \in Nat
        /\ Cardinality(S) <= Cardinality(Clients)
    BY FS_Subset, FS_CardinalityType, DocumentsAssumption
  <1> QED BY <1>1

LEMMA Expiring ==
  ASSUME Export!TypeOK, NEW ls
  PROVE  /\ Export!SlotAfter(ls) \in {slot, Export!None} /\ Export!FilesAfter(ls) \subseteq files
         /\ Export!SlotAfter(ls) # slot =>
              state[slot] # "preparing" /\ slot \notin Export!FilesAfter(ls)
         /\ \A j \in files \ Export!FilesAfter(ls) : ls[j] = 0
  BY DEF Export!SlotAfter, Export!FilesAfter, Export!Expires, Export!Closed

\* A request that holds no lease is answered.
Refused == \/ UNCHANGED Export!requests
           \/ \E c \in Clients : at[c] # "stream" /\ Export!Answered(c)

\* The slot is given up, and files nobody holds are removed.
LEMMA GivenUp ==
  ASSUME JobsInv, Refused, slot' \in {slot, Export!None}, files' \subseteq files,
         slot' # slot => /\ ~Export!Preparing
                         /\ slot \in files' => leases[slot] > 0,
         \A j \in files \ files' : leases[j] = 0,
         UNCHANGED <<Export!source, Export!task, state, leases>>
  PROVE  /\ \A j \in Export!Jobs : Kept(j)' /\ Told(j)'
         /\ \A c \in Clients : Serving(c)'
         /\ at' \in [Clients -> {"idle", "prepare", "find", "stream"}]
         /\ seen' \in [Clients -> Export!Bindings]
         /\ wants' \in [Clients -> Export!Jobs \union {Export!None}]
  <1>1. \A c \in Clients : \/ at'[c] = at[c] /\ seen'[c] = seen[c] /\ wants'[c] = wants[c]
                           \/ at[c] # "stream" /\ at'[c] = "idle"
    BY DEF Refused, Export!requests, Export!Answered, JobsInv, Export!TypeOK
  <1>2. ASSUME NEW j \in Export!Jobs PROVE Kept(j)' /\ Told(j)'
    <2>1. Holders(j)' = Holders(j)
      BY <1>1 DEF Holders
    <2>2. Kept(j) /\ Told(j)
      BY DEF JobsInv
    <2>3. Kept(j)'
      BY <2>1, <2>2 DEF Kept, Export!task, Export!Preparing, JobsInv, Export!TypeOK
    <2>4. Told(j)'
      BY <2>2 DEF Told, Export!task, Export!source, Read
    <2> QED BY <2>3, <2>4
  <1>3. ASSUME NEW c \in Clients PROVE Serving(c)'
    <2>1. Serving(c)
      BY DEF JobsInv
    <2>2. at[c] = "stream" => leases[wants[c]] > 0
      BY <2>1, LeaseHeld DEF JobsInv, Serving
    <2> QED BY <1>1, <2>1, <2>2 DEF Serving, Export!source, Export!task, Read
  <1>4. /\ at' \in [Clients -> {"idle", "prepare", "find", "stream"}]
        /\ seen' \in [Clients -> Export!Bindings]
        /\ wants' \in [Clients -> Export!Jobs \union {Export!None}]
    BY DEF Refused, Export!requests, Export!Answered, JobsInv, Export!TypeOK, Export!Bindings
  <1> QED BY <1>2, <1>3, <1>4

LEMMA PrepareKnownSteps ==
  ASSUME JobsInv, NEW c \in Clients, Export!PrepareKnown(c)
  PROVE  JobsInv'
  <1>1. /\ at[c] = "prepare"
        /\ slot' = Export!SlotAfter(leases) /\ files' = Export!FilesAfter(leases)
        /\ Export!Answered(c)
        /\ UNCHANGED <<Export!source, Export!life, timer, Export!task, state, aged, leases>>
    BY DEF Export!PrepareKnown, Export!Expire, Export!SlotKept, Export!FilesKept
  <1>2. Export!TypeOK
    BY DEF JobsInv
  <1>3. Refused
    BY <1>1 DEF Refused
  <1>4. slot' # slot => ~Export!Preparing /\ slot \notin files'
    BY <1>1, <1>2, Expiring DEF Export!Preparing
  <1>5. /\ \A j \in Export!Jobs : Kept(j)' /\ Told(j)'
        /\ \A d \in Clients : Serving(d)'
        /\ at' \in [Clients -> {"idle", "prepare", "find", "stream"}]
        /\ seen' \in [Clients -> Export!Bindings]
        /\ wants' \in [Clients -> Export!Jobs \union {Export!None}]
    BY <1>1, <1>2, <1>3, <1>4, Expiring, GivenUp
  <1>6. Export!TypeOK'
    BY <1>1, <1>2, <1>5, Expiring DEF Export!TypeOK, Export!source, Export!life, Export!task
  <1> QED BY <1>5, <1>6 DEF JobsInv

LEMMA ExpirySteps ==
  ASSUME JobsInv, Export!Poll \/ Export!Fire
  PROVE  JobsInv'
  <1>1. /\ slot' = Export!SlotAfter(leases)
        /\ files' = Export!FilesAfter(leases) /\ timer' \in {timer, Export!None}
        /\ UNCHANGED <<Export!source, Export!requests, Export!life, Export!task, state, aged,
                       leases>>
    BY DEF Export!Poll, Export!Fire, Export!Expire, Export!SlotKept, Export!FilesKept
  <1>2. Export!TypeOK
    BY DEF JobsInv
  <1>3. Refused
    BY <1>1 DEF Refused
  <1>4. slot' # slot => ~Export!Preparing /\ slot \notin files'
    BY <1>1, <1>2, Expiring DEF Export!Preparing
  <1>5. /\ \A j \in Export!Jobs : Kept(j)' /\ Told(j)'
        /\ \A d \in Clients : Serving(d)'
    BY <1>1, <1>2, <1>3, <1>4, Expiring, GivenUp
  <1>6. Export!TypeOK'
    BY <1>1, <1>2, Expiring
       DEF Export!TypeOK, Export!source, Export!life, Export!task, Export!requests
  <1> QED BY <1>5, <1>6 DEF JobsInv

LEMMA ShutdownSteps ==
  ASSUME JobsInv, Export!BeginShutdown \/ Export!FinishShutdown
  PROVE  JobsInv'
  <1>1. /\ UNCHANGED <<Export!source, Export!requests, Export!task, state, aged, leases, starts>>
        /\ closing' \in {closing, TRUE}
    BY DEF Export!BeginShutdown, Export!FinishShutdown
  <1>2. Export!TypeOK
    BY DEF JobsInv
  <1>3. CASE UNCHANGED <<slot, files>> /\ timer' = Export!None /\ stopping' = "waiting"
    <2>1. /\ \A j \in Export!Jobs : Kept(j)' /\ Told(j)'
          /\ \A d \in Clients : Serving(d)'
      BY <1>1, <1>3, GivenUp DEF Refused
    <2>2. Export!TypeOK'
      BY <1>1, <1>2, <1>3 DEF Export!TypeOK, Export!source, Export!task, Export!requests
    <2> QED BY <2>1, <2>2 DEF JobsInv
  <1>4. CASE ~Export!Preparing /\ Export!Retire
    <2>1. /\ slot' = Export!None /\ timer' = Export!None
          /\ stopping' = "stopped" /\ files' \subseteq files
          /\ \A j \in files \ files' : j = slot /\ leases[j] = 0
          /\ slot # Export!None /\ slot \in files' => leases[slot] # 0
      BY <1>4 DEF Export!Retire, Export!Cleaned
    <2>2. slot # Export!None => slot \in Export!Jobs /\ leases[slot] \in Nat
      BY <1>2 DEF Export!TypeOK
    <2>3. slot # Export!None /\ slot \in files' => leases[slot] > 0
      BY <2>1, <2>2
    <2>4. slot' # slot => slot # Export!None
      BY <2>1
    <2>5. /\ \A j \in Export!Jobs : Kept(j)' /\ Told(j)'
          /\ \A d \in Clients : Serving(d)'
      BY <1>1, <1>4, <2>1, <2>3, <2>4, GivenUp DEF Refused
    <2>6. Export!TypeOK'
      BY <1>1, <1>2, <2>1 DEF Export!TypeOK, Export!source, Export!task, Export!requests
    <2> QED BY <2>5, <2>6 DEF JobsInv
  <1> QED BY <1>3, <1>4 DEF Export!BeginShutdown, Export!FinishShutdown

-----------------------------------------------------------------------------
(* Documents: the steps.                                                   *)

LEMMA SourceSteps ==
  ASSUME JobsInv, NEW r \in Reports, Export!Decide(r) \/ Export!Purge(r)
  PROVE  JobsInv'
  <1>1. /\ UNCHANGED <<Export!requests, slot, Export!life, timer, Export!task, state, aged, files,
                       leases>>
        /\ purged \subseteq purged' /\ purged' \subseteq Reports
        /\ revision' \in [Reports -> 0..MaxDecisions]
    <2>1. CASE Export!Decide(r)
      <3>1. revision[r] + 1 \in 0..MaxDecisions /\ purged \subseteq Reports
        BY <2>1, DocumentsAssumption DEF Export!Decide, JobsInv, Export!TypeOK
      <3> QED BY <2>1, <3>1 DEF Export!Decide, JobsInv, Export!TypeOK
    <2>2. CASE Export!Purge(r)
      BY <2>2 DEF Export!Purge, Export!source, JobsInv, Export!TypeOK
    <2> QED BY <2>1, <2>2
  <1>2. \A c \in Export!SourceLocks : seen[c].report \in purged' => seen[c].report \in purged
    BY DEF Export!Decide, Export!Purge
  <1>3. Export!TypeOK'
    BY <1>1 DEF JobsInv, Export!TypeOK, Export!requests, Export!life, Export!task
  <1>4. ASSUME NEW j \in Export!Jobs PROVE Kept(j)' /\ Told(j)'
    <2>1. Holders(j)' = Holders(j)
      BY <1>1 DEF Holders, Export!requests
    <2> QED BY <1>1, <2>1 DEF JobsInv, Kept, Told, Read, Export!task
  <1>5. ASSUME NEW c \in Clients PROVE Serving(c)'
    BY <1>1, <1>2 DEF JobsInv, Serving, Export!SourceLocks, Read, Export!requests, Export!task
  <1> QED BY <1>3, <1>4, <1>5 DEF JobsInv

LEMMA ReadNow ==
  ASSUME Export!TypeOK, NEW r \in Reports
  PROVE  /\ Read(Export!Binding(r)) /\ Export!Binding(r) \in Export!Bindings
         /\ Export!Binding(r).report = r /\ (r \in purged => Export!Binding(r).purged)
  <1>1. revision[r] \in 0..MaxDecisions /\ (r \in purged) \in BOOLEAN
    BY DEF Export!TypeOK
  <1> QED BY <1>1 DEF Read, Export!Binding, Export!Bindings

LEMMA RequestSteps ==
  ASSUME JobsInv, NEW c \in Clients, NEW r \in Reports,
         Export!AskPrepare(c, r) \/ \E j \in Export!Jobs : Export!AskFile(c, r, j)
  PROVE  JobsInv'
  <1>1. /\ UNCHANGED <<Export!source, slot, Export!life, timer, Export!task, state, aged, files,
                       leases>>
        /\ at[c] = "idle" /\ seen' = [seen EXCEPT ![c] = Export!Binding(r)]
    BY DEF Export!AskPrepare, Export!AskFile
  <1>2. PICK j \in Export!Jobs \union {Export!None}, place \in {"prepare", "find"} :
          /\ at' = [at EXCEPT ![c] = place]
          /\ wants' = [wants EXCEPT ![c] = j]
          /\ place = "find" => j \in Export!Jobs
    <2>1. CASE Export!AskPrepare(c, r)
      <3>1. /\ wants' = [wants EXCEPT ![c] = wants[c]]
            /\ wants[c] \in Export!Jobs \union {Export!None}
        BY <2>1 DEF Export!AskPrepare, JobsInv, Export!TypeOK
      <3> QED BY <2>1, <3>1 DEF Export!AskPrepare
    <2>2. CASE \E j \in Export!Jobs : Export!AskFile(c, r, j)
      BY <2>2 DEF Export!AskFile
    <2> QED BY <2>1, <2>2
  <1>3. Export!TypeOK
    BY DEF JobsInv
  <1>4. Export!TypeOK'
    BY <1>1, <1>2, <1>3, ReadNow DEF Export!TypeOK, Export!source, Export!life, Export!task
  <1>5. ASSUME NEW i \in Export!Jobs PROVE Kept(i)' /\ Told(i)'
    <2>1. Holders(i)' = Holders(i)
      BY <1>1, <1>2, <1>3 DEF Holders, Export!TypeOK
    <2> QED BY <1>1, <2>1 DEF JobsInv, Kept, Told, Read, Export!task, Export!source
  <1>6. ASSUME NEW d \in Clients PROVE Serving(d)'
    <2>1. CASE d = c
      <3>1. seen'[c] = Export!Binding(r) /\ at'[c] \in {"prepare", "find"} /\ wants'[c] = j
        BY <1>1, <1>2, <1>3 DEF Export!TypeOK
      <3>2. /\ Read(Export!Binding(r))
            /\ Export!Binding(r).report \in purged => Export!Binding(r).purged
        BY <1>3, ReadNow
      <3>3. at'[c] = "find" => wants'[c] \in Export!Jobs
        BY <1>2, <1>3 DEF Export!TypeOK
      <3> QED BY <1>1, <2>1, <3>1, <3>2, <3>3 DEF Serving, Read, Export!source
    <2>2. CASE d # c
      <3>1. at'[d] = at[d] /\ seen'[d] = seen[d] /\ wants'[d] = wants[d] /\ Serving(d)
        BY <1>1, <1>2, <2>2 DEF JobsInv, Export!TypeOK
      <3> QED BY <1>1, <3>1 DEF Serving, Read, Export!task, Export!source
    <2> QED BY <2>1, <2>2
  <1> QED BY <1>4, <1>5, <1>6 DEF JobsInv

LEMMA PrepareNewSteps ==
  ASSUME JobsInv, NEW c \in Clients, Export!PrepareNew(c)
  PROVE  JobsInv'
  <1>1. PICK j \in Export!Jobs :
          /\ state[j] = "none"
          /\ slot' = j
          /\ state' = [state EXCEPT ![j] = "preparing"]
          /\ task' = [task EXCEPT ![j] = "check"]
          /\ binding' = [binding EXCEPT ![j] = seen[c]]
    BY DEF Export!PrepareNew
  <1>2. /\ at[c] = "prepare" /\ ~Export!Busy /\ Export!Answered(c)
        /\ files' = IF Export!SlotKept = Export!None THEN Export!FilesKept
                    ELSE Export!Cleaned(Export!SlotKept, Export!FilesKept, leases)
        /\ UNCHANGED <<Export!source, Export!life, timer, cancelled, document, aged, leases>>
    BY DEF Export!PrepareNew
  <1>3. Export!TypeOK /\ Kept(j) /\ Read(seen[c]) /\ leases[j] = 0
    BY <1>1, <1>2 DEF JobsInv, Kept, Serving, Export!TypeOK
  <1>4. slot \in Export!Jobs \union {Export!None} /\ leases \in [Export!Jobs -> Nat]
    BY <1>3 DEF Export!TypeOK
  <1>5. /\ ~Export!Preparing /\ slot \notin files' /\ files' \subseteq files
        /\ \A i \in files \ files' : leases[i] = 0
    <2>1. CASE Export!SlotKept = Export!None
      <3>1. /\ files' = Export!FilesAfter(leases) /\ Export!SlotAfter(leases) = Export!None
            /\ Export!FilesAfter(leases) \subseteq files
            /\ Export!SlotAfter(leases) # slot =>
                 state[slot] # "preparing" /\ slot \notin Export!FilesAfter(leases)
            /\ \A i \in files \ Export!FilesAfter(leases) : leases[i] = 0
        BY <1>2, <1>3, <2>1, Expiring DEF Export!SlotKept, Export!FilesKept
      <3>2. slot = Export!None => slot \notin files
        BY <1>3 DEF Export!TypeOK, Export!None, Export!Jobs
      <3> QED BY <3>1, <3>2 DEF Export!Preparing
    <2>2. CASE Export!SlotKept # Export!None
      <3>1. Export!SlotKept = slot /\ state[slot] # "preparing" /\ leases[slot] = 0
        BY <1>2, <1>3, <1>4, <2>2, Expiring DEF Export!SlotKept, Export!Busy
      <3>2. files' = Export!FilesKept \ {slot}
        BY <1>2, <2>2, <3>1 DEF Export!Cleaned
      <3> QED BY <1>3, <3>1, <3>2, Expiring DEF Export!FilesKept, Export!Preparing
    <2> QED BY <2>1, <2>2
  <1>6. \A i \in Export!Jobs \ {j} :
          state'[i] = state[i] /\ task'[i] = task[i] /\ binding'[i] = binding[i]
    BY <1>1
  <1>7. state'[j] = "preparing" /\ task'[j] = "check" /\ binding'[j] = seen[c]
    BY <1>1, <1>3 DEF Export!TypeOK
  <1>8. \A d \in Clients :
          \/ at'[d] = at[d] /\ seen'[d] = seen[d] /\ wants'[d] = wants[d] /\ d # c
          \/ at[d] # "stream" /\ at'[d] = "idle"
    BY <1>2, <1>3 DEF Export!Answered, Export!TypeOK
  <1>9. Export!TypeOK'
    BY <1>1, <1>2, <1>3, <1>5
       DEF Export!TypeOK, Export!source, Export!life, Export!Answered, Export!Bindings
  <1>10. ASSUME NEW i \in Export!Jobs PROVE Kept(i)' /\ Told(i)'
    <2>1. Holders(i)' = Holders(i)
      BY <1>8 DEF Holders
    <2>2. CASE i = j
      <3>1. j \notin files' /\ leases'[j] = leases[j]
        BY <1>1, <1>2, <1>3, <1>5 DEF Kept
      <3>2. Kept(j)'
        BY <1>1, <1>3, <1>7, <2>1, <2>2, <3>1 DEF Kept
      <3>3. Told(j)'
        BY <1>2, <1>3, <1>7 DEF Told, Read, Export!source
      <3> QED BY <2>2, <3>2, <3>3
    <2>3. CASE i # j
      <3>1. Kept(i) /\ Told(i) /\ state[i] # "preparing"
        BY <1>5 DEF JobsInv, Kept, Export!Preparing, Export!None, Export!Jobs
      <3>2. i \in files' => leases[i] > 0
        BY <1>5, <3>1 DEF Kept
      <3> QED BY <1>2, <1>5, <1>6, <2>1, <2>3, <3>1, <3>2 DEF Kept, Told, Read, Export!source
    <2> QED BY <2>2, <2>3
  <1>11. ASSUME NEW d \in Clients PROVE Serving(d)'
    <2>1. Serving(d) /\ (at[d] = "stream" => leases[wants[d]] > 0 /\ wants[d] # j)
      BY <1>3, LeaseHeld DEF JobsInv, Serving
    <2> QED BY <1>2, <1>5, <1>6, <1>8, <2>1 DEF Serving, Read, Export!source
  <1> QED BY <1>9, <1>10, <1>11 DEF JobsInv

LEMMA IdleSteps ==
  ASSUME JobsInv, (\E j \in Export!Jobs : Export!Age(j)) \/ Export!StartApp
  PROVE  JobsInv'
  <1>1. UNCHANGED <<Export!source, Export!requests, slot, timer, Export!task, state, files,
                    leases>>
    BY DEF Export!Age, Export!StartApp
  <1>2. Export!TypeOK'
    <2>1. CASE \E j \in Export!Jobs : Export!Age(j)
      BY <2>1 DEF JobsInv, Export!TypeOK, Export!Age, Export!source, Export!requests,
         Export!life, Export!task
    <2>2. CASE Export!StartApp
      <3>1. starts' \in 0..MaxStarts
        BY <2>2, DocumentsAssumption DEF JobsInv, Export!TypeOK, Export!StartApp
      <3> QED BY <2>2, <3>1 
          DEF JobsInv, Export!TypeOK, Export!StartApp, Export!source, Export!requests, Export!task
    <2> QED BY <2>1, <2>2
  <1>3. /\ \A j \in Export!Jobs : Kept(j)' /\ Told(j)'
        /\ \A c \in Clients : Serving(c)'
    BY <1>1, GivenUp DEF Refused
  <1> QED BY <1>2, <1>3 DEF JobsInv

\* A step of the task of job j.
LEMMA JobMoves ==
  ASSUME JobsInv, NEW j \in Export!Jobs, task[j] # "none", Export!TaskFrame, Export!TypeOK',
         \A i \in Export!Jobs \ {j} :
           state'[i] = state[i] /\ task'[i] = task[i] /\ document'[i] = document[i],
         files' \ {j} = files \ {j},
         state'[j] = "preparing" <=> task'[j] # "none",
         j \in files' => task'[j] = "write" \/ state'[j] = "ready",
         Told(j)'
  PROVE  JobsInv'
  <1>1. /\ Kept(j) /\ state[j] = "preparing" /\ j = slot /\ leases[j] = 0
    BY DEF JobsInv, Export!TypeOK, Kept
  <1>2. UNCHANGED <<Export!source, Export!requests, slot, binding, leases>>
    BY DEF Export!TaskFrame
  <1>3. ASSUME NEW i \in Export!Jobs PROVE Kept(i)' /\ Told(i)'
    <2>1. Holders(i)' = Holders(i)
      BY <1>2 DEF Holders, Export!requests
    <2>2. CASE i = j
      BY <1>1, <1>2, <2>1, <2>2 DEF Kept
    <2>3. CASE i # j
      <3>1. Kept(i) /\ Told(i) /\ (i \in files' <=> i \in files)
        BY <2>3 DEF JobsInv
      <3> QED BY <1>2, <2>1, <2>3, <3>1 DEF Kept, Told, Read, Export!source
    <2> QED BY <2>2, <2>3
  <1>4. ASSUME NEW c \in Clients PROVE Serving(c)'
    <2>1. Serving(c) /\ (at[c] = "stream" => leases[wants[c]] > 0)
      BY LeaseHeld DEF JobsInv, Serving
    <2>2. at[c] = "stream" => wants[c] # j
      BY <1>1, <2>1
    <2> QED BY <1>2, <2>1, <2>2 DEF Serving, Read, Export!source, Export!requests
  <1> QED BY <1>3, <1>4 DEF JobsInv

LEMMA Withdrawn ==
  ASSUME JobsInv, NEW j \in Export!Jobs, task[j] # "none", NEW how \in {"stale", "failed"},
         Export!Withdraw(j, how), Export!TaskFrame
  PROVE  JobsInv'
  <1>1. /\ Kept(j) /\ Told(j) /\ state[j] = "preparing" /\ leases[j] = 0 /\ Export!TypeOK
    BY DEF JobsInv, Export!TypeOK, Kept
  <1>2. state'[j] = how /\ task'[j] = "none" /\ files' = files \ {j}
    BY <1>1 DEF Export!Withdraw, Export!Close, Export!Cleaned, Export!TypeOK
  <1>3. Export!TypeOK'
    BY <1>1, <1>2 DEF Export!Withdraw, Export!Close, Export!TaskFrame, Export!TypeOK,
       Export!source, Export!requests, Export!life, Export!Closed, Export!Bindings
  <1>4. Told(j)'
    BY <1>1, <1>2 DEF Told, Export!TaskFrame, Read, Export!source
  <1>5. \A i \in Export!Jobs \ {j} :
          state'[i] = state[i] /\ task'[i] = task[i] /\ document'[i] = document[i]
    BY <1>1 DEF Export!Withdraw, Export!Close, Export!TypeOK
  <1> QED BY <1>2, <1>3, <1>4, <1>5, JobMoves

LEMMA CheckBindingSteps ==
  ASSUME JobsInv, NEW j \in Export!Jobs, Export!CheckBinding(j)
  PROVE  JobsInv'
  <1>1. task[j] = "check" /\ Export!TaskFrame /\ Export!TypeOK /\ Kept(j) /\ Told(j)
    BY DEF Export!CheckBinding, JobsInv
  <1>2. CASE Export!Proceed(j, "rows") /\ UNCHANGED <<cancelled, document>>
    <2>1. task'[j] = "rows" /\ UNCHANGED <<state, files, document>>
      BY <1>1, <1>2 DEF Export!Proceed, Export!TypeOK
    <2>2. Export!TypeOK'
      BY <1>1, <1>2 DEF Export!Proceed, Export!TaskFrame, Export!TypeOK, Export!source,
         Export!requests, Export!life
    <2>3. Told(j)'
      BY <1>1, <2>1 DEF Told, Kept, Export!TaskFrame, Read, Export!source
    <2>4. \A i \in Export!Jobs \ {j} : task'[i] = task[i]
      BY <1>2 DEF Export!Proceed
    <2> QED BY <1>1, <2>1, <2>2, <2>3, <2>4, JobMoves DEF Kept
  <1>3. CASE Export!Withdraw(j, "stale")
    BY <1>1, <1>3, Withdrawn
  <1> QED BY <1>2, <1>3 DEF Export!CheckBinding

LEMMA ReadRowsSteps ==
  ASSUME JobsInv, NEW j \in Export!Jobs, Export!ReadRows(j)
  PROVE  JobsInv'
  <1>1. task[j] = "rows" /\ Export!TaskFrame /\ Export!TypeOK /\ Kept(j) /\ Told(j)
    BY DEF Export!ReadRows, JobsInv
  <1>2. PICK b : b = [report |-> binding[j].report, revision |-> revision[binding[j].report],
                      purged |-> FALSE]
    OBVIOUS
  <1>3. document' = [document EXCEPT ![j] = b] /\ task' = [task EXCEPT ![j] = "images"]
        /\ UNCHANGED <<timer, state, files, cancelled>>
    BY <1>2 DEF Export!ReadRows, Export!Proceed
  <1>4. binding[j].report \in Reports /\ b.report = binding[j].report /\ b \in Export!Bindings
    BY <1>1, <1>2 DEF Told, Kept, Export!TypeOK, Read, Export!Bindings
  <1>5. task'[j] = "images" /\ document'[j] = b
    BY <1>1, <1>3 DEF Export!TypeOK
  <1>6. Export!TypeOK'
    BY <1>1, <1>3, <1>4
       DEF Export!TaskFrame, Export!TypeOK, Export!source, Export!requests, Export!life
  <1>7. Told(j)'
    BY <1>1, <1>3, <1>4, <1>5 DEF Told, Kept, Export!TaskFrame, Read, Export!source
  <1>8. \A i \in Export!Jobs \ {j} : task'[i] = task[i] /\ document'[i] = document[i]
    BY <1>3
  <1> QED BY <1>1, <1>3, <1>5, <1>6, <1>7, <1>8, JobMoves DEF Kept

LEMMA ReadImagesSteps ==
  ASSUME JobsInv, NEW j \in Export!Jobs, Export!ReadImages(j)
  PROVE  JobsInv'
  <1>1. task[j] = "images" /\ Export!TaskFrame /\ Export!TypeOK /\ Kept(j) /\ Told(j)
    BY DEF Export!ReadImages, JobsInv
  <1>2. CASE /\ document[j].revision = binding[j].revision
             /\ document' = [document EXCEPT ![j].purged = binding[j].report \in purged]
             /\ Export!Proceed(j, "build") /\ UNCHANGED cancelled
    <2>1. task' = [task EXCEPT ![j] = "build"] /\ UNCHANGED <<timer, state, files>>
      BY <1>2 DEF Export!Proceed
    <2>2. document[j].report = binding[j].report /\ Read(binding[j])
      BY <1>1 DEF Told, Kept
    <2>3. document[j] \in [report : Reports, revision : 0..MaxDecisions, purged : BOOLEAN]
      BY <1>1, <2>2, DocumentsAssumption
         DEF Export!TypeOK, Export!Bindings, Read, Export!Unbound, Export!None
    <2>4. PICK held \in BOOLEAN : held = (binding[j].report \in purged)
      <3> WITNESS (binding[j].report \in purged) \in BOOLEAN
      <3> QED OBVIOUS
    <2>5. PICK b : b = [document[j] EXCEPT !.purged = held]
      OBVIOUS
    <2>6. b = [report |-> document[j].report, revision |-> document[j].revision, purged |-> held]
      BY <2>3, <2>5
    <2>7. b.report = binding[j].report /\ b.revision = binding[j].revision /\ b.purged = held
      BY <1>2, <2>2, <2>6
    <2>8. b \in Export!Bindings
      BY <2>3, <2>6 DEF Export!Bindings
    <2>9. document' = [document EXCEPT ![j] = b]
      BY <1>2, <2>4, <2>5
    <2>10. document'[j] = b /\ document' \in [Export!Jobs -> Export!Bindings]
      BY <1>1, <2>8, <2>9 DEF Export!TypeOK
    <2>11. task'[j] = "build"
      BY <1>1, <2>1 DEF Export!TypeOK
    <2>12. Export!TypeOK'
      BY <1>1, <1>2, <2>1, <2>10
         DEF Export!TaskFrame, Export!TypeOK, Export!source, Export!requests, Export!life
    <2>13. Told(j)'
      BY <1>1, <2>1, <2>2, <2>4, <2>7, <2>10, <2>11
         DEF Told, Kept, Export!TaskFrame, Read, Export!source
    <2>14. \A i \in Export!Jobs \ {j} : task'[i] = task[i] /\ document'[i] = document[i]
      BY <1>2, <2>1
    <2> QED BY <1>1, <2>1, <2>11, <2>12, <2>13, <2>14, JobMoves DEF Kept
  <1>3. CASE Export!Withdraw(j, "stale")
    BY <1>1, <1>3, Withdrawn
  <1> QED BY <1>2, <1>3 DEF Export!ReadImages

LEMMA BuildSteps ==
  ASSUME JobsInv, NEW j \in Export!Jobs, Export!Build(j)
  PROVE  JobsInv'
  <1>1. task[j] = "build" /\ Export!TaskFrame /\ Export!TypeOK /\ Kept(j) /\ Told(j)
    BY DEF Export!Build, JobsInv
  <1>2. CASE Export!Proceed(j, "recheck") /\ UNCHANGED <<cancelled, document>>
    <2>1. task'[j] = "recheck" /\ UNCHANGED <<state, files, document>>
      BY <1>1, <1>2 DEF Export!Proceed, Export!TypeOK
    <2>2. Export!TypeOK'
      BY <1>1, <1>2 DEF Export!Proceed, Export!TaskFrame, Export!TypeOK, Export!source,
         Export!requests, Export!life
    <2>3. Told(j)'
      BY <1>1, <2>1 DEF Told, Kept, Export!TaskFrame, Read, Export!source
    <2>4. \A i \in Export!Jobs \ {j} : task'[i] = task[i]
      BY <1>2 DEF Export!Proceed
    <2> QED BY <1>1, <2>1, <2>2, <2>3, <2>4, JobMoves DEF Kept
  <1>3. CASE \E how \in {"stale", "failed"} : Export!Withdraw(j, how)
    BY <1>1, <1>3, Withdrawn
  <1> QED BY <1>2, <1>3 DEF Export!Build

LEMMA RecheckSteps ==
  ASSUME JobsInv, NEW j \in Export!Jobs, Export!Recheck(j)
  PROVE  JobsInv'
  <1>1. task[j] = "recheck" /\ Export!TaskFrame /\ Export!TypeOK /\ Kept(j) /\ Told(j)
    BY DEF Export!Recheck, JobsInv
  <1>2. CASE Export!Current(j) /\ task' = [task EXCEPT ![j] = "write"]
             /\ files' = files \union {j} /\ UNCHANGED <<timer, state, cancelled, document>>
    <2>1. task'[j] = "write"
      BY <1>1, <1>2 DEF Export!TypeOK
    <2>2. Export!TypeOK'
      BY <1>1, <1>2
         DEF Export!TaskFrame, Export!TypeOK, Export!source, Export!requests, Export!life
    <2>3. /\ document[j].report = binding[j].report /\ document[j].revision = binding[j].revision
          /\ Read(document[j]) /\ (binding[j].purged => document[j].purged)
          /\ binding[j].report \in Reports
      BY <1>1 DEF Told, Kept, Read
    <2>4. binding[j].purged = (binding[j].report \in purged)
      BY <1>2, <2>3 DEF Export!Current, Export!Binding
    <2>5. /\ document[j] \in [report : Reports, revision : 0..MaxDecisions, purged : BOOLEAN]
          /\ binding[j] \in [report : Reports, revision : 0..MaxDecisions, purged : BOOLEAN]
      BY <1>1, <2>3, DocumentsAssumption
         DEF Export!TypeOK, Export!Bindings, Export!Unbound, Export!None
    <2>6. document[j].purged = binding[j].purged
      BY <2>3, <2>4, <2>5 DEF Read
    <2>7. document[j] = binding[j]
      BY <2>3, <2>5, <2>6
    <2>8. Told(j)'
      BY <1>1, <1>2, <2>1, <2>7 DEF Told, Kept, Export!TaskFrame, Read, Export!source
    <2>9. \A i \in Export!Jobs \ {j} : task'[i] = task[i]
      BY <1>2
    <2> QED BY <1>1, <1>2, <2>1, <2>2, <2>8, <2>9, JobMoves DEF Kept
  <1>3. CASE Export!Withdraw(j, "stale")
    BY <1>1, <1>3, Withdrawn
  <1> QED BY <1>2, <1>3 DEF Export!Recheck

LEMMA WriteFileSteps ==
  ASSUME JobsInv, NEW j \in Export!Jobs, Export!Write(j)
  PROVE  JobsInv'
  <1>1. task[j] = "write" /\ Export!TaskFrame /\ Export!TypeOK /\ Kept(j) /\ Told(j)
    BY DEF Export!Write, JobsInv
  <1>2. CASE Export!Close(j, "ready") /\ UNCHANGED <<files, cancelled, document>>
    <2>1. task'[j] = "none" /\ state'[j] = "ready"
      BY <1>1, <1>2 DEF Export!Close, Export!TypeOK
    <2>2. Export!TypeOK'
      BY <1>1, <1>2 DEF Export!Close, Export!TaskFrame, Export!TypeOK, Export!source,
         Export!requests, Export!life, Export!Closed
    <2>3. Told(j)'
      BY <1>1, <1>2, <2>1 DEF Told, Kept, Export!TaskFrame, Read, Export!source
    <2>4. \A i \in Export!Jobs \ {j} : task'[i] = task[i] /\ state'[i] = state[i]
      BY <1>2 DEF Export!Close
    <2> QED BY <1>1, <1>2, <2>1, <2>2, <2>3, <2>4, JobMoves
  <1>3. CASE Export!Withdraw(j, "failed")
    BY <1>1, <1>3, Withdrawn
  <1> QED BY <1>2, <1>3 DEF Export!Write

LEMMA BreakSteps ==
  ASSUME JobsInv, NEW j \in Export!Jobs, Export!Break(j) \/ Export!Interrupt(j)
  PROVE  JobsInv'
  <1>1. task[j] # "none" /\ Export!TaskFrame /\ Export!TypeOK /\ Kept(j) /\ Told(j)
    BY DEF Export!Break, Export!Interrupt, JobsInv
  <1>2. CASE /\ UNCHANGED <<timer, state, files, task, document>>
             /\ cancelled' = cancelled \union {j}
    <2>1. Export!TypeOK'
      BY <1>1, <1>2
         DEF Export!TaskFrame, Export!TypeOK, Export!source, Export!requests, Export!life
    <2>2. Told(j)'
      BY <1>1, <1>2 DEF Told, Export!TaskFrame, Read, Export!source
    <2> QED BY <1>1, <1>2, <2>1, <2>2, JobMoves DEF Kept
  <1>3. CASE Export!Withdraw(j, "failed")
    BY <1>1, <1>3, Withdrawn
  <1> QED BY <1>2, <1>3 DEF Export!Break, Export!Interrupt

LEMMA FetchSteps ==
  ASSUME JobsInv, NEW c \in Clients, Export!Fetch(c)
  PROVE  JobsInv'
  <1>1. /\ at[c] = "find"
        /\ slot' = Export!SlotAfter(leases) /\ files' = Export!FilesAfter(leases)
        /\ UNCHANGED <<Export!source, Export!life, timer, Export!task, state, aged>>
    BY DEF Export!Fetch, Export!Expire, Export!SlotKept, Export!FilesKept
  <1>2. Export!TypeOK /\ Serving(c)
    BY DEF JobsInv
  <1>3. CASE Export!Answered(c) /\ UNCHANGED leases
    <2>1. Refused
      BY <1>1, <1>3 DEF Refused
    <2>2. slot' # slot => ~Export!Preparing /\ slot \notin files'
      BY <1>1, <1>2, Expiring DEF Export!Preparing
    <2>3. /\ \A j \in Export!Jobs : Kept(j)' /\ Told(j)'
          /\ \A d \in Clients : Serving(d)'
          /\ at' \in [Clients -> {"idle", "prepare", "find", "stream"}]
          /\ seen' \in [Clients -> Export!Bindings]
          /\ wants' \in [Clients -> Export!Jobs \union {Export!None}]
      BY <1>1, <1>2, <1>3, <2>1, <2>2, Expiring, GivenUp
    <2>4. Export!TypeOK'
      BY <1>1, <1>2, <1>3, <2>3, Expiring
         DEF Export!TypeOK, Export!source, Export!life, Export!task
    <2> QED BY <2>3, <2>4 DEF JobsInv
  <1>4. CASE /\ Export!Found(c) /\ at' = [at EXCEPT ![c] = "stream"]
             /\ leases' = [leases EXCEPT ![Export!SlotKept] = leases[Export!SlotKept] + 1]
             /\ UNCHANGED <<seen, wants>>
    <2>1. PICK j \in Export!Jobs : j = wants[c]
      BY <1>1, <1>2 DEF Serving
    <2>2. /\ slot' = j /\ Export!SlotKept = j /\ binding[j] = seen[c]
          /\ state[j] = "ready" /\ j \in files'
          /\ slot = j
      BY <1>1, <1>2, <1>4, <2>1, Expiring
         DEF Export!Found, Export!SlotKept, Export!FilesKept, Export!None, Export!Jobs
    <2>3. files' = files
      BY <1>1, <2>2 DEF Export!FilesAfter, Export!SlotAfter, Export!None, Export!Jobs
    <2>4. \A i \in Export!Jobs : leases'[i] = IF i = j THEN leases[i] + 1 ELSE leases[i]
      BY <1>2, <1>4, <2>2 DEF Export!TypeOK
    <2>5. at'[c] = "stream" /\ \A d \in Clients \ {c} : at'[d] = at[d]
      BY <1>2, <1>4 DEF Export!TypeOK
    <2>6. ASSUME NEW i \in Export!Jobs PROVE Kept(i)' /\ Told(i)'
      <3>1. Kept(i) /\ Told(i) /\ leases[i] \in Nat
        BY DEF JobsInv, Export!TypeOK
      <3>2. leases'[i] = Cardinality(Holders(i)')
        <4>1. CASE i = j
          <5>1. Holders(i)' = Holders(i) \union {c} /\ c \notin Holders(i)
            BY <1>1, <1>4, <2>1, <2>5, <4>1 DEF Holders
          <5>2. IsFiniteSet(Holders(i))
            BY FS_Subset, DocumentsAssumption DEF Holders
          <5>3. Cardinality(Holders(i)') = Cardinality(Holders(i)) + 1
            BY <5>1, <5>2, FS_AddElement
          <5> QED BY <2>4, <3>1, <4>1, <5>3 DEF Kept
        <4>2. CASE i # j
          <5>1. Holders(i)' = Holders(i)
            BY <1>1, <1>4, <2>1, <2>5, <4>2 DEF Holders
          <5> QED BY <2>4, <3>1, <4>2, <5>1 DEF Kept
        <4> QED BY <4>1, <4>2
      <3>3. Kept(i)'
        BY <1>1, <2>2, <2>3, <2>4, <3>1, <3>2 DEF Kept, Export!task
      <3>4. Told(i)'
        BY <1>1, <3>1 DEF Told, Read, Export!task, Export!source
      <3> QED BY <3>3, <3>4
    <2>7. ASSUME NEW d \in Clients PROVE Serving(d)'
      <3>1. Serving(d)
        BY DEF JobsInv
      <3> QED
        BY <1>1, <1>4, <2>1, <2>2, <2>3, <2>5, <3>1
           DEF Serving, Read, Export!task, Export!source
    <2>8. leases' \in [Export!Jobs -> 0..Cardinality(Clients)]
      <3>1. \A i \in Export!Jobs : leases'[i] = Cardinality(Holders(i)')
        BY <2>6 DEF Kept
      <3>2. \A i \in Export!Jobs : Cardinality(Holders(i)') \in 0..Cardinality(Clients)
        <4>1. ASSUME NEW i \in Export!Jobs
              PROVE  Cardinality(Holders(i)') \in 0..Cardinality(Clients)
          <5>1. PICK S \in SUBSET Clients : S = Holders(i)'
            BY DEF Holders
          <5> QED BY <5>1, SubsetCount
        <4> QED BY <4>1
      <3>3. leases \in [Export!Jobs -> 0..Cardinality(Clients)]
        BY <1>2, SameCount DEF Export!TypeOK
      <3>4. leases' = [i \in Export!Jobs |-> leases'[i]]
        BY <1>4, <3>3
      <3>5. \A i \in Export!Jobs : leases'[i] \in 0..Cardinality(Clients)
        BY <3>1, <3>2
      <3> QED BY <3>4, <3>5
    <2>9. Export!TypeOK'
      BY <1>1, <1>2, <1>4, <2>2, <2>3, <2>8, SameCount
         DEF Export!TypeOK, Export!source, Export!life, Export!task
    <2> QED BY <2>6, <2>7, <2>9 DEF JobsInv
  <1> QED BY <1>3, <1>4 DEF Export!Fetch

LEMMA EndDownloadSteps ==
  ASSUME JobsInv, NEW c \in Clients, Export!EndDownload(c)
  PROVE  JobsInv'
  <1>1. Export!TypeOK /\ Serving(c)
    BY DEF JobsInv
  <1>2. /\ at[c] = "stream" /\ Export!Answered(c)
        /\ UNCHANGED <<Export!source, Export!life, timer, Export!task, state, aged>>
    BY DEF Export!EndDownload
  <1>3. PICK j \in Export!Jobs : j = wants[c]
    BY <1>1, <1>2 DEF Serving
  <1>4. /\ leases' = [leases EXCEPT ![j] = leases[j] - 1]
        /\ slot' = Export!SlotAfter(leases')
        /\ files' = IF Export!Orphaned(j, slot')
                      THEN Export!Cleaned(j, Export!FilesAfter(leases'), leases')
                    ELSE Export!FilesAfter(leases')
    BY <1>3 DEF Export!EndDownload
  <1>5. Kept(j) /\ leases[j] > 0 /\ state[j] = "ready"
    BY <1>1, <1>2, <1>3, LeaseHeld DEF JobsInv
  <1>6. \A i \in Export!Jobs : leases'[i] = IF i = j THEN leases[i] - 1 ELSE leases[i]
    BY <1>1, <1>4 DEF Export!TypeOK
  <1>7. /\ slot' \in {slot, Export!None} /\ files' \subseteq files
        /\ slot' # slot => state[slot] # "preparing" /\ slot \notin files'
        /\ \A i \in files \ files' : leases'[i] = 0
    BY <1>1, <1>4, Expiring DEF Export!Cleaned
  <1>8. slot' # j /\ j \in files' => leases'[j] # 0
    BY <1>4 DEF Export!Orphaned, Export!Cleaned
  <1>9. \A d \in Clients :
          \/ at'[d] = at[d] /\ seen'[d] = seen[d] /\ wants'[d] = wants[d] /\ d # c
          \/ d = c /\ at'[d] = "idle"
    BY <1>1, <1>2 DEF Export!Answered, Export!TypeOK
  <1>10. ASSUME NEW i \in Export!Jobs
         PROVE  leases'[i] = Cardinality(Holders(i)') /\ leases'[i] \in Nat
    <2>1. Kept(i) /\ leases[i] \in Nat
      BY DEF JobsInv, Export!TypeOK
    <2>2. CASE i = j
      <3>1. Holders(i)' = Holders(i) \ {c} /\ c \in Holders(i)
        BY <1>2, <1>3, <1>9, <2>2 DEF Holders
      <3>2. IsFiniteSet(Holders(i))
        BY FS_Subset, DocumentsAssumption DEF Holders
      <3>3. Cardinality(Holders(i)') = Cardinality(Holders(i)) - 1
        BY <3>1, <3>2, FS_RemoveElement
      <3> QED BY <1>5, <1>6, <2>1, <2>2, <3>3 DEF Kept
    <2>3. CASE i # j
      <3>1. Holders(i)' = Holders(i)
        BY <1>3, <1>9, <2>3 DEF Holders
      <3> QED BY <1>6, <2>1, <2>3, <3>1 DEF Kept
    <2> QED BY <2>2, <2>3
  <1>11. ASSUME NEW i \in Export!Jobs PROVE Kept(i)' /\ Told(i)'
    <2>1. Kept(i) /\ Told(i)
      BY DEF JobsInv
    <2>2. i \in files' => i = slot' \/ leases'[i] > 0
      BY <1>6, <1>7, <1>8, <1>10, <2>1 DEF Kept
    <2>3. leases'[i] > 0 => state[i] = "ready"
      BY <1>5, <1>6, <2>1 DEF Kept
    <2>4. Kept(i)'
      BY <1>2, <1>7, <1>10, <2>1, <2>2, <2>3 DEF Kept, Export!task
    <2>5. Told(i)'
      BY <1>2, <2>1 DEF Told, Read, Export!task, Export!source
    <2> QED BY <2>4, <2>5
  <1>12. ASSUME NEW d \in Clients PROVE Serving(d)'
    <2>1. Serving(d)
      BY DEF JobsInv
    <2>2. CASE d = c
      BY <1>9, <2>2 DEF Serving
    <2>3. CASE d # c /\ at[d] = "stream"
      <3>1. PICK i \in Export!Jobs : i = wants[d]
        BY <2>1, <2>3 DEF Serving
      <3>2. d \in Holders(i)' /\ IsFiniteSet(Holders(i)')
        BY <1>9, <2>3, <3>1, FS_Subset, DocumentsAssumption DEF Holders
      <3>3. Cardinality(Holders(i)') # 0
        BY <3>2, FS_EmptySet
      <3>4. leases'[i] = Cardinality(Holders(i)')
        BY <1>10
      <3>5. leases'[wants[d]] # 0
        BY <3>1, <3>3, <3>4
      <3> QED BY <1>2, <1>7, <1>9, <2>1, <2>3, <3>5 DEF Serving, Read, Export!task, Export!source
    <2>4. CASE d # c /\ at[d] # "stream"
      BY <1>2, <1>9, <2>1, <2>4 DEF Serving, Read, Export!task, Export!source
    <2> QED BY <2>2, <2>3, <2>4
  <1>13. Export!TypeOK'
    <2>1. \A i \in Export!Jobs : leases'[i] \in 0..Cardinality(Clients)
      <3>1. ASSUME NEW i \in Export!Jobs PROVE leases'[i] <= leases[i] /\ leases'[i] \in Nat
        BY <1>1, <1>6, <1>10 DEF Export!TypeOK
      <3>2. /\ Cardinality(Clients) \in Nat
            /\ \A i \in Export!Jobs : leases[i] <= Cardinality(Clients)
        BY <1>1, SameCount, FS_CardinalityType, DocumentsAssumption DEF Export!TypeOK
      <3>3. \A i \in Export!Jobs : leases[i] \in Nat
        BY <1>1 DEF Export!TypeOK
      <3> QED BY <3>1, <3>2, <3>3
    <2>2. leases' \in [Export!Jobs -> 0..Cardinality(Clients)]
      BY <1>1, <1>4, <2>1 DEF Export!TypeOK
    <2> QED
      BY <1>1, <1>2, <1>7, <2>2, SameCount
         DEF Export!TypeOK, Export!source, Export!life, Export!task, Export!Answered,
             Export!Bindings
  <1> QED BY <1>11, <1>12, <1>13 DEF JobsInv

-----------------------------------------------------------------------------
(* Documents: the theorem.                                                 *)

LEMMA JobsInit == Export!Init => JobsInv
  <1> SUFFICES ASSUME Export!Init PROVE JobsInv
    OBVIOUS
  <1>1. Export!TypeOK
    <2>1. /\ 0 \in 0..Cardinality(Clients) /\ 0 \in 0..MaxDecisions /\ 0 \in 0..MaxStarts
          /\ Export!Unbound \in Export!Bindings
      BY FS_CardinalityType, DocumentsAssumption DEF Export!Bindings
    <2> QED BY <2>1, SameCount DEF Export!Init, Export!TypeOK
  <1>2. ASSUME NEW j \in Export!Jobs PROVE Kept(j) /\ Told(j)
    <2>1. Holders(j) = {} /\ Cardinality({}) = 0
      BY FS_EmptySet DEF Export!Init, Holders
    <2> QED BY <2>1 DEF Export!Init, Kept, Told
  <1>3. ASSUME NEW c \in Clients PROVE Serving(c)
    BY DEF Export!Init, Serving
  <1> QED BY <1>1, <1>2, <1>3 DEF JobsInv

LEMMA JobsNext == JobsInv /\ [Export!Next]_(Export!vars) => JobsInv'
  <1> SUFFICES ASSUME JobsInv, [Export!Next]_(Export!vars) PROVE JobsInv'
    OBVIOUS
  <1>1. CASE UNCHANGED Export!vars
    <2>1. /\ UNCHANGED <<Export!source, Export!requests, slot, Export!task, state, files, leases>>
          /\ UNCHANGED <<timer, Export!life, aged>>
      BY <1>1 DEF Export!vars
    <2>2. /\ \A j \in Export!Jobs : Kept(j)' /\ Told(j)'
          /\ \A c \in Clients : Serving(c)'
      BY <2>1, GivenUp DEF Refused
    <2>3. Export!TypeOK'
      BY <2>1 DEF JobsInv, Export!TypeOK, Export!source, Export!requests, Export!task, Export!life
    <2> QED BY <2>2, <2>3 DEF JobsInv
  <1>2. ASSUME NEW j \in Export!Jobs, Export!RunStep(j) PROVE JobsInv'
    BY <1>2, CheckBindingSteps, ReadRowsSteps, ReadImagesSteps, BuildSteps, RecheckSteps,
       WriteFileSteps
       DEF Export!RunStep
  <1> QED
    BY <1>1, <1>2, SourceSteps, RequestSteps, PrepareKnownSteps, PrepareNewSteps, FetchSteps,
       EndDownloadSteps, BreakSteps, IdleSteps, ExpirySteps, ShutdownSteps DEF Export!Next

LEMMA JobsPromise ==
  JobsInv => /\ Export!TypeOK /\ Export!ReadyIsWhole /\ Export!ServedAsSeen
             /\ Export!SourceStays /\ Export!FileKept /\ Export!Accounted
  <1> SUFFICES ASSUME JobsInv
               PROVE  /\ Export!TypeOK /\ Export!ReadyIsWhole /\ Export!ServedAsSeen
                      /\ Export!SourceStays /\ Export!FileKept /\ Export!Accounted
    OBVIOUS
  <1>1. Export!ReadyIsWhole
    BY DEF JobsInv, Told, Export!ReadyIsWhole
  <1>2. ASSUME NEW c \in Export!Streaming
        PROVE  /\ wants[c] \in files /\ document[wants[c]] = seen[c]
               /\ (seen[c].report \in purged) = document[wants[c]].purged
    <2>1. at[c] = "stream" /\ c \in Clients /\ Serving(c) /\ wants[c] \in Export!Jobs
      BY DEF Export!Streaming, JobsInv, Serving
    <2>2. state[wants[c]] = "ready"
      BY <2>1, LeaseHeld DEF JobsInv
    <2>3. document[wants[c]] = seen[c] /\ wants[c] \in files
      BY <2>1, <2>2 DEF JobsInv, Told, Serving
    <2>4. seen[c] \in [report : Reports, revision : 0..MaxDecisions, purged : BOOLEAN]
      BY <2>1, DocumentsAssumption
         DEF JobsInv, Export!TypeOK, Serving, Read, Export!Bindings, Export!Unbound, Export!None
    <2>5. (seen[c].report \in purged) = seen[c].purged
      BY <2>1, <2>4 DEF Serving, Read
    <2> QED BY <2>3, <2>5
  <1>3. Export!Accounted
    BY DEF JobsInv, Kept, Export!TypeOK, Export!Accounted
  <1> QED
    BY <1>1, <1>2, <1>3 DEF JobsInv, Export!ServedAsSeen, Export!SourceStays, Export!FileKept

\* What each job has read and who holds its file, in every behaviour.
THEOREM JobsInductive == Export!Spec => []JobsInv
  BY JobsInit, JobsNext, PTL DEF Export!Spec

\* Prepared documents, in every behaviour of the requests, the job's task,
\* decisions, purges, expiry and shutdown.
THEOREM DocumentsTheorem == Export!Spec => []DocumentsAreTrue
  <1>1. JobsInv => DocumentsAreTrue
    BY JobsPromise DEF DocumentsAreTrue
  <1> QED BY <1>1, JobsInductive, PTL

-----------------------------------------------------------------------------
(* The score: induction over finite sets and numbers up to a bound, by way *)
(* of a least counterexample.                                              *)

LEMMA SetsUpTo ==
  ASSUME NEW S, IsFiniteSet(S), NEW C,
         \A T \in SUBSET S : (\A x \in T : T \ {x} \in C) => T \in C
  PROVE  \A T \in SUBSET S : T \in C
  <1> DEFINE Left == {T \in SUBSET S : T \notin C}
  <1> SUFFICES ASSUME Left # {} PROVE FALSE
    OBVIOUS
  <1>1. IsWellFoundedOn(StrictSubsetOrdering(S), SUBSET S)
    <2>1. FiniteSubsetsOf(S) = SUBSET S
      BY FS_FiniteSubsetsOfFinite
    <2>2. IsWellFoundedOn(StrictSubsetOrdering(S), FiniteSubsetsOf(S))
      BY FS_StrictSubsetOrderingWellFounded
    <2> QED BY <2>1, <2>2, Zenon
  <1>2. PICK T \in Left : \A R \in Left : ~(<<R, T>> \in StrictSubsetOrdering(S))
    <2>1. Left \subseteq SUBSET S
      OBVIOUS
    <2> HIDE DEF Left
    <2> QED BY <1>1, <2>1, WFMin
  <1>3. ASSUME NEW x \in T PROVE T \ {x} \in C
    <2>1. T \in SUBSET S /\ T \ {x} \in SUBSET S /\ T \ {x} # T
      BY <1>2
    <2>2. <<T \ {x}, T>> \in StrictSubsetOrdering(S)
      BY <2>1 DEF StrictSubsetOrdering
    <2> QED BY <1>2, <2>1, <2>2
  <1> QED BY <1>2, <1>3

LEMMA NumbersUpTo ==
  ASSUME NEW m \in Nat, NEW S, 0 \in S, \A n \in 1..m : n - 1 \in S => n \in S
  PROVE  \A n \in 0..m : n \in S
  <1> DEFINE C == {T \in SUBSET (1..m) : \A n \in 0..m : T = 1..n => n \in S}
  <1>1. ASSUME NEW T \in SUBSET (1..m), \A x \in T : T \ {x} \in C
        PROVE  T \in C
    <2> SUFFICES ASSUME NEW n \in 0..m, T = 1..n PROVE n \in S
      OBVIOUS
    <2>1. CASE n = 0
      BY <2>1
    <2>2. CASE n # 0
      <3>1. n \in 1..m /\ n \in T /\ T \ {n} = 1..(n - 1)
        BY <2>2
      <3>2. n - 1 \in S
        BY <1>1, <3>1
      <3> QED BY <3>1, <3>2
    <2> QED BY <2>1, <2>2
  <1>2. IsFiniteSet(1..m)
    BY FS_Interval
  <1>3. \A T \in SUBSET (1..m) : T \in C
    <2> HIDE DEF C
    <2> QED BY <1>1, <1>2, SetsUpTo
  <1> SUFFICES ASSUME NEW n \in 0..m PROVE n \in S
    OBVIOUS
  <1>4. 1..n \in SUBSET (1..m)
    OBVIOUS
  <1> QED BY <1>3, <1>4

-----------------------------------------------------------------------------
(* Sums of the values of a function over a finite set.                     *)

\* sums[s] is what f adds up to over s, taking one element of s after the other.
Sums(sums, f, S) ==
  sums = [s \in SUBSET S |->
            IF s = {} THEN 0
            ELSE LET x == CHOOSE x \in s : TRUE IN f[x] + sums[s \ {x}]]

LEMMA SumIsChosen ==
  ASSUME NEW f, NEW S
  PROVE  Score!SumFunctionOnSet(f, S) = (CHOOSE sums : Sums(sums, f, S))[S]
  BY DEF Score!SumFunctionOnSet, Score!FoldFunctionOnSet, Score!MapThenFoldSet, Sums

LEMMA SumsExist ==
  ASSUME NEW f, NEW S, IsFiniteSet(S)
  PROVE  \E sums : Sums(sums, f, S)
  <1> DEFINE m == Cardinality(S)
             Small(n) == {s \in SUBSET S : Cardinality(s) <= n}
             Pick(s) == CHOOSE x \in s : TRUE
             Upto(sums, n) ==
               sums = [s \in Small(n) |-> IF s = {} THEN 0 ELSE f[Pick(s)] + sums[s \ {Pick(s)}]]
             C == {n \in 0..m : \E sums : Upto(sums, n)}
  <1>1. m \in Nat /\ \A s \in SUBSET S : IsFiniteSet(s) /\ Cardinality(s) \in 0..m
    BY FS_Subset, FS_CardinalityType
  <1>2. ASSUME NEW s \in SUBSET S, s # {}
        PROVE  Pick(s) \in s /\ s \ {Pick(s)} \in SUBSET S /\ Cardinality(s \ {Pick(s)}) = Cardinality(s) - 1
    <2>1. Pick(s) \in s
      BY <1>2
    <2> HIDE DEF Pick
    <2> QED BY <1>1, <2>1, FS_RemoveElement
  <1>3. 0 \in C
    <2> DEFINE g == [s \in Small(0) |-> 0]
    <2>1. \A s \in Small(0) : s = {}
      BY <1>1, FS_EmptySet
    <2>2. Upto(g, 0)
      <3> HIDE DEF Small
      <3> QED BY <2>1
    <2> HIDE DEF g, Upto
    <2> QED BY <1>1, <2>2
  <1>4. ASSUME NEW n \in 1..m, n - 1 \in C PROVE n \in C
    <2>1. PICK g : Upto(g, n - 1)
      BY <1>4
    <2> DEFINE h == [s \in Small(n) |-> IF s \in Small(n - 1) THEN g[s] ELSE f[Pick(s)] + g[s \ {Pick(s)}]]
    <2>2. ASSUME NEW s \in Small(n), s # {}
          PROVE  s \ {Pick(s)} \in Small(n - 1) /\ s \ {Pick(s)} \in Small(n)
      <3> HIDE DEF Pick
      <3>1. s \in SUBSET S /\ Cardinality(s) \in 0..m /\ Cardinality(s) <= n
        BY <1>1
      <3> QED BY <1>2, <2>2, <3>1
    <2>3. ASSUME NEW s \in Small(n)
          PROVE  h[s] = IF s = {} THEN 0 ELSE f[Pick(s)] + h[s \ {Pick(s)}]
      <3> HIDE DEF Small, Pick
      <3>1. CASE s \in Small(n - 1)
        <4>1. h[s] = g[s]
          BY <3>1
        <4>2. g[s] = IF s = {} THEN 0 ELSE f[Pick(s)] + g[s \ {Pick(s)}]
          BY <2>1, <3>1
        <4>3. s # {} => h[s \ {Pick(s)}] = g[s \ {Pick(s)}]
          BY <2>2
        <4> HIDE DEF h
        <4> QED BY <4>1, <4>2, <4>3
      <3>2. CASE s \notin Small(n - 1)
        <4>1. s # {}
          <5>1. {} \in Small(n - 1)
            BY <1>4, FS_EmptySet DEF Small
          <5> QED BY <3>2, <5>1
        <4>2. h[s] = f[Pick(s)] + g[s \ {Pick(s)}]
          BY <3>2
        <4>3. h[s \ {Pick(s)}] = g[s \ {Pick(s)}]
          BY <2>2, <4>1
        <4> HIDE DEF h
        <4> QED BY <4>1, <4>2, <4>3
      <3> QED BY <3>1, <3>2
    <2>4. Upto(h, n)
      <3>1. h = [s \in Small(n) |-> h[s]]
        <4> HIDE DEF Small, Pick
        <4> QED OBVIOUS
      <3> HIDE DEF h, Small, Pick
      <3> QED BY <2>3, <3>1
    <2> HIDE DEF h, Upto
    <2> QED BY <2>4
  <1>5. m \in C
    <2> HIDE DEF C
    <2> QED BY <1>1, <1>3, <1>4, NumbersUpTo
  <1>6. PICK g : Upto(g, m)
    BY <1>5
  <1>7. Small(m) = SUBSET S
    BY <1>1
  <1> QED BY <1>6, <1>7 DEF Sums

LEMMA SumsAgree ==
  ASSUME NEW f, NEW S, IsFiniteSet(S), NEW g, NEW h, Sums(g, f, S), Sums(h, f, S)
  PROVE  g = h
  <1> DEFINE C == {T \in SUBSET S : g[T] = h[T]}
  <1>1. ASSUME NEW T \in SUBSET S, \A x \in T : T \ {x} \in C PROVE T \in C
    <2>1. CASE T = {}
      BY <2>1 DEF Sums
    <2>2. CASE T # {}
      <3> DEFINE y == CHOOSE x \in T : TRUE
      <3>1. y \in T
        BY <2>2
      <3>2. g[T] = f[y] + g[T \ {y}] /\ h[T] = f[y] + h[T \ {y}]
        BY <2>2 DEF Sums
      <3> HIDE DEF y
      <3> QED BY <1>1, <3>1, <3>2
    <2> QED BY <2>1, <2>2
  <1>2. \A T \in SUBSET S : T \in C
    <2> HIDE DEF C
    <2> QED BY <1>1, SetsUpTo
  <1>3. g = [T \in SUBSET S |-> g[T]] /\ h = [T \in SUBSET S |-> h[T]]
    BY DEF Sums
  <1> QED BY <1>2, <1>3

\* The sum over a part is found among the sums of the whole.
LEMMA SumIs ==
  ASSUME NEW f, NEW S, IsFiniteSet(S), NEW g, Sums(g, f, S), NEW T \in SUBSET S
  PROVE  Score!SumFunctionOnSet(f, T) = g[T]
  <1> DEFINE h == [s \in SUBSET T |-> g[s]]
             k == CHOOSE sums : Sums(sums, f, T)
  <1>1. IsFiniteSet(T)
    BY FS_Subset
  <1>2. Sums(h, f, T)
    <2>1. ASSUME NEW s \in SUBSET T
          PROVE  h[s] = IF s = {} THEN 0 ELSE LET x == CHOOSE x \in s : TRUE IN f[x] + h[s \ {x}]
      <3> DEFINE y == CHOOSE x \in s : TRUE
      <3>1. g[s] = IF s = {} THEN 0 ELSE f[y] + g[s \ {y}]
        BY DEF Sums
      <3>2. h[s \ {y}] = g[s \ {y}] /\ h[s] = g[s]
        OBVIOUS
      <3> HIDE DEF h
      <3> QED BY <3>1, <3>2
    <2>2. h = [s \in SUBSET T |-> h[s]]
      OBVIOUS
    <2> HIDE DEF h
    <2> QED BY <2>1, <2>2 DEF Sums
  <1>3. Sums(k, f, T)
    <2> HIDE DEF h
    <2> QED BY <1>2
  <1>4. k = h
    <2> HIDE DEF h, k
    <2> QED BY <1>1, <1>2, <1>3, SumsAgree
  <1> QED BY <1>4, SumIsChosen

\* Any element can be taken first.
LEMMA SumSteps ==
  ASSUME NEW f, NEW S, IsFiniteSet(S), \A x \in S : f[x] \in Int
  PROVE  /\ Score!SumFunctionOnSet(f, {}) = 0
         /\ \A T \in SUBSET S :
              /\ Score!SumFunctionOnSet(f, T) \in Int
              /\ \A x \in T : Score!SumFunctionOnSet(f, T) = f[x] + Score!SumFunctionOnSet(f, T \ {x})
  <1>1. PICK g : Sums(g, f, S)
    BY SumsExist
  <1> DEFINE C == {T \in SUBSET S : g[T] \in Int}
             D == {T \in SUBSET S : \A x \in T : g[T] = f[x] + g[T \ {x}]}
  <1>2. g[{}] = 0
    BY <1>1 DEF Sums
  <1>3. ASSUME NEW T \in SUBSET S, T # {}
        PROVE  \E y \in T : g[T] = f[y] + g[T \ {y}]
    BY <1>1, <1>3 DEF Sums
  <1>4. \A T \in SUBSET S : T \in C
    <2>1. ASSUME NEW T \in SUBSET S, \A x \in T : T \ {x} \in C PROVE T \in C
      <3>1. CASE T = {}
        BY <1>2, <3>1
      <3>2. CASE T # {}
        <4>1. PICK y \in T : g[T] = f[y] + g[T \ {y}]
          BY <1>3, <3>2
        <4>2. g[T \ {y}] \in Int /\ f[y] \in Int
          BY <2>1
        <4> QED BY <4>1, <4>2
      <3> QED BY <3>1, <3>2
    <2> HIDE DEF C
    <2> QED BY <2>1, SetsUpTo
  <1>5. \A T \in SUBSET S : T \in D
    <2>1. ASSUME NEW T \in SUBSET S, \A x \in T : T \ {x} \in D PROVE T \in D
      <3> SUFFICES ASSUME NEW x \in T PROVE g[T] = f[x] + g[T \ {x}]
        OBVIOUS
      <3>1. PICK y \in T : g[T] = f[y] + g[T \ {y}]
        BY <1>3
      <3>2. CASE x # y
        <4>1. /\ g[T \ {y}] = f[x] + g[(T \ {y}) \ {x}]
              /\ g[T \ {x}] = f[y] + g[(T \ {x}) \ {y}]
          BY <2>1, <3>2
        <4>2. (T \ {y}) \ {x} = (T \ {x}) \ {y}
          OBVIOUS
        <4>3. g[(T \ {x}) \ {y}] \in Int /\ f[x] \in Int /\ f[y] \in Int
          BY <1>4
        <4>4. g[T \ {x}] = f[y] + g[(T \ {y}) \ {x}]
          BY <4>1, <4>2
        <4>5. g[(T \ {y}) \ {x}] \in Int
          BY <4>2, <4>3
        <4> QED BY <3>1, <4>1, <4>3, <4>4, <4>5
      <3> QED BY <3>1, <3>2
    <2> HIDE DEF D
    <2> QED BY <2>1, SetsUpTo
  <1>6. \A T \in SUBSET S : Score!SumFunctionOnSet(f, T) = g[T]
    BY <1>1, SumIs
  <1> QED BY <1>2, <1>4, <1>5, <1>6

\* A sum of more, and of larger values.
LEMMA SumMost ==
  ASSUME NEW S, IsFiniteSet(S), NEW R \in SUBSET S, NEW f, NEW h,
         \A x \in S : h[x] \in Nat, \A x \in R : f[x] \in Nat /\ f[x] <= h[x]
  PROVE  /\ Score!SumFunctionOnSet(f, R) \in Nat
         /\ Score!SumFunctionOnSet(f, R) <= Score!SumFunctionOnSet(h, S)
  <1> DEFINE F(T) == Score!SumFunctionOnSet(f, R \intersect T)
             H(T) == Score!SumFunctionOnSet(h, T)
             C == {T \in SUBSET S : F(T) \in Nat /\ H(T) \in Int /\ F(T) <= H(T)}
  <1>1. IsFiniteSet(R)
    BY FS_Subset
  <1>2. ASSUME NEW T \in SUBSET S, \A x \in T : T \ {x} \in C PROVE T \in C
    <2>1. CASE T = {}
      <3>1. F(T) = 0 /\ H(T) = 0
        BY <1>1, <2>1, SumSteps
      <3> QED BY <3>1
    <2>2. CASE T # {}
      <3>1. PICK x \in T : TRUE
        BY <2>2
      <3>2. H(T) = h[x] + H(T \ {x}) /\ H(T) \in Int
        BY SumSteps
      <3>3. F(T \ {x}) \in Nat /\ F(T \ {x}) <= H(T \ {x}) /\ H(T \ {x}) \in Int
        BY <1>2
      <3>4. CASE x \in R
        <4>1. (R \intersect T) \ {x} = R \intersect (T \ {x}) /\ R \intersect T \in SUBSET R
          OBVIOUS
        <4>2. F(T) = f[x] + F(T \ {x})
          BY <1>1, <3>4, <4>1, SumSteps
        <4> HIDE DEF F, H
        <4> QED BY <3>2, <3>3, <3>4, <4>2
      <3>5. CASE x \notin R
        <4>1. R \intersect T = R \intersect (T \ {x})
          BY <3>5
        <4>2. F(T) = F(T \ {x})
          BY <4>1
        <4> HIDE DEF F, H
        <4> QED BY <3>2, <3>3, <4>2
      <3> QED BY <3>4, <3>5
    <2> QED BY <2>1, <2>2
  <1>3. S \in C
    <2> HIDE DEF C
    <2> QED BY <1>2, SetsUpTo
  <1>4. R \intersect S = R
    OBVIOUS
  <1> QED BY <1>3, <1>4

\* A sum of the same values.
LEMMA SumSame ==
  ASSUME NEW S, IsFiniteSet(S), NEW f, NEW h, \A x \in S : f[x] \in Nat /\ h[x] = f[x]
  PROVE  Score!SumFunctionOnSet(f, S) = Score!SumFunctionOnSet(h, S)
  <1>1. /\ Score!SumFunctionOnSet(f, S) \in Nat
        /\ Score!SumFunctionOnSet(f, S) <= Score!SumFunctionOnSet(h, S)
    BY SumMost
  <1>2. /\ Score!SumFunctionOnSet(h, S) \in Nat
        /\ Score!SumFunctionOnSet(h, S) <= Score!SumFunctionOnSet(f, S)
    BY SumMost
  <1> QED BY <1>1, <1>2

\* A sum of percentages.
LEMMA SumPercent ==
  ASSUME NEW S, IsFiniteSet(S), NEW f, NEW w,
         \A x \in S : f[x] \in Nat /\ w[x] \in Nat /\ f[x] <= 100 * w[x]
  PROVE  Score!SumFunctionOnSet(f, S) <= 100 * Score!SumFunctionOnSet(w, S)
  <1> DEFINE F(T) == Score!SumFunctionOnSet(f, T)
             W(T) == Score!SumFunctionOnSet(w, T)
             C == {T \in SUBSET S : F(T) <= 100 * W(T)}
  <1>1. F({}) = 0 /\ \A T \in SUBSET S : F(T) \in Int /\ \A x \in T : F(T) = f[x] + F(T \ {x})
    <2>1. \A x \in S : f[x] \in Int
      OBVIOUS
    <2> QED BY <2>1, SumSteps, Zenon
  <1>2. W({}) = 0 /\ \A T \in SUBSET S : W(T) \in Int /\ \A x \in T : W(T) = w[x] + W(T \ {x})
    <2>1. \A x \in S : w[x] \in Int
      OBVIOUS
    <2> QED BY <2>1, SumSteps, Zenon
  <1>3. ASSUME NEW T \in SUBSET S, \A x \in T : T \ {x} \in C PROVE T \in C
    <2> HIDE DEF F, W
    <2>1. CASE T # {}
      <3>1. PICK x \in T : TRUE
        BY <2>1
      <3>2. T \ {x} \in SUBSET S /\ F(T \ {x}) <= 100 * W(T \ {x})
        BY <1>3
      <3>3. /\ F(T) = f[x] + F(T \ {x}) /\ F(T \ {x}) \in Int
            /\ W(T) = w[x] + W(T \ {x}) /\ W(T \ {x}) \in Int
        BY <1>1, <1>2, <3>1, <3>2
      <3>4. f[x] \in Nat /\ w[x] \in Nat /\ f[x] <= 100 * w[x]
        OBVIOUS
      <3>5. F(T) <= 100 * W(T)
        BY <3>2, <3>3, <3>4
      <3> QED BY <3>5
    <2>2. CASE T = {}
      BY <1>1, <1>2, <2>2
    <2> QED BY <2>1, <2>2
  <1>4. S \in C
    <2>1. \A T \in SUBSET S : T \in C
      <3> HIDE DEF C
      <3> QED BY <1>3, SetsUpTo
    <2> QED BY <2>1
  <1> QED BY <1>4

-----------------------------------------------------------------------------
(* Findings: what the loop over the rows leaves.                           *)

LEMMA LargestIs ==
  ASSUME NEW S, NEW x \in S, S \subseteq Int, \A y \in S : y <= x
  PROVE  Score!Max(S) = x
  <1>1. \A y \in S : x >= y
    OBVIOUS
  <1>2. Score!Max(S) \in S /\ \A y \in S : Score!Max(S) >= y
    BY <1>1 DEF Score!Max
  <1>3. Score!Max(S) \in Int /\ x \in Int /\ Score!Max(S) >= x /\ x >= Score!Max(S)
    BY <1>1, <1>2
  <1> QED BY <1>3

LEMMA SmallestIs ==
  ASSUME NEW S, NEW x \in S, S \subseteq Int, \A y \in S : x <= y
  PROVE  Score!Min(S) = x
  <1>1. \A y \in S : x <= y
    OBVIOUS
  <1>2. Score!Min(S) \in S /\ \A y \in S : Score!Min(S) <= y
    BY <1>1 DEF Score!Min
  <1>3. Score!Min(S) \in Int /\ x \in Int /\ Score!Min(S) <= x /\ x <= Score!Min(S)
    BY <1>1, <1>2
  <1> QED BY <1>3

Degrees == {"low", "med", "high"}

\* Of the rows C, whose identities and severities are given, w has the findings
\* with the most severe of their rows.
WorstOf(w, C, id, severity) ==
  /\ w = [f \in {id[i] : i \in C} |-> w[f]]
  /\ \A i \in C : Score!Rank(severity[i]) <= Score!Rank(w[id[i]])
  /\ \A i \in C : \E j \in C : id[j] = id[i] /\ w[id[i]] = severity[j]

LEMMA Ranks ==
  /\ \A s \in Degrees : Score!Rank(s) \in 1..3 /\ (Score!Rank(s) = 3 <=> s = "high")
  /\ \A r, s \in Degrees : Score!Rank(r) = Score!Rank(s) => r = s
  <1>1. Score!Rank("low") = 1 /\ Score!Rank("med") = 2 /\ Score!Rank("high") = 3
    BY DEF Score!Rank
  <1> QED BY <1>1 DEF Degrees

LEMMA WorstDegrees ==
  ASSUME NEW w, NEW C, NEW id, NEW severity, \A i \in C : severity[i] \in Degrees,
         WorstOf(w, C, id, severity)
  PROVE  DOMAIN w = {id[i] : i \in C} /\ \A f \in DOMAIN w : w[f] \in Degrees
  <1>1. DOMAIN w = {id[i] : i \in C}
    BY DEF WorstOf
  <1>2. ASSUME NEW f \in DOMAIN w PROVE w[f] \in Degrees
    <2>1. PICK i \in C : f = id[i]
      BY <1>1
    <2> QED BY <2>1 DEF WorstOf
  <1> QED BY <1>1, <1>2

\* One row more.
LEMMA WorstMore ==
  ASSUME NEW w, NEW C, NEW id, NEW severity, NEW i, \A j \in C \union {i} : severity[j] \in Degrees,
         WorstOf(w, C, id, severity), NEW v,
         v = IF id[i] \in DOMAIN w => Score!Rank(severity[i]) > Score!Rank(w[id[i]])
             THEN [f \in DOMAIN w \union {id[i]} |-> IF f = id[i] THEN severity[i] ELSE w[f]]
             ELSE w
  PROVE  WorstOf(v, C \union {i}, id, severity)
  <1>1. DOMAIN w = {id[j] : j \in C} /\ \A f \in DOMAIN w : w[f] \in Degrees
    BY WorstDegrees
  <1>2. \A j \in C : /\ Score!Rank(severity[j]) <= Score!Rank(w[id[j]])
                     /\ \E k \in C : id[k] = id[j] /\ w[id[j]] = severity[k]
    BY DEF WorstOf
  <1>3. \A s \in Degrees : Score!Rank(s) \in 1..3
    BY Ranks
  <1>4. {id[j] : j \in C \union {i}} = DOMAIN w \union {id[i]}
    BY <1>1
  <1>5. CASE id[i] \in DOMAIN w => Score!Rank(severity[i]) > Score!Rank(w[id[i]])
    <2>1. /\ v = [f \in DOMAIN w \union {id[i]} |-> v[f]]
          /\ v[id[i]] = severity[i]
          /\ \A f \in DOMAIN w : f # id[i] => v[f] = w[f]
      BY <1>5
    <2>2. ASSUME NEW j \in C \union {i}
          PROVE  /\ Score!Rank(severity[j]) <= Score!Rank(v[id[j]])
                 /\ \E k \in C \union {i} : id[k] = id[j] /\ v[id[j]] = severity[k]
      <3>1. CASE id[j] = id[i]
        <4>1. j \in C => id[i] \in DOMAIN w /\ Score!Rank(severity[j]) <= Score!Rank(w[id[i]])
          BY <1>1, <1>2, <3>1
        <4>2. Score!Rank(severity[j]) <= Score!Rank(severity[i])
          <5>1. j = i \/ j \in C
            OBVIOUS
          <5>2. severity[i] \in Degrees /\ severity[j] \in Degrees
            OBVIOUS
          <5> QED BY <1>1, <1>3, <1>5, <4>1, <5>1, <5>2
        <4> QED BY <2>1, <3>1, <4>2
      <3>2. CASE id[j] # id[i]
        <4>1. j \in C /\ id[j] \in DOMAIN w
          BY <1>1, <3>2
        <4> QED BY <1>2, <2>1, <3>2, <4>1
      <3> QED BY <3>1, <3>2
    <2>3. v = [f \in {id[j] : j \in C \union {i}} |-> v[f]]
      <3> DEFINE all == {id[j] : j \in C \union {i}}
      <3>1. all = DOMAIN w \union {id[i]}
        BY <1>4
      <3> HIDE DEF all
      <3>2. v = [f \in all |-> v[f]]
        BY <2>1, <3>1
      <3> QED BY <3>2 DEF all
    <2> QED BY <2>2, <2>3 DEF WorstOf
  <1>6. CASE ~(id[i] \in DOMAIN w => Score!Rank(severity[i]) > Score!Rank(w[id[i]]))
    <2>1. v = w /\ id[i] \in DOMAIN w /\ ~(Score!Rank(severity[i]) > Score!Rank(w[id[i]]))
      BY <1>6
    <2>2. PICK k \in C : id[k] = id[i]
      BY <1>1, <2>1
    <2>3. Score!Rank(severity[i]) <= Score!Rank(w[id[i]])
      BY <1>1, <1>3, <2>1
    <2>4. w = [f \in {id[j] : j \in C \union {i}} |-> w[f]]
      <3>1. {id[j] : j \in C \union {i}} = {id[j] : j \in C}
        BY <1>1, <1>4, <2>1
      <3> QED BY <3>1 DEF WorstOf
    <2>5. \E l \in C : id[l] = id[i] /\ w[id[i]] = severity[l]
      BY <1>2, <2>2
    <2>6. ASSUME NEW j \in C \union {i}
          PROVE  /\ Score!Rank(severity[j]) <= Score!Rank(w[id[j]])
                 /\ \E m \in C \union {i} : id[m] = id[j] /\ w[id[j]] = severity[m]
      BY <1>2, <2>3, <2>5
    <2>7. WorstOf(w, C \union {i}, id, severity)
      BY <2>4, <2>6 DEF WorstOf
    <2> QED BY <2>1, <2>7
  <1> QED BY <1>5, <1>6

\* Fewer rows leave fewer findings, and none more severe.
LEMMA WorstFewer ==
  ASSUME NEW v, NEW w, NEW B, NEW C, B \subseteq C, NEW id, NEW severity,
         \A i \in C : severity[i] \in Degrees,
         WorstOf(v, B, id, severity), WorstOf(w, C, id, severity)
  PROVE  /\ DOMAIN v \subseteq DOMAIN w
         /\ \A f \in DOMAIN v : Score!Rank(v[f]) <= Score!Rank(w[f])
  <1>1. DOMAIN v = {id[i] : i \in B} /\ DOMAIN w = {id[i] : i \in C}
    BY DEF WorstOf
  <1>2. ASSUME NEW f \in DOMAIN v PROVE Score!Rank(v[f]) <= Score!Rank(w[f])
    <2>1. PICK i \in B : f = id[i]
      BY <1>1
    <2>2. PICK j \in B : id[j] = f /\ v[f] = severity[j]
      BY <2>1 DEF WorstOf
    <2> QED BY <2>2 DEF WorstOf
  <1> QED BY <1>1, <1>2

LEMMA WorstOnly ==
  ASSUME NEW v, NEW w, NEW C, NEW id, NEW severity, \A i \in C : severity[i] \in Degrees,
         WorstOf(v, C, id, severity), WorstOf(w, C, id, severity)
  PROVE  v = w
  <1>1. /\ DOMAIN v = DOMAIN w
        /\ \A f \in DOMAIN v : v[f] \in Degrees /\ w[f] \in Degrees
    <2>1. DOMAIN v = {id[i] : i \in C} /\ \A f \in DOMAIN v : v[f] \in Degrees
      BY WorstDegrees
    <2>2. DOMAIN w = {id[i] : i \in C} /\ \A f \in DOMAIN w : w[f] \in Degrees
      BY WorstDegrees
    <2> QED BY <2>1, <2>2
  <1>2. \A f \in DOMAIN v : Score!Rank(v[f]) <= Score!Rank(w[f]) /\ Score!Rank(w[f]) <= Score!Rank(v[f])
    BY <1>1, WorstFewer
  <1>3. \A f \in DOMAIN v : v[f] = w[f]
    BY <1>1, <1>2, Ranks
  <1>4. v = [f \in DOMAIN v |-> v[f]] /\ w = [f \in DOMAIN w |-> w[f]]
    BY DEF WorstOf
  <1> QED BY <1>1, <1>3, <1>4

LEMMA WorstFinite ==
  ASSUME NEW w, NEW C, IsFiniteSet(C), NEW id, NEW severity, WorstOf(w, C, id, severity)
  PROVE  IsFiniteSet(DOMAIN w)
  <1> DEFINE found == [i \in C |-> id[i]]
  <1>1. DOMAIN w = {id[i] : i \in C}
    BY DEF WorstOf
  <1>2. found \in Surjection(C, DOMAIN w)
    BY <1>1 DEF Surjection
  <1> HIDE DEF found
  <1> QED BY <1>2, FS_Surjection

\* The rows that count, and what is read of each.
Counting == {i \in DOMAIN flags : Score!Counts(i)}
Ids == [i \in DOMAIN flags |-> Score!Identity(i)]
Severities == [i \in DOMAIN flags |-> flags[i].severity]

\* What the loop makes of the findings at row n.
Passed(n, worst) ==
  IF Score!Counts(n) /\ Score!Worse(n, worst)
  THEN [f \in DOMAIN worst \union {Score!Identity(n)} |->
          IF f = Score!Identity(n) THEN flags[n].severity ELSE worst[f]]
  ELSE worst

Loop(upTo, n) == upTo = [i \in 0..n |-> IF i = 0 THEN <<>> ELSE Passed(i, upTo[i - 1])]

LEMMA LoopRuns ==
  ASSUME NEW m \in Nat
  PROVE  \E upTo : Loop(upTo, m)
  <1> DEFINE C == {n \in 0..m : \E upTo : Loop(upTo, n)}
  <1>1. 0 \in C
    <2> DEFINE g == [i \in 0..0 |-> <<>>]
    <2>1. Loop(g, 0)
      BY DEF Loop
    <2> QED BY <2>1
  <1>2. ASSUME NEW n \in 1..m, n - 1 \in C PROVE n \in C
    <2>1. PICK g : Loop(g, n - 1)
      BY <1>2
    <2> DEFINE h == [i \in 0..n |-> IF i = n THEN Passed(n, g[n - 1]) ELSE g[i]]
    <2>2. ASSUME NEW i \in 0..n
          PROVE  h[i] = IF i = 0 THEN <<>> ELSE Passed(i, h[i - 1])
      <3>1. CASE i = n
        <4>1. h[n] = Passed(n, g[n - 1]) /\ h[n - 1] = g[n - 1] /\ n # 0
          OBVIOUS
        <4> HIDE DEF h
        <4> QED BY <3>1, <4>1
      <3>2. CASE i # n
        <4>1. h[i] = g[i] /\ i \in 0..(n - 1)
          BY <3>2
        <4>2. i # 0 => h[i - 1] = g[i - 1]
          BY <3>2
        <4>3. g[i] = IF i = 0 THEN <<>> ELSE Passed(i, g[i - 1])
          BY <2>1, <4>1 DEF Loop
        <4> HIDE DEF h
        <4> QED BY <4>1, <4>2, <4>3
      <3> QED BY <3>1, <3>2
    <2>3. h = [i \in 0..n |-> h[i]]
      OBVIOUS
    <2>4. Loop(h, n)
      <3> HIDE DEF h
      <3> QED BY <2>2, <2>3 DEF Loop
    <2> HIDE DEF h
    <2> QED BY <2>4
  <1>3. m \in C
    <2> HIDE DEF C
    <2> QED BY <1>1, <1>2, NumbersUpTo
  <1> QED BY <1>3

LEMMA RowsAre ==
  ASSUME flags \in Seq(Rows)
  PROVE  /\ Len(flags) \in Nat /\ DOMAIN flags = 1..Len(flags)
         /\ \A i \in DOMAIN flags : flags[i] \in Rows /\ flags[i].severity \in Degrees
  BY ScoresAssumption DEF Score!ScoringAssumption, Degrees

\* The loop leaves each finding with its most severe row.
LEMMA WorstIs ==
  ASSUME flags \in Seq(Rows)
  PROVE  WorstOf(Score!Worst, Counting, Ids, Severities)
  <1> DEFINE m == Len(flags)
             u == CHOOSE upTo : Loop(upTo, m)
             C(n) == {i \in 1..n : Score!Counts(i)}
             S == {n \in 0..m : WorstOf(u[n], C(n), Ids, Severities)}
  <1>1. m \in Nat /\ DOMAIN flags = 1..m /\ \A i \in 1..m : Severities[i] \in Degrees
    BY RowsAre DEF Severities
  <1>2. Loop(u, m)
    BY <1>1, LoopRuns
  <1>3. Score!Worst = u[m]
    BY DEF Score!Worst, Loop, Passed
  <1> HIDE DEF u
  <1>4. 0 \in S
    <2>1. u[0] = <<>> /\ C(0) = {}
      BY <1>1, <1>2 DEF Loop
    <2>2. <<>> = [f \in {} |-> <<>>[f]]
      OBVIOUS
    <2>3. {Ids[i] : i \in {}} = {}
      OBVIOUS
    <2>4. WorstOf(<<>>, {}, Ids, Severities)
      BY <2>2, <2>3 DEF WorstOf
    <2> QED BY <1>1, <2>1, <2>4
  <1>5. ASSUME NEW n \in 1..m, n - 1 \in S PROVE n \in S
    <2>1. u[n] = Passed(n, u[n - 1]) /\ WorstOf(u[n - 1], C(n - 1), Ids, Severities)
      BY <1>1, <1>2, <1>5 DEF Loop
    <2>2. Ids[n] = Score!Identity(n) /\ Severities[n] = flags[n].severity
      BY <1>1 DEF Ids, Severities
    <2> SUFFICES WorstOf(u[n], C(n), Ids, Severities)
      <3>1. n \in 0..m
        BY <1>1
      <3> HIDE DEF C
      <3> QED BY <3>1
    <2>3. CASE Score!Counts(n)
      <3>1. C(n) = C(n - 1) \union {n}
        BY <1>1, <2>3
      <3>2. u[n] = IF Ids[n] \in DOMAIN u[n - 1] => Score!Rank(Severities[n]) > Score!Rank(u[n - 1][Ids[n]])
                   THEN [f \in DOMAIN u[n - 1] \union {Ids[n]} |->
                           IF f = Ids[n] THEN Severities[n] ELSE u[n - 1][f]]
                   ELSE u[n - 1]
        BY <2>1, <2>2, <2>3 DEF Passed, Score!Worse
      <3>3. \A j \in C(n - 1) \union {n} : Severities[j] \in Degrees
        BY <1>1
      <3>4. WorstOf(u[n], C(n - 1) \union {n}, Ids, Severities)
        <4> HIDE DEF C
        <4> QED BY <2>1, <3>2, <3>3, WorstMore
      <3> HIDE DEF C
      <3> QED BY <3>1, <3>4
    <2>4. CASE ~Score!Counts(n)
      <3>1. C(n) = C(n - 1)
        BY <1>1, <2>4
      <3>2. u[n] = u[n - 1]
        BY <2>1, <2>4 DEF Passed
      <3> HIDE DEF C
      <3> QED BY <2>1, <3>1, <3>2
    <2> QED BY <2>3, <2>4
  <1>6. m \in S
    <2>1. m \in Nat
      BY <1>1
    <2>2. \A n \in 0..m : n \in S
      <3> HIDE DEF S, m
      <3> QED BY <2>1, <1>4, <1>5, NumbersUpTo
    <2>3. m \in 0..m
      BY <2>1
    <2> HIDE DEF S, m
    <2> QED BY <2>2, <2>3
  <1>7. C(m) = Counting
    BY <1>1 DEF Counting
  <1> QED BY <1>3, <1>6, <1>7

LEMMA FindingsAre ==
  ASSUME flags \in Seq(Rows)
  PROVE  /\ IsFiniteSet(Counting) /\ \A i \in Counting : Severities[i] \in Degrees
         /\ IsFiniteSet(DOMAIN Score!Worst)
         /\ DOMAIN Score!Worst = {Ids[i] : i \in Counting}
         /\ \A f \in DOMAIN Score!Worst : Score!Worst[f] \in Degrees
  <1>1. \A i \in Counting : Severities[i] \in Degrees
    BY RowsAre DEF Counting, Severities
  <1>2. IsFiniteSet(Counting)
    <2>1. Counting \in SUBSET (1..Len(flags)) /\ IsFiniteSet(1..Len(flags))
      BY RowsAre, FS_Interval DEF Counting
    <2> QED BY <2>1, FS_Subset
  <1>3. WorstOf(Score!Worst, Counting, Ids, Severities)
    BY WorstIs
  <1>4. IsFiniteSet(DOMAIN Score!Worst)
    BY <1>2, <1>3, WorstFinite
  <1>5. /\ DOMAIN Score!Worst = {Ids[i] : i \in Counting}
        /\ \A f \in DOMAIN Score!Worst : Score!Worst[f] \in Degrees
    BY <1>1, <1>3, WorstDegrees
  <1> QED BY <1>1, <1>2, <1>4, <1>5

LEMMA PointsAre ==
  /\ Cap \in Nat /\ \A s \in Degrees : Score!Points(s) \in Nat
  /\ \A r, s \in Degrees : Score!Rank(r) <= Score!Rank(s) => Score!Points(r) <= Score!Points(s)
  <1>1. Score!Rank("low") = 1 /\ Score!Rank("med") = 2 /\ Score!Rank("high") = 3
    BY DEF Score!Rank
  <1>2. Score!Points("low") = Low /\ Score!Points("med") = Med /\ Score!Points("high") = High
    BY DEF Score!Points
  <1>3. {Low, Med, High, Cap} \subseteq Nat /\ Low <= Med /\ Med <= High
    BY ScoresAssumption DEF Score!ScoringAssumption
  <1> QED BY <1>1, <1>2, <1>3 DEF Degrees

\* What findings cost before the cap.
Total(worst) == Score!SumFunctionOnSet([f \in DOMAIN worst |-> Score!Points(worst[f])], DOMAIN worst)

LEMMA CostIs ==
  ASSUME NEW w, IsFiniteSet(DOMAIN w), \A f \in DOMAIN w : w[f] \in Degrees
  PROVE  /\ Total(w) \in Nat
         /\ Score!Cost(w) = IF Total(w) < Cap THEN Total(w) ELSE Cap
         /\ Score!Cost(w) \in Nat
  <1> DEFINE points == [f \in DOMAIN w |-> Score!Points(w[f])]
  <1>1. \A f \in DOMAIN w : points[f] \in Nat
    BY PointsAre
  <1>2. Total(w) \in Nat
    <2>1. Score!SumFunctionOnSet(points, DOMAIN w) \in Nat
      <3> HIDE DEF points
      <3> QED BY <1>1, SumMost
    <2> QED BY <2>1 DEF Total
  <1>3. Score!Cost(w) = Score!Min({Cap, Total(w)})
    <2>1. DOMAIN points = DOMAIN w
      OBVIOUS
    <2>2. Score!SumFunction(points) = Score!SumFunctionOnSet(points, DOMAIN w)
      BY <2>1 DEF Score!SumFunction
    <2> QED BY <2>2 DEF Score!Cost, Total
  <1>4. Score!Min({Cap, Total(w)}) = IF Total(w) < Cap THEN Total(w) ELSE Cap
    <2> DEFINE n == Total(w)
               both == {Cap, n}
    <2>1. n \in Nat /\ Cap \in Nat /\ both \subseteq Int
      BY <1>2, PointsAre
    <2>2. CASE n < Cap
      <3>1. n \in both /\ \A y \in both : n <= y
        BY <2>1, <2>2
      <3> HIDE DEF both, n
      <3> QED BY <2>1, <2>2, <3>1, SmallestIs DEF both, n
    <2>3. CASE ~(n < Cap)
      <3>1. Cap \in both /\ \A y \in both : Cap <= y
        BY <2>1, <2>3
      <3> HIDE DEF both, n
      <3> QED BY <2>1, <2>3, <3>1, SmallestIs DEF both, n
    <2> QED BY <2>2, <2>3
  <1>5. Score!Cost(w) = IF Total(w) < Cap THEN Total(w) ELSE Cap
    BY <1>3, <1>4
  <1> QED BY <1>2, <1>5, PointsAre

LEMMA CostMost ==
  ASSUME NEW v, NEW w, IsFiniteSet(DOMAIN w), DOMAIN v \subseteq DOMAIN w,
         \A f \in DOMAIN w : w[f] \in Degrees,
         \A f \in DOMAIN v : v[f] \in Degrees /\ Score!Rank(v[f]) <= Score!Rank(w[f])
  PROVE  /\ Score!Cost(v) \in Nat /\ Score!Cost(w) \in Nat /\ Score!Cost(v) <= Score!Cost(w)
         /\ "high" \in Score!Range(v) => "high" \in Score!Range(w)
  <1> DEFINE g == [f \in DOMAIN v |-> Score!Points(v[f])]
             h == [f \in DOMAIN w |-> Score!Points(w[f])]
  <1>1. IsFiniteSet(DOMAIN v)
    BY FS_Subset
  <1>2. Total(v) <= Total(w)
    <2>1. /\ \A f \in DOMAIN w : h[f] \in Nat
          /\ \A f \in DOMAIN v : g[f] \in Nat /\ g[f] <= h[f]
      BY PointsAre
    <2>2. Score!SumFunctionOnSet(g, DOMAIN v) <= Score!SumFunctionOnSet(h, DOMAIN w)
      <3> HIDE DEF g, h
      <3> QED BY <2>1, SumMost
    <2> QED BY <2>2 DEF Total
  <1>3. /\ Total(v) \in Nat /\ Score!Cost(v) = IF Total(v) < Cap THEN Total(v) ELSE Cap
        /\ Total(w) \in Nat /\ Score!Cost(w) = IF Total(w) < Cap THEN Total(w) ELSE Cap
    BY <1>1, CostIs
  <1>4. Score!Cost(v) \in Nat /\ Score!Cost(w) \in Nat /\ Score!Cost(v) <= Score!Cost(w)
    BY <1>2, <1>3, PointsAre
  <1>5. ASSUME "high" \in Score!Range(v) PROVE "high" \in Score!Range(w)
    <2>1. PICK f \in DOMAIN v : v[f] = "high"
      BY <1>5 DEF Score!Range
    <2>2. w[f] = "high"
      <3>1. Score!Rank(v[f]) = 3 /\ Score!Rank(w[f]) \in 1..3 /\ w[f] \in Degrees
        BY <2>1, Ranks
      <3> QED BY <2>1, <3>1, Ranks
    <2> QED BY <2>1, <2>2 DEF Score!Range
  <1> QED BY <1>4, <1>5

\* The deduction is that of the findings, whatever their rows and the order.
LEMMA DeductionIs ==
  ASSUME flags \in Seq(Rows)
  PROVE  Score!DeductionOfFindings
  <1> DEFINE worst == Score!Worst
             rows(f) == {Score!Points(flags[i].severity) :
                           i \in {j \in {k \in DOMAIN flags : Score!Counts(k)} : Score!Identity(j) = f}}
             found == {Score!Identity(i) : i \in {k \in DOMAIN flags : Score!Counts(k)}}
             cost == [f \in found |-> Score!Max(rows(f))]
  <1>1. found = DOMAIN worst
    <2>1. \A i \in Counting : Ids[i] = Score!Identity(i)
      BY DEF Counting, Ids
    <2> HIDE DEF worst
    <2> QED BY <2>1, FindingsAre DEF Counting, worst
  <1>2. ASSUME NEW f \in DOMAIN worst PROVE Score!Max(rows(f)) = Score!Points(worst[f])
    <2>1. WorstOf(worst, Counting, Ids, Severities)
      BY WorstIs
    <2>2. /\ \A i \in Counting : /\ Severities[i] \in Degrees /\ Ids[i] = Score!Identity(i)
                                 /\ Severities[i] = flags[i].severity
          /\ DOMAIN worst = {Ids[i] : i \in Counting} /\ worst[f] \in Degrees
      BY FindingsAre DEF Counting, Ids, Severities
    <2>3. rows(f) = {Score!Points(Severities[i]) : i \in {j \in Counting : Ids[j] = f}}
      BY <2>2 DEF Counting
    <2> HIDE DEF rows, worst
    <2>4. PICK i \in Counting : Ids[i] = f /\ worst[f] = Severities[i]
      BY <2>1, <2>2 DEF WorstOf
    <2>5. ASSUME NEW y \in rows(f)
          PROVE  y \in Int /\ y <= Score!Points(worst[f])
      <3>1. PICK j \in Counting : Ids[j] = f /\ y = Score!Points(Severities[j])
        BY <2>3
      <3>2. Score!Rank(Severities[j]) <= Score!Rank(worst[f])
        BY <2>1, <3>1 DEF WorstOf
      <3> QED BY <2>2, <3>1, <3>2, PointsAre
    <2>6. Score!Points(worst[f]) \in rows(f)
      BY <2>3, <2>4
    <2>7. rows(f) \subseteq Int /\ \A y \in rows(f) : y <= Score!Points(worst[f])
      BY <2>5
    <2> QED BY <2>6, <2>7, LargestIs
  <1>3. cost = [f \in DOMAIN worst |-> Score!Points(worst[f])]
    <2> HIDE DEF found, worst, rows
    <2> QED BY <1>1, <1>2
  <1>4. Score!SumFunction(cost) = Total(worst)
    <2>1. DOMAIN cost = DOMAIN worst
      BY <1>1
    <2> HIDE DEF found, worst, rows, cost
    <2> QED BY <1>3, <2>1 DEF Score!SumFunction, Total
  <1>5. Score!Deduction = IF Total(worst) < Cap THEN Total(worst) ELSE Cap
    BY FindingsAre, CostIs DEF Score!Deduction
  <1> QED BY <1>4, <1>5 DEF Score!DeductionOfFindings

-----------------------------------------------------------------------------
(* The composite and the status.                                           *)

ScoreTypes ==
  /\ finished \in BOOLEAN /\ partial \in BOOLEAN
  /\ result \in [Score!RubricCriteria -> Score!Graded \union {Score!Pending, Score!Excluded}]
  /\ flags \in Seq(Rows) /\ Len(flags) <= MaxRows
  /\ overridden \subseteq DOMAIN flags

LEMMA GradesAre ==
  /\ \A g \in Score!Graded : /\ g.outcome \in {"passed", "failed"} /\ g.score # Nothing /\ g.score \in 0..100
                             /\ g.outcome = "failed" => g.score = 0
  /\ \A g \in {Score!Pending, Score!Excluded} : g \notin Score!Graded /\ g.outcome \notin {"passed", "failed"}
  /\ Score!Pending # Score!Excluded
  <1>1. ASSUME NEW g \in Score!Graded
        PROVE  /\ g.outcome \in {"passed", "failed"} /\ g.score # Nothing /\ g.score \in 0..100
               /\ g.outcome = "failed" => g.score = 0
    <2>1. Levels \subseteq 0..100 /\ Nothing \notin Int
      BY ScoresAssumption DEF Score!ScoringAssumption
    <2>2. CASE g \in [outcome : {"passed"}, score : Levels]
      <3>1. g.outcome = "passed" /\ g.score \in Levels
        BY <2>2
      <3>2. g.score \in 0..100
        BY <2>1, <3>1, Zenon
      <3>3. g.score # Nothing
        BY <2>1, <3>2
      <3> QED BY <3>1, <3>2, <3>3
    <2>3. CASE g = [outcome |-> "failed", score |-> 0]
      BY <2>1, <2>3
    <2> QED BY <2>2, <2>3 DEF Score!Graded
  <1>2. Score!Pending.outcome = "escalated" /\ Score!Excluded.outcome = "not_applicable"
    BY DEF Score!Pending, Score!Excluded
  <1> QED BY <1>1, <1>2

LEMMA WeightsAre ==
  /\ IsFiniteSet(Score!RubricCriteria)
  /\ \A c \in Score!RubricCriteria : Weights[c] \in Nat /\ Weights[c] > 0
  BY ScoresAssumption DEF Score!ScoringAssumption, Score!RubricCriteria, Score!IsFiniteSet, IsFiniteSet

LEMMA Products ==
  /\ \A a, b \in Nat : a * b \in Nat
  /\ \A a, b, c \in Nat : a <= b => a * c <= b * c
  OBVIOUS

\* What a criterion brings.
Brings == [c \in Score!Contributing |-> Weights[c] * result[c].score]

LEMMA GradedBring ==
  ASSUME result \in [Score!RubricCriteria -> Score!Graded \union {Score!Pending, Score!Excluded}]
  PROVE  /\ Score!Contributing = {c \in Score!RubricCriteria : result[c] \in Score!Graded}
         /\ IsFiniteSet(Score!Contributing)
         /\ \A c \in Score!Contributing :
              /\ Weights[c] \in Nat /\ Brings[c] = Weights[c] * result[c].score
              /\ Brings[c] \in Nat /\ Brings[c] <= 100 * Weights[c]
  <1>1. Score!Contributing = {c \in Score!RubricCriteria : result[c] \in Score!Graded}
    BY GradesAre DEF Score!Contributing, Score!Counted
  <1>2. IsFiniteSet(Score!Contributing)
    BY <1>1, WeightsAre, FS_Subset
  <1>3. ASSUME NEW c \in Score!Contributing
        PROVE  /\ Weights[c] \in Nat /\ Brings[c] = Weights[c] * result[c].score
               /\ Brings[c] \in Nat /\ Brings[c] <= 100 * Weights[c]
    <2>1. Weights[c] \in Nat /\ result[c].score \in Nat /\ result[c].score <= 100
      BY <1>1, GradesAre, WeightsAre
    <2>2. Brings[c] = result[c].score * Weights[c] /\ Brings[c] = Weights[c] * result[c].score
      BY <2>1 DEF Brings
    <2>3. result[c].score * Weights[c] <= 100 * Weights[c]
      BY <2>1, Products
    <2> QED BY <2>1, <2>2, <2>3, Products
  <1> QED BY <1>1, <1>2, <1>3

LEMMA SumsAre ==
  ASSUME result \in [Score!RubricCriteria -> Score!Graded \union {Score!Pending, Score!Excluded}]
  PROVE  /\ Score!Weight \in Nat /\ Score!Earned \in Nat /\ Score!Earned <= 100 * Score!Weight
         /\ Score!Weight = Score!SumFunctionOnSet(Weights, Score!Contributing)
         /\ Score!Earned = Score!SumFunctionOnSet(Brings, Score!Contributing)
  <1>1. /\ Score!Weight = Score!SumFunctionOnSet(Weights, Score!Contributing)
        /\ Score!Earned = Score!SumFunctionOnSet(Brings, Score!Contributing)
    BY DEF Score!Weight, Score!Earned, Brings
  <1>2. /\ IsFiniteSet(Score!Contributing)
        /\ \A c \in Score!Contributing : Brings[c] \in Nat /\ Weights[c] \in Nat /\ Brings[c] <= 100 * Weights[c]
    BY GradedBring
  <1>3. Score!SumFunctionOnSet(Brings, Score!Contributing) \in Nat
    BY <1>2, SumMost
  <1>4. Score!SumFunctionOnSet(Weights, Score!Contributing) \in Nat
    BY <1>2, SumMost
  <1>5. Score!SumFunctionOnSet(Brings, Score!Contributing)
          <= 100 * Score!SumFunctionOnSet(Weights, Score!Contributing)
    BY <1>2, SumPercent
  <1> QED BY <1>1, <1>3, <1>4, <1>5

\* What is left of the points earned, which are never too many.
Left(earned, deduction, weight) ==
  IF earned - deduction * weight > 0 THEN earned - deduction * weight ELSE 0

LEMMA LeftIs ==
  ASSUME NEW w \in Nat, NEW e \in Nat, e <= 100 * w, NEW d \in Nat
  PROVE  /\ Left(e, d, w) \in 0..(100 * w)
         /\ Score!Max({0, Score!Min({100 * w, e - d * w})}) = Left(e, d, w)
  <1> DEFINE x == e - d * w
  <1>1. d * w \in Nat /\ x \in Int /\ x <= 100 * w /\ 100 * w \in Nat
    BY Products
  <1> HIDE DEF x
  <1>2. Score!Min({100 * w, x}) = x
    <2>1. x \in {100 * w, x} /\ {100 * w, x} \subseteq Int /\ \A y \in {100 * w, x} : x <= y
      BY <1>1
    <2> QED BY <2>1, SmallestIs
  <1>3. Score!Max({0, x}) = IF x > 0 THEN x ELSE 0
    <2>1. CASE x > 0
      <3>1. x \in {0, x} /\ {0, x} \subseteq Int /\ \A y \in {0, x} : y <= x
        BY <1>1, <2>1
      <3> QED BY <2>1, <3>1, LargestIs
    <2>2. CASE ~(x > 0)
      <3>1. 0 \in {0, x} /\ {0, x} \subseteq Int /\ \A y \in {0, x} : y <= 0
        BY <1>1, <2>2
      <3> QED BY <2>2, <3>1, LargestIs
    <2> QED BY <2>1, <2>2
  <1> QED BY <1>1, <1>2, <1>3 DEF Left, x

LEMMA CompositeIs ==
  ASSUME ScoreTypes
  PROVE  /\ Score!Deduction \in Nat /\ Score!Weight \in Nat
         /\ Score!Earned \in Nat /\ Score!Earned <= 100 * Score!Weight
         /\ Score!Composite = [points |-> Left(Score!Earned, Score!Deduction, Score!Weight), weight |-> Score!Weight]
         /\ Score!Composite.points \in 0..(100 * Score!Composite.weight)
  <1>1. Score!Deduction \in Nat
    BY FindingsAre, CostIs DEF ScoreTypes, Score!Deduction
  <1>2. Score!Weight \in Nat /\ Score!Earned \in Nat /\ Score!Earned <= 100 * Score!Weight
    BY SumsAre DEF ScoreTypes
  <1>3. /\ Left(Score!Earned, Score!Deduction, Score!Weight) \in 0..(100 * Score!Weight)
        /\ Score!Max({0, Score!Min({100 * Score!Weight, Score!Earned - Score!Deduction * Score!Weight})})
             = Left(Score!Earned, Score!Deduction, Score!Weight)
    BY <1>1, <1>2, LeftIs
  <1>4. Score!Composite = [points |-> Left(Score!Earned, Score!Deduction, Score!Weight), weight |-> Score!Weight]
    BY <1>3 DEF Score!Composite
  <1> QED BY <1>1, <1>2, <1>3, <1>4

StatusOf(weight, incomplete, high, points) ==
  IF weight = 0 \/ incomplete THEN "needs_review"
  ELSE IF high THEN "not_ready"
  ELSE IF points >= ReadyMin * weight THEN "ready"
  ELSE IF points >= NotReadyMax * weight THEN "conditionally_ready"
  ELSE "not_ready"

LEMMA StatusIs ==
  ASSUME ScoreTypes
  PROVE  /\ Score!Incomplete \in BOOLEAN /\ Score!HighFinding \in BOOLEAN
         /\ Score!Status = StatusOf(Score!Weight, Score!Incomplete, Score!HighFinding, Score!Composite.points)
  <1> DEFINE points == Score!Composite.points
             weight == Score!Weight
  <1>1. /\ points \in Int /\ weight \in Nat /\ Score!Composite.weight = weight
        /\ ReadyMin \in Nat /\ NotReadyMax \in Nat
    BY CompositeIs, ScoresAssumption DEF Score!ScoringAssumption
  <1>2. /\ Score!AtLeast(Score!Composite, Score!Percent(ReadyMin)) <=> points >= ReadyMin * weight
        /\ Score!AtLeast(Score!Composite, Score!Percent(NotReadyMax)) <=> points >= NotReadyMax * weight
    BY <1>1 DEF Score!AtLeast, Score!Percent
  <1>3. Score!Incomplete \in BOOLEAN /\ Score!HighFinding \in BOOLEAN
    BY DEF ScoreTypes, Score!Incomplete, Score!HighFinding
  <1> HIDE DEF points
  <1>4. Score!Status = StatusOf(weight, Score!Incomplete, Score!HighFinding, points)
    BY <1>2, <1>3 DEF Score!Status, StatusOf
  <1> QED BY <1>3, <1>4 DEF points

\* A smaller deduction and no new high finding never cost readiness.
LEMMA LessIsFairer ==
  ASSUME NEW w \in Nat, NEW e \in Nat, NEW d1 \in Nat, NEW d2 \in Nat, d1 <= d2,
         NEW incomplete \in BOOLEAN, NEW h1 \in BOOLEAN, NEW h2 \in BOOLEAN, h1 => h2
  PROVE  /\ Score!AtLeast([points |-> Left(e, d1, w), weight |-> w], [points |-> Left(e, d2, w), weight |-> w])
         /\ Score!NotWorse(StatusOf(w, incomplete, h1, Left(e, d1, w)), StatusOf(w, incomplete, h2, Left(e, d2, w)))
  <1> DEFINE p1 == Left(e, d1, w)
             p2 == Left(e, d2, w)
  <1>1. p1 \in Nat /\ p2 \in Nat /\ p2 <= p1
    <2>1. d1 * w \in Nat /\ d2 * w \in Nat /\ d1 * w <= d2 * w
      BY Products
    <2> QED BY <2>1 DEF Left
  <1> HIDE DEF p1, p2
  <1>2. Score!AtLeast([points |-> p1, weight |-> w], [points |-> p2, weight |-> w])
    <2>1. p2 * w <= p1 * w /\ p2 * w \in Nat /\ p1 * w \in Nat
      BY <1>1, Products
    <2> QED BY <2>1 DEF Score!AtLeast
  <1>3. Score!NotWorse(StatusOf(w, incomplete, h1, p1), StatusOf(w, incomplete, h2, p2))
    <2>1. ReadyMin * w \in Int /\ NotReadyMax * w \in Int
      BY ScoresAssumption DEF Score!ScoringAssumption
    <2> DEFINE ready == ReadyMin * w
               notReady == NotReadyMax * w
    <2>2. ready \in Int /\ notReady \in Int
      BY <2>1
    <2>3. /\ Score!StatusRank["not_ready"] = 1 /\ Score!StatusRank["conditionally_ready"] = 2
          /\ Score!StatusRank["ready"] = 3
          /\ DOMAIN Score!StatusRank = {"not_ready", "conditionally_ready", "ready"}
      BY DEF Score!StatusRank
    <2> HIDE DEF ready, notReady
    <2> QED BY <1>1, <2>2, <2>3 DEF StatusOf, Score!NotWorse, ready, notReady
  <1> QED BY <1>2, <1>3 DEF p1, p2

LEMMA FewerCost ==
  ASSUME NEW v, NEW w, NEW B, NEW C, B \subseteq C, IsFiniteSet(C), NEW id, NEW severity,
         \A i \in C : severity[i] \in Degrees,
         WorstOf(v, B, id, severity), WorstOf(w, C, id, severity)
  PROVE  /\ Score!Cost(v) \in Nat /\ Score!Cost(w) \in Nat /\ Score!Cost(v) <= Score!Cost(w)
         /\ "high" \in Score!Range(v) => "high" \in Score!Range(w)
  <1>1. DOMAIN v \subseteq DOMAIN w /\ \A f \in DOMAIN v : Score!Rank(v[f]) <= Score!Rank(w[f])
    BY WorstFewer
  <1>2. IsFiniteSet(DOMAIN w)
    BY WorstFinite
  <1>3. \A f \in DOMAIN w : w[f] \in Degrees
    BY WorstDegrees
  <1>4. \A f \in DOMAIN v : v[f] \in Degrees
    <2>1. \A i \in B : severity[i] \in Degrees
      OBVIOUS
    <2> QED BY <2>1, WorstDegrees
  <1> QED BY <1>1, <1>2, <1>3, <1>4, CostMost

\* What is read of the same rows is the same.
LEMMA WorstSame ==
  ASSUME NEW w, NEW C, NEW id, NEW severity, WorstOf(w, C, id, severity),
         NEW id2, NEW severity2, \A i \in C : id2[i] = id[i] /\ severity2[i] = severity[i]
  PROVE  WorstOf(w, C, id2, severity2)
  <1>1. {id2[i] : i \in C} = {id[i] : i \in C}
    OBVIOUS
  <1>2. w = [f \in {id2[i] : i \in C} |-> w[f]]
    BY <1>1 DEF WorstOf
  <1> QED BY <1>2 DEF WorstOf

-----------------------------------------------------------------------------
(* What holds before and after each step.                                  *)

ScoreFacts ==
  /\ Score!Deduction \in Nat /\ Score!Weight \in Nat
  /\ Score!Earned \in Nat /\ Score!Earned <= 100 * Score!Weight
  /\ Score!Composite = [points |-> Left(Score!Earned, Score!Deduction, Score!Weight), weight |-> Score!Weight]
  /\ Score!Incomplete \in BOOLEAN /\ Score!HighFinding \in BOOLEAN
  /\ Score!Status = StatusOf(Score!Weight, Score!Incomplete, Score!HighFinding,
                             Left(Score!Earned, Score!Deduction, Score!Weight))
  /\ WorstOf(Score!Worst, Counting, Ids, Severities)
  /\ IsFiniteSet(Counting) /\ \A i \in Counting : Severities[i] \in Degrees
  /\ Score!Deduction = Score!Cost(Score!Worst)
  /\ Score!HighFinding <=> "high" \in Score!Range(Score!Worst)

LEMMA FactsHold == ScoreTypes => ScoreFacts
  <1> SUFFICES ASSUME ScoreTypes PROVE ScoreFacts
    OBVIOUS
  <1>1. Score!Composite.points = Left(Score!Earned, Score!Deduction, Score!Weight)
    BY CompositeIs
  <1>2. Score!Status = StatusOf(Score!Weight, Score!Incomplete, Score!HighFinding,
                                Left(Score!Earned, Score!Deduction, Score!Weight))
    BY <1>1, StatusIs
  <1>3. Score!Deduction = Score!Cost(Score!Worst) /\ (Score!HighFinding <=> "high" \in Score!Range(Score!Worst))
    BY DEF Score!Deduction, Score!HighFinding
  <1>4. flags \in Seq(Rows)
    BY DEF ScoreTypes
  <1>5. WorstOf(Score!Worst, Counting, Ids, Severities)
    BY <1>4, WorstIs
  <1>6. IsFiniteSet(Counting) /\ \A i \in Counting : Severities[i] \in Degrees
    BY <1>4, FindingsAre
  <1> QED BY <1>2, <1>3, <1>5, <1>6, CompositeIs, StatusIs DEF ScoreFacts

LEMMA ScoreTypesKept == ScoreTypes /\ Score!Next => ScoreTypes'
  <1> SUFFICES ASSUME ScoreTypes, Score!Next PROVE ScoreTypes'
    OBVIOUS
  <1> USE DEF ScoreTypes
  <1>1. ASSUME NEW row \in Rows, Score!Raise(row) PROVE ScoreTypes'
    <2>1. flags' \in Seq(Rows) /\ Len(flags') = Len(flags) + 1 /\ DOMAIN flags \subseteq DOMAIN flags'
      BY <1>1 DEF Score!Raise
    <2>2. Len(flags') <= MaxRows
      BY <1>1, <2>1, ScoresAssumption DEF Score!Raise, Score!ScoringAssumption
    <2> QED BY <1>1, <2>1, <2>2 DEF Score!Raise
  <1>2. CASE Score!Finish
    BY <1>2 DEF Score!Finish
  <1>3. ASSUME NEW i \in DOMAIN flags, Score!Dismiss(i) \/ Score!Confirm(i) PROVE ScoreTypes'
    BY <1>3 DEF Score!Dismiss, Score!Confirm
  <1>4. ASSUME NEW c \in Score!RubricCriteria, NEW grade \in Score!Graded \union {Score!Excluded},
               Score!Resolve(c, grade)
        PROVE  ScoreTypes'
    BY <1>4 DEF Score!Resolve, Score!RubricCriteria
  <1> QED BY <1>1, <1>2, <1>3, <1>4 DEF Score!Next

LEMMA FactsKept ==
  ScoreTypes /\ [Score!Next]_(Score!vars) => ScoreTypes' /\ ScoreFacts /\ ScoreFacts'
  <1>1. ScoreTypes /\ UNCHANGED Score!vars => ScoreTypes'
    BY DEF ScoreTypes, Score!vars, Score!RubricCriteria, Score!Graded, Score!Pending, Score!Excluded
  <1>2. ScoreTypes /\ [Score!Next]_(Score!vars) => ScoreTypes'
    BY <1>1, ScoreTypesKept
  <1>3. ScoreTypes' => ScoreFacts'
    BY FactsHold, PTL
  <1> QED BY <1>2, <1>3, FactsHold

\* Grades move only where they are given.
LEMMA GradesStay ==
  ASSUME result' = result
  PROVE  /\ Score!Contributing' = Score!Contributing
         /\ Score!Weight' = Score!Weight /\ Score!Earned' = Score!Earned
         /\ partial' = partial => Score!Incomplete' = Score!Incomplete
  <1>1. Score!Contributing' = Score!Contributing
    BY DEF Score!Contributing, Score!Counted, Score!RubricCriteria
  <1>2. Score!Weight' = Score!Weight
    BY <1>1 DEF Score!Weight
  <1>3. Score!Earned' = Score!Earned
    BY <1>1 DEF Score!Earned
  <1>4. partial' = partial => Score!Incomplete' = Score!Incomplete
    BY DEF Score!Incomplete, Score!RubricCriteria, Score!Pending
  <1> QED BY <1>1, <1>2, <1>3, <1>4

\* The same findings and the same grades are the same readiness.
LEMMA SameReadiness ==
  ASSUME ScoreFacts, ScoreFacts', result' = result, partial' = partial, Score!Worst' = Score!Worst
  PROVE  Score!Composite' = Score!Composite /\ Score!Status' = Score!Status
  <1>1. Score!Weight' = Score!Weight /\ Score!Earned' = Score!Earned /\ Score!Incomplete' = Score!Incomplete
    BY GradesStay
  <1>2. Score!Deduction' = Score!Deduction
    <2>1. Score!Deduction' = Score!Cost(Score!Worst')
      BY DEF ScoreFacts, Score!Deduction, Score!Cost, Score!Points
    <2> QED BY <2>1 DEF ScoreFacts
  <1>3. Score!HighFinding' = Score!HighFinding
    BY DEF Score!HighFinding
  <1> QED BY <1>1, <1>2, <1>3 DEF ScoreFacts, Left, StatusOf

\* Dismissing and confirming move only the rows that count.
LEMMA RowsStay ==
  ASSUME flags' = flags
  PROVE  Ids' = Ids /\ Severities' = Severities
  BY DEF Ids, Severities, Score!Identity

LEMMA RowsCount ==
  ASSUME flags' = flags, NEW i, NEW j \in DOMAIN flags
  PROVE  /\ overridden' = overridden \union {i} => (Score!Counts(j)' <=> Score!Counts(j) /\ j # i)
         /\ overridden' = overridden \ {i} /\ i \in overridden =>
              (Score!Counts(j) <=> Score!Counts(j)' /\ j # i)
  BY DEF Score!Counts

\* With fewer rows that count, the readiness is no worse.
LEMMA FewerRows ==
  ASSUME ScoreTypes, ScoreFacts, ScoreFacts', flags' = flags, result' = result, partial' = partial
  PROVE  /\ Counting' \subseteq Counting =>
              Score!AtLeast(Score!Composite', Score!Composite) /\ Score!NotWorse(Score!Status', Score!Status)
         /\ Counting \subseteq Counting' =>
              Score!AtLeast(Score!Composite, Score!Composite') /\ Score!NotWorse(Score!Status, Score!Status')
  <1> DEFINE v == Score!Worst'
             w == Score!Worst
  <1>1. Score!Weight' = Score!Weight /\ Score!Earned' = Score!Earned /\ Score!Incomplete' = Score!Incomplete
    BY GradesStay
  <1>2. /\ WorstOf(w, Counting, Ids, Severities) /\ \A i \in Counting : Severities[i] \in Degrees
        /\ WorstOf(v, Counting', Ids, Severities) /\ \A i \in Counting' : Severities[i] \in Degrees
        /\ IsFiniteSet(Counting) /\ IsFiniteSet(Counting')
    <2>1. /\ WorstOf(w, Counting, Ids, Severities) /\ \A i \in Counting : Severities[i] \in Degrees
          /\ IsFiniteSet(Counting)
      BY DEF ScoreFacts
    <2>2. /\ WorstOf(v, Counting', Ids', Severities') /\ \A i \in Counting' : Severities'[i] \in Degrees
          /\ IsFiniteSet(Counting')
      BY DEF ScoreFacts, WorstOf, Score!Rank
    <2>3. Ids' = Ids /\ Severities' = Severities
      BY RowsStay
    <2> HIDE DEF v, w
    <2> QED BY <2>1, <2>2, <2>3
  <1>3. /\ Score!Deduction = Score!Cost(w) /\ Score!Deduction' = Score!Cost(v)
        /\ Score!HighFinding <=> "high" \in Score!Range(w)
        /\ Score!HighFinding' <=> "high" \in Score!Range(v)
    BY DEF Score!Deduction, Score!HighFinding, Score!Cost, Score!Points, Score!Range
  <1>4. /\ Score!Deduction \in Nat /\ Score!Deduction' \in Nat
        /\ Score!Weight \in Nat /\ Score!Earned \in Nat /\ Score!Incomplete \in BOOLEAN
        /\ Score!HighFinding \in BOOLEAN /\ Score!HighFinding' \in BOOLEAN
    BY DEF ScoreFacts
  <1>5. /\ Score!Composite = [points |-> Left(Score!Earned, Score!Deduction, Score!Weight), weight |-> Score!Weight]
        /\ Score!Composite' = [points |-> Left(Score!Earned, Score!Deduction', Score!Weight), weight |-> Score!Weight]
        /\ Score!Status = StatusOf(Score!Weight, Score!Incomplete, Score!HighFinding,
                                   Left(Score!Earned, Score!Deduction, Score!Weight))
        /\ Score!Status' = StatusOf(Score!Weight, Score!Incomplete, Score!HighFinding',
                                    Left(Score!Earned, Score!Deduction', Score!Weight))
    BY <1>1 DEF ScoreFacts, Left, StatusOf
  <1> HIDE DEF v, w
  <1>6. ASSUME Counting' \subseteq Counting
        PROVE  Score!AtLeast(Score!Composite', Score!Composite) /\ Score!NotWorse(Score!Status', Score!Status)
    <2>1. Score!Deduction' <= Score!Deduction /\ (Score!HighFinding' => Score!HighFinding)
      BY <1>2, <1>3, <1>6, FewerCost
    <2> QED BY <1>4, <1>5, <2>1, LessIsFairer
  <1>7. ASSUME Counting \subseteq Counting'
        PROVE  Score!AtLeast(Score!Composite, Score!Composite') /\ Score!NotWorse(Score!Status, Score!Status')
    <2>1. Score!Deduction <= Score!Deduction' /\ (Score!HighFinding => Score!HighFinding')
      BY <1>2, <1>3, <1>7, FewerCost
    <2> QED BY <1>4, <1>5, <2>1, LessIsFairer
  <1> QED BY <1>6, <1>7

LEMMA DismissalIsFair ==
  ASSUME ScoreTypes, ScoreFacts, ScoreFacts'
  PROVE  Score!DismissNeverHurts
  <1> SUFFICES ASSUME NEW i \in DOMAIN flags
               PROVE  /\ Score!Dismiss(i) => /\ Score!AtLeast(Score!Composite', Score!Composite)
                                             /\ Score!NotWorse(Score!Status', Score!Status)
                      /\ Score!Confirm(i) => /\ Score!AtLeast(Score!Composite, Score!Composite')
                                             /\ Score!NotWorse(Score!Status, Score!Status')
    BY DEF Score!DismissNeverHurts
  <1>1. ASSUME Score!Dismiss(i)
        PROVE  /\ Score!AtLeast(Score!Composite', Score!Composite)
               /\ Score!NotWorse(Score!Status', Score!Status)
    <2>1. flags' = flags /\ result' = result /\ partial' = partial /\ overridden' = overridden \union {i}
      BY <1>1 DEF Score!Dismiss
    <2>2. Counting' \subseteq Counting
      BY <2>1, RowsCount DEF Counting
    <2> QED BY <2>1, <2>2, FewerRows
  <1>2. ASSUME Score!Confirm(i)
        PROVE  /\ Score!AtLeast(Score!Composite, Score!Composite')
               /\ Score!NotWorse(Score!Status, Score!Status')
    <2>1. /\ flags' = flags /\ result' = result /\ partial' = partial
          /\ i \in overridden /\ overridden' = overridden \ {i}
      BY <1>2 DEF Score!Confirm
    <2>2. Counting \subseteq Counting'
      BY <2>1, RowsCount DEF Counting
    <2> QED BY <2>1, <2>2, FewerRows
  <1> QED BY <1>1, <1>2

\* A row is added behind those that are there.
LEMMA RowAdded ==
  ASSUME ScoreTypes, NEW row \in Rows, Score!Raise(row), NEW n, n = Len(flags) + 1
  PROVE  /\ result' = result /\ partial' = partial
         /\ \A i \in DOMAIN flags : /\ i \in DOMAIN flags' /\ flags'[i] = flags[i]
                                    /\ Score!Counts(i)' <=> Score!Counts(i)
                                    /\ Ids'[i] = Ids[i] /\ Severities'[i] = Severities[i]
         /\ n \notin DOMAIN flags /\ flags'[n] = row /\ Severities'[n] = row.severity
         /\ Ids'[n] = Score!Identity(n)'
         /\ Counting' = IF Score!Counts(n)' THEN Counting \union {n} ELSE Counting
  <1>1. /\ flags \in Seq(Rows) /\ DOMAIN flags = 1..Len(flags) /\ Len(flags) \in Nat
        /\ overridden \subseteq DOMAIN flags
    BY RowsAre DEF ScoreTypes
  <1>2. /\ result' = result /\ partial' = partial /\ overridden' = overridden
        /\ flags' = Append(flags, row)
    BY DEF Score!Raise
  <1>3. /\ DOMAIN flags' = DOMAIN flags \union {n} /\ flags'[n] = row /\ n \notin DOMAIN flags
        /\ \A i \in DOMAIN flags : flags'[i] = flags[i]
    BY <1>1, <1>2
  <1>4. ASSUME NEW i \in DOMAIN flags
        PROVE  /\ Score!Counts(i)' <=> Score!Counts(i)
               /\ Score!Identity(i)' = Score!Identity(i)
    BY <1>2, <1>3 DEF Score!Counts, Score!Identity
  <1>5. \A i \in DOMAIN flags' : Ids'[i] = Score!Identity(i)' /\ Severities'[i] = flags'[i].severity
    BY DEF Ids, Severities
  <1>6. \A i \in DOMAIN flags : Ids[i] = Score!Identity(i) /\ Severities[i] = flags[i].severity
    BY DEF Ids, Severities
  <1>7. Counting' = IF Score!Counts(n)' THEN Counting \union {n} ELSE Counting
    <2>1. Counting' = {i \in DOMAIN flags' : Score!Counts(i)'}
      BY DEF Counting
    <2>2. \A i \in DOMAIN flags : i \in Counting' <=> i \in Counting
      BY <1>3, <1>4, <2>1 DEF Counting
    <2>3. n \in Counting' <=> Score!Counts(n)'
      BY <1>3, <2>1
    <2>4. Counting' \subseteq DOMAIN flags \union {n} /\ Counting \subseteq DOMAIN flags
      BY <1>3, <2>1 DEF Counting
    <2> QED BY <2>2, <2>3, <2>4
  <1>8. ASSUME NEW i \in DOMAIN flags
        PROVE  /\ i \in DOMAIN flags' /\ flags'[i] = flags[i]
               /\ Score!Counts(i)' <=> Score!Counts(i)
               /\ Ids'[i] = Ids[i] /\ Severities'[i] = Severities[i]
    <2>1. i \in DOMAIN flags' /\ flags'[i] = flags[i]
      BY <1>3
    <2> QED BY <1>4, <1>5, <1>6, <2>1
  <1>9. Ids'[n] = Score!Identity(n)' /\ Severities'[n] = row.severity
    BY <1>3, <1>5
  <1> QED BY <1>2, <1>3, <1>7, <1>8, <1>9

\* What a row that does not count, or says nothing new, leaves of the findings.
LEMMA RaiseNothingNew ==
  ASSUME ScoreTypes, ScoreFacts, ScoreFacts', NEW row \in Rows, Score!Raise(row),
         NEW n, n = Len(flags) + 1,
         Score!Counts(n)' => \E i \in Counting : /\ Ids[i] = Ids'[n]
                                                 /\ Score!Rank(row.severity) <= Score!Rank(Severities[i])
  PROVE  Score!Composite' = Score!Composite /\ Score!Status' = Score!Status
  <1> DEFINE v == Score!Worst'
             w == Score!Worst
  <1>1. /\ WorstOf(w, Counting, Ids, Severities) /\ \A i \in Counting : Severities[i] \in Degrees
        /\ WorstOf(v, Counting', Ids', Severities') /\ \A i \in Counting' : Severities'[i] \in Degrees
    <2>1. WorstOf(w, Counting, Ids, Severities) /\ \A i \in Counting : Severities[i] \in Degrees
      BY DEF ScoreFacts
    <2>2. WorstOf(v, Counting', Ids', Severities') /\ \A i \in Counting' : Severities'[i] \in Degrees
      BY DEF ScoreFacts, WorstOf, Score!Rank
    <2> QED BY <2>1, <2>2
  <1> HIDE DEF v, w
  <1>2. /\ result' = result /\ partial' = partial
        /\ \A i \in Counting : Ids'[i] = Ids[i] /\ Severities'[i] = Severities[i]
        /\ Severities'[n] = row.severity
        /\ Counting' = IF Score!Counts(n)' THEN Counting \union {n} ELSE Counting
    BY RowAdded DEF Counting
  <1>3. WorstOf(w, Counting, Ids', Severities')
    BY <1>1, <1>2, WorstSame
  <1>4. WorstOf(w, Counting', Ids', Severities')
    <2>1. CASE ~Score!Counts(n)'
      BY <1>2, <1>3, <2>1
    <2>2. CASE Score!Counts(n)'
      <3>1. Counting' = Counting \union {n}
        BY <1>2, <2>2
      <3>2. PICK i \in Counting : Ids[i] = Ids'[n] /\ Score!Rank(row.severity) <= Score!Rank(Severities[i])
        BY <2>2
      <3>3. Ids'[n] \in DOMAIN w /\ Score!Rank(Severities'[n]) <= Score!Rank(w[Ids'[n]])
        <4>1. Ids[i] \in DOMAIN w /\ w[Ids[i]] \in Degrees
          <5>1. DOMAIN w = {Ids[j] : j \in Counting}
            BY <1>1 DEF WorstOf
          <5>2. \A f \in DOMAIN w : w[f] \in Degrees
            BY <1>1, WorstDegrees
          <5> QED BY <5>1, <5>2
        <4>2. Score!Rank(Severities[i]) <= Score!Rank(w[Ids[i]])
          BY <1>1 DEF WorstOf
        <4>3. row.severity \in Degrees /\ Severities[i] \in Degrees
          BY <1>1, <1>2, <3>1
        <4> QED BY <1>2, <3>2, <4>1, <4>2, <4>3, Ranks
      <3>4. ~(Ids'[n] \in DOMAIN w => Score!Rank(Severities'[n]) > Score!Rank(w[Ids'[n]]))
        <4>1. w[Ids'[n]] \in Degrees /\ Severities'[n] \in Degrees
          <5>1. \A j \in Counting : Severities'[j] \in Degrees
            BY <1>1, <1>2
          <5>2. \A f \in DOMAIN w : w[f] \in Degrees
            BY <1>3, <5>1, WorstDegrees
          <5> QED BY <1>1, <3>1, <3>3, <5>2
        <4> QED BY <3>3, <4>1, Ranks
      <3>5. \A j \in Counting \union {n} : Severities'[j] \in Degrees
        BY <1>1, <3>1
      <3>6. WorstOf(w, Counting \union {n}, Ids', Severities')
        BY <1>3, <3>4, <3>5, WorstMore
      <3> QED BY <3>1, <3>6
    <2> QED BY <2>1, <2>2
  <1>5. v = w
    BY <1>1, <1>4, WorstOnly
  <1> QED BY <1>2, <1>5, SameReadiness DEF v, w

LEMMA PlacesAreFair ==
  ASSUME ScoreTypes, ScoreFacts, ScoreFacts'
  PROVE  Score!PlacesCountOnce
  <1> SUFFICES ASSUME NEW i \in DOMAIN flags, NEW row \in Rows,
                      Score!Raise(row), row.problem # Nothing, Score!Counts(i),
                      row.kind = flags[i].kind, row.problem = flags[i].problem,
                      row.place = flags[i].place, Score!Rank(row.severity) <= Score!Rank(flags[i].severity)
               PROVE  Score!Composite' = Score!Composite /\ Score!Status' = Score!Status
    BY DEF Score!PlacesCountOnce
  <1> DEFINE n == Len(flags) + 1
  <1>1. PICK k : k = n
    OBVIOUS
  <1>2. flags'[k] = row /\ Ids'[k] = Score!Identity(k)'
    BY <1>1, RowAdded
  <1>3. Score!Identity(k)' = Score!Identity(i)
    <2>1. flags[i].kind # "originality_reuse"
      BY DEF Score!Counts
    <2> QED BY <1>2, <2>1 DEF Score!Identity
  <1>4. i \in Counting /\ Ids[i] = Score!Identity(i) /\ Severities[i] = flags[i].severity
    BY DEF Counting, Ids, Severities
  <1> QED BY <1>1, <1>2, <1>3, <1>4, RaiseNothingNew

LEMMA LeadsAreFair ==
  ASSUME ScoreTypes, ScoreFacts, ScoreFacts'
  PROVE  Score!LeadsNeverDecide
  <1> DEFINE lead(row) == ~row.verdict \/ row.kind \in {"originality_reuse", "internal_agreement"}
             same == Score!Composite' = Score!Composite /\ Score!Status' = Score!Status
  <1>1. ASSUME NEW row \in Rows, Score!Raise(row), lead(row) PROVE same
    <2>1. PICK n : n = Len(flags) + 1
      OBVIOUS
    <2>2. flags'[n] = row
      BY <1>1, <2>1, RowAdded
    <2>3. ~Score!Counts(n)'
      BY <1>1, <2>2 DEF Score!Counts
    <2> QED BY <1>1, <2>1, <2>3, RaiseNothingNew
  <1>2. ASSUME NEW i \in DOMAIN flags, lead(flags[i]), Score!Dismiss(i) \/ Score!Confirm(i) PROVE same
    <2>1. flags' = flags /\ result' = result /\ partial' = partial
      BY <1>2 DEF Score!Dismiss, Score!Confirm
    <2>2. /\ ~Score!Counts(i)
          /\ \A j \in DOMAIN flags : Score!Counts(j)' <=> Score!Counts(j)
      BY <1>2 DEF Score!Counts, Score!Dismiss, Score!Confirm
    <2>3. Counting' = Counting
      BY <2>1, <2>2 DEF Counting
    <2>4. Ids' = Ids /\ Severities' = Severities
      BY <2>1, RowsStay
    <2> DEFINE v == Score!Worst'
               w == Score!Worst
    <2>5. WorstOf(w, Counting, Ids, Severities) /\ \A j \in Counting : Severities[j] \in Degrees
      BY DEF ScoreFacts
    <2>6. WorstOf(v, Counting', Ids', Severities')
      BY DEF ScoreFacts, WorstOf, Score!Rank
    <2> HIDE DEF v, w
    <2>7. WorstOf(v, Counting, Ids, Severities)
      BY <2>3, <2>4, <2>6
    <2>8. v = w
      BY <2>5, <2>7, WorstOnly
    <2> QED BY <2>1, <2>8, SameReadiness DEF v, w
  <1> QED BY <1>1, <1>2 DEF Score!LeadsNeverDecide

\* A full mark raises an average and a failure lowers it, whatever is deducted.
LEMMA FullMark ==
  ASSUME NEW w \in Nat, NEW e \in Nat, e <= 100 * w, NEW d \in Nat, NEW a \in Nat
  PROVE  Left(e + 100 * a, d, w + a) * w >= Left(e, d, w) * (w + a)
  <1> DEFINE x == e - d * w
             y == (e + 100 * a) - d * (w + a)
  <1>1. d * w \in Nat /\ d * a \in Nat /\ d * (w + a) = d * w + d * a /\ x \in Int /\ y \in Int
    BY Products
  <1>2. CASE ~(x > 0)
    <2>1. Left(e, d, w) = 0 /\ Left(e + 100 * a, d, w + a) \in Nat
      BY <1>1, <1>2 DEF Left
    <2>2. Left(e + 100 * a, d, w + a) * w \in Nat
      BY <2>1, Products
    <2> QED BY <2>1, <2>2
  <1>3. CASE x > 0
    <2>1. y = x + 100 * a - d * a
      BY <1>1
    <2>2. y * w - x * (w + a) = a * (100 * w - e)
      <3>1. y * w = x * w + 100 * a * w - d * a * w
        BY <1>1, <2>1
      <3>2. x * (w + a) = x * w + x * a
        BY <1>1
      <3>3. x * a = e * a - d * w * a
        BY <1>1
      <3>4. a * (100 * w - e) = 100 * a * w - e * a
        OBVIOUS
      <3>5. d * a * w = d * w * a
        OBVIOUS
      <3> QED BY <3>1, <3>2, <3>3, <3>4, <3>5
    <2>3. a * (100 * w - e) \in Nat
      <3>1. 100 * w - e \in Nat
        OBVIOUS
      <3> QED BY <3>1, Products
    <2>4. y * w >= x * (w + a)
      BY <1>1, <2>2, <2>3
    <2>5. Left(e, d, w) = x /\ Left(e + 100 * a, d, w + a) \in Nat /\ Left(e + 100 * a, d, w + a) >= y
      BY <1>1, <1>3 DEF Left
    <2>6. Left(e + 100 * a, d, w + a) * w >= y * w
      BY <1>1, <2>5
    <2> QED BY <1>1, <2>4, <2>5, <2>6
  <1> QED BY <1>1, <1>2, <1>3

LEMMA Failure ==
  ASSUME NEW w \in Nat, NEW e \in Nat, e <= 100 * w, NEW d \in Nat, NEW a \in Nat
  PROVE  Left(e, d, w) * (w + a) >= Left(e, d, w + a) * w
  <1> DEFINE x == e - d * w
             y == e - d * (w + a)
  <1>1. d * w \in Nat /\ d * a \in Nat /\ d * (w + a) = d * w + d * a /\ x \in Int /\ y \in Int
    BY Products
  <1>2. y = x - d * a
    BY <1>1
  <1>3. CASE ~(y > 0)
    <2>1. Left(e, d, w + a) = 0 /\ Left(e, d, w) \in Nat
      BY <1>1, <1>3 DEF Left
    <2>2. Left(e, d, w) * (w + a) \in Nat
      BY <2>1, Products
    <2> QED BY <2>1, <2>2
  <1>4. CASE y > 0
    <2>1. Left(e, d, w) = x /\ Left(e, d, w + a) = y
      BY <1>1, <1>2, <1>4 DEF Left
    <2>2. x * (w + a) - y * w = e * a
      <3>1. y * w = x * w - d * a * w
        BY <1>1, <1>2
      <3>2. x * (w + a) = x * w + x * a
        BY <1>1
      <3>3. x * a = e * a - d * w * a
        BY <1>1
      <3>4. d * a * w = d * w * a
        OBVIOUS
      <3> QED BY <3>1, <3>2, <3>3, <3>4
    <2>3. e * a \in Nat
      BY Products
    <2> QED BY <1>1, <2>1, <2>2, <2>3
  <1> QED BY <1>1, <1>3, <1>4

\* A grade adds its weight and what it brings to those that are given.
LEMMA GradeGiven ==
  ASSUME ScoreTypes, NEW c \in Score!RubricCriteria, NEW grade \in Score!Graded,
         result[c] = Score!Pending, result' = [result EXCEPT ![c] = grade]
  PROVE  /\ Score!Weight' = Score!Weight + Weights[c]
         /\ Score!Earned' = Score!Earned + Weights[c] * grade.score
  <1> DEFINE S == Score!Contributing
             T == Score!Contributing'
             f == Brings
             g == Brings'
  <1>1. /\ result \in [Score!RubricCriteria -> Score!Graded \union {Score!Pending, Score!Excluded}]
        /\ \A d \in Score!RubricCriteria : result'[d] = IF d = c THEN grade ELSE result[d]
    BY DEF ScoreTypes
  <1>2. /\ IsFiniteSet(S) /\ c \notin S /\ S \subseteq Score!RubricCriteria
        /\ \A x \in S : f[x] \in Nat
    <2>1. S = {d \in Score!RubricCriteria : result[d] \in Score!Graded}
      BY <1>1, GradedBring
    <2>2. IsFiniteSet(S)
      BY <1>1, GradedBring
    <2>3. \A x \in S : f[x] \in Nat
      BY <1>1, GradedBring
    <2> QED BY <2>1, <2>2, <2>3, GradesAre
  <1>3. T = S \union {c}
    <2>1. grade.outcome \in {"passed", "failed"} /\ grade.score # Nothing
      BY GradesAre
    <2>2. Score!Pending.outcome \notin {"passed", "failed"}
      BY GradesAre
    <2> QED BY <1>1, <2>1, <2>2 DEF Score!Contributing, Score!Counted
  <1>4. /\ \A x \in S : g[x] = f[x]
        /\ g[c] = Weights[c] * grade.score
    <2>1. \A x \in T : g[x] = Weights[x] * result'[x].score
      BY DEF Brings
    <2>2. \A x \in S : f[x] = Weights[x] * result[x].score
      BY DEF Brings
    <2>3. \A x \in S : x # c /\ x \in T /\ x \in Score!RubricCriteria
      BY <1>2, <1>3
    <2>4. c \in T
      BY <1>3
    <2> HIDE DEF f, g, S, T
    <2> QED BY <1>1, <2>1, <2>2, <2>3, <2>4
  <1>5. Weights[c] \in Nat /\ g[c] \in Nat
    <2>1. Weights[c] \in Nat /\ grade.score \in Nat
      BY WeightsAre, GradesAre
    <2> QED BY <1>4, <2>1, Products
  <1>6. /\ Score!Weight = Score!SumFunctionOnSet(Weights, S) /\ Score!Weight' = Score!SumFunctionOnSet(Weights, T)
        /\ Score!Earned = Score!SumFunctionOnSet(f, S) /\ Score!Earned' = Score!SumFunctionOnSet(g, T)
    BY DEF Score!Weight, Score!Earned, Brings
  <1> HIDE DEF S, T, f, g
  <1>7. IsFiniteSet(T) /\ T \ {c} = S /\ c \in T
    BY <1>2, <1>3, FS_AddElement
  <1>8. Score!SumFunctionOnSet(Weights, T) = Weights[c] + Score!SumFunctionOnSet(Weights, S)
    <2>1. \A x \in T : Weights[x] \in Int
      BY <1>2, <1>3, WeightsAre
    <2> QED BY <1>7, <2>1, SumSteps
  <1>9. Score!SumFunctionOnSet(g, T) = g[c] + Score!SumFunctionOnSet(f, S)
    <2>1. \A x \in T : g[x] \in Int
      BY <1>2, <1>3, <1>4, <1>5
    <2>2. Score!SumFunctionOnSet(g, T) = g[c] + Score!SumFunctionOnSet(g, S)
      BY <1>7, <2>1, SumSteps
    <2>3. Score!SumFunctionOnSet(f, S) = Score!SumFunctionOnSet(g, S)
      BY <1>2, <1>4, SumSame
    <2> QED BY <2>2, <2>3
  <1>10. Score!SumFunctionOnSet(Weights, S) \in Int /\ Score!SumFunctionOnSet(f, S) \in Int
    <2>1. /\ \A x \in S : Weights[x] \in Int
          /\ \A x \in S : f[x] \in Int
      BY <1>2, WeightsAre
    <2>2. S \in SUBSET S
      OBVIOUS
    <2>3. Score!SumFunctionOnSet(Weights, S) \in Int
      BY <1>2, <2>1, <2>2, SumSteps
    <2>4. Score!SumFunctionOnSet(f, S) \in Int
      BY <1>2, <2>1, <2>2, SumSteps
    <2> QED BY <2>3, <2>4
  <1> QED BY <1>4, <1>5, <1>6, <1>8, <1>9, <1>10

\* A criterion that is excluded brought nothing and brings nothing.
LEMMA GradeExcluded ==
  ASSUME ScoreTypes, NEW c \in Score!RubricCriteria,
         result[c] = Score!Pending, result' = [result EXCEPT ![c] = Score!Excluded]
  PROVE  Score!Weight' = Score!Weight /\ Score!Earned' = Score!Earned
  <1>1. \A d \in Score!RubricCriteria : result'[d] = IF d = c THEN Score!Excluded ELSE result[d]
    BY DEF ScoreTypes
  <1>2. /\ Score!Pending.outcome \notin {"passed", "failed"}
        /\ Score!Excluded.outcome \notin {"passed", "failed"}
    BY GradesAre
  <1>3. Score!Contributing' = Score!Contributing /\ c \notin Score!Contributing
    BY <1>1, <1>2 DEF Score!Contributing, Score!Counted
  <1>4. \A d \in Score!Contributing : result'[d] = result[d]
    BY <1>1, <1>3 DEF Score!Contributing
  <1>5. Score!Weight' = Score!Weight
    BY <1>3 DEF Score!Weight
  <1>6. Score!Earned' = Score!Earned
    BY <1>3, <1>4 DEF Score!Earned
  <1> QED BY <1>5, <1>6

\* Grades do not touch the findings.
LEMMA FindingsStay ==
  ASSUME ScoreFacts, ScoreFacts', flags' = flags, overridden' = overridden
  PROVE  Score!Deduction' = Score!Deduction
  <1> DEFINE v == Score!Worst'
             w == Score!Worst
  <1>1. Counting' = Counting /\ Ids' = Ids /\ Severities' = Severities
    <2>1. Counting' = Counting
      BY DEF Counting, Score!Counts
    <2> QED BY <2>1, RowsStay
  <1>2. /\ WorstOf(w, Counting, Ids, Severities) /\ \A j \in Counting : Severities[j] \in Degrees
        /\ Score!Deduction = Score!Cost(w)
    BY DEF ScoreFacts
  <1>3. WorstOf(v, Counting', Ids', Severities') /\ Score!Deduction' = Score!Cost(v)
    <2>1. WorstOf(v, Counting', Ids', Severities')
      BY DEF ScoreFacts, WorstOf, Score!Rank
    <2>2. Score!Deduction' = Score!Cost(v)
      BY DEF ScoreFacts, Score!Cost, Score!Points
    <2> QED BY <2>1, <2>2
  <1> HIDE DEF v, w
  <1>4. v = w
    BY <1>1, <1>2, <1>3, WorstOnly
  <1> QED BY <1>2, <1>3, <1>4

LEMMA PendingIsFair ==
  ASSUME ScoreTypes, ScoreFacts, ScoreFacts'
  PROVE  Score!PendingIsNeutral
  <1> SUFFICES ASSUME NEW c \in Score!RubricCriteria, NEW grade \in Score!Graded \union {Score!Excluded},
                      Score!Resolve(c, grade)
               PROVE  /\ grade.score = 100 => Score!AtLeast(Score!Composite', Score!Composite)
                      /\ grade.outcome = "failed" => Score!AtLeast(Score!Composite, Score!Composite')
                      /\ grade = Score!Excluded => Score!Composite' = Score!Composite
    BY DEF Score!PendingIsNeutral
  <1> DEFINE w == Score!Weight
             e == Score!Earned
             d == Score!Deduction
             a == Weights[c]
  <1>1. /\ result[c] = Score!Pending /\ result' = [result EXCEPT ![c] = grade]
        /\ flags' = flags /\ overridden' = overridden
    BY DEF Score!Resolve
  <1>2. Score!Deduction' = d
    BY <1>1, FindingsStay
  <1>3. /\ w \in Nat /\ e \in Nat /\ e <= 100 * w /\ d \in Nat
        /\ Score!Composite = [points |-> Left(e, d, w), weight |-> w]
    BY DEF ScoreFacts
  <1>4. Score!Composite' = [points |-> Left(Score!Earned', d, Score!Weight'), weight |-> Score!Weight']
    BY <1>2 DEF ScoreFacts, Left
  <1>5. a \in Nat
    BY WeightsAre
  <1>6. CASE grade = Score!Excluded
    <2>1. Score!Weight' = w /\ Score!Earned' = e
      BY <1>1, <1>6, GradeExcluded
    <2>2. Score!Composite' = Score!Composite
      BY <1>3, <1>4, <2>1
    <2>3. grade.score # 100 /\ grade.outcome # "failed"
      BY <1>6, ScoresAssumption DEF Score!Excluded, Score!ScoringAssumption
    <2> QED BY <2>2, <2>3
  <1>7. CASE grade \in Score!Graded
    <2>1. Score!Weight' = w + a /\ Score!Earned' = e + a * grade.score
      BY <1>1, <1>7, GradeGiven
    <2>2. grade # Score!Excluded
      BY <1>7, GradesAre
    <2>3. ASSUME grade.score = 100 PROVE Score!AtLeast(Score!Composite', Score!Composite)
      <3>1. a * grade.score = 100 * a
        BY <1>5, <2>3
      <3>2. Score!Composite' = [points |-> Left(e + 100 * a, d, w + a), weight |-> w + a]
        BY <1>4, <2>1, <3>1
      <3> HIDE DEF w, e, d, a
      <3>3. Left(e + 100 * a, d, w + a) * w >= Left(e, d, w) * (w + a)
        BY <1>3, <1>5, FullMark
      <3> QED BY <1>3, <3>2, <3>3 DEF Score!AtLeast
    <2>4. ASSUME grade.outcome = "failed" PROVE Score!AtLeast(Score!Composite, Score!Composite')
      <3>1. grade.score = 0
        BY <1>7, <2>4 DEF Score!Graded
      <3>2. a * grade.score = 0 /\ e + 0 = e
        BY <1>3, <1>5, <3>1
      <3>3. Score!Composite' = [points |-> Left(e, d, w + a), weight |-> w + a]
        BY <1>4, <2>1, <3>2
      <3> HIDE DEF w, e, d, a
      <3>4. Left(e, d, w) * (w + a) >= Left(e, d, w + a) * w
        BY <1>3, <1>5, Failure
      <3> QED BY <1>3, <3>3, <3>4 DEF Score!AtLeast
    <2> QED BY <2>2, <2>3, <2>4
  <1> QED BY <1>6, <1>7

LEMMA ScoreStarts == Score!Init => ScoreTypes
  <1> SUFFICES ASSUME Score!Init PROVE ScoreTypes
    OBVIOUS
  <1>1. MaxRows \in Nat
    BY ScoresAssumption DEF Score!ScoringAssumption
  <1>2. flags = <<>> /\ overridden = {} /\ finished \in BOOLEAN /\ partial \in BOOLEAN
    BY DEF Score!Init
  <1>3. flags \in Seq(Rows) /\ Len(flags) = 0
    BY <1>2
  <1>4. result \in [Score!RubricCriteria -> Score!Graded \union {Score!Pending, Score!Excluded}]
    BY DEF Score!Init
  <1> QED BY <1>1, <1>2, <1>3, <1>4 DEF ScoreTypes

LEMMA ScoreIsTrue == ScoreTypes => Score!TypeOK /\ Score!DeductionOfFindings
  <1> SUFFICES ASSUME ScoreTypes PROVE Score!TypeOK /\ Score!DeductionOfFindings
    OBVIOUS
  <1>1. Score!DeductionOfFindings
    BY DeductionIs DEF ScoreTypes
  <1>2. Score!Composite.points \in 0..(100 * Score!Composite.weight)
    BY CompositeIs
  <1> QED BY <1>1, <1>2 DEF Score!TypeOK, ScoreTypes

\* The score of a checked manuscript (report/scoring.py, with the decisions of
\* the instructor): it lies between 0 and 100, its deduction is that of the
\* findings whatever their rows and the order, and dismissals, further places,
\* leads and pending criteria move it only the way they should.
THEOREM ScoresAreFair == Score!Spec => ScoreIsFair
  <1> DEFINE fair == /\ Score!DismissNeverHurts /\ Score!PlacesCountOnce
                     /\ Score!LeadsNeverDecide /\ Score!PendingIsNeutral
  <1>1. ScoreTypes => Score!Sound
    BY ScoreIsTrue DEF Score!Sound
  <1>2. ScoreTypes' => Score!Sound'
    BY <1>1, PTL
  <1>3. ScoreTypes /\ [Score!Next]_(Score!vars) => ScoreTypes' /\ fair
    <2> SUFFICES ASSUME ScoreTypes, [Score!Next]_(Score!vars)
                 PROVE  ScoreTypes' /\ fair
      OBVIOUS
    <2>1. ScoreTypes' /\ ScoreFacts /\ ScoreFacts'
      BY FactsKept
    <2> QED BY <2>1, DismissalIsFair, PlacesAreFair, LeadsAreFair, PendingIsFair
  <1>4. ScoreTypes /\ [Score!Next]_(Score!vars) => ScoreTypes' /\ [Score!Fair]_(Score!vars)
    BY <1>2, <1>3 DEF Score!Fair
  <1> QED BY <1>1, <1>4, ScoreStarts, PTL DEF Score!Spec, ScoreIsFair

=============================================================================
