---------------------- MODULE CheckRunPipeline_proofs ----------------------
(***************************************************************************)
(* Proofs about CheckRunPipeline, for any sets of drivers, runs and units  *)
(* and any number of faults.                                               *)
(*                                                                         *)
(* With claims that may expire under live drivers: type correctness, the   *)
(* refinement of CheckRunLifecycle, that a stage is left only when it is   *)
(* settled, that a run that is done is complete, that a resumed run finds  *)
(* its plan, and that the archive of a finished check is kept.             *)
(*                                                                         *)
(* With claims that expire only when nobody renews them (~LiveExpiry), so  *)
(* that one driver is at work at a time: nothing is settled twice and a    *)
(* cancelled run has no report; and where an exhausted quota degrades the  *)
(* results instead of parking the run (DegradeOnQuota): a cancelled run    *)
(* keeps its note, and nothing is written for a run that has ended.        *)
(***************************************************************************)
EXTENDS CheckRunPipeline, TLAPS

Assumptions ==
  /\ Nobody \notin Drivers \union Runs
  /\ Subject \in [Runs -> [manuscript : Manuscripts, rubric : Rubrics]]
  /\ StageOf \in [Units -> {"routing", "structural", "semantic", "integrity"}]
  /\ MaxFaults \in Nat

LEMMA Given == Assumptions
BY NobodyAssumption, SubjectAssumption, StageOfAssumption, ConfigAssumption
   DEF Assumptions

\* The stages by name.
LEMMA Stages ==
  /\ Active = {"queued", "ingesting", "structural", "semantic", "integrity",
               "aggregating"}
  /\ \A s \in Active : StageAfter[s] \in Active \union {"done"}
  /\ \A s \in Active : s \notin Terminal
BY DEF Active, StageAfter, Terminal

LEMMA InitInv == Init => IInv
<1> SUFFICES ASSUME Init PROVE IInv
  OBVIOUS
<1>1. TypeOK
  BY Given DEF Init, TypeOK, NewRow, Row, FreeSlot, NoTurn, Turn, Points,
     Assumptions
<1>2. \A d \in Drivers : TurnInOrder(d) /\ DrivesLiveRun(d)
  BY DEF Init, TurnInOrder, DrivesLiveRun, NoTurn, At, StagesAt
<1>3. \A r \in Runs : CancelMeansStop(r)
  BY DEF Init, CancelMeansStop, NewRow
<1> QED
  BY <1>1, <1>2, <1>3 DEF IInv

\* What happens to the status and the cancellation of a run.
Same(r) ==
  run'[r].status = run[r].status /\ run'[r].cancel = run[r].cancel

\* A step of a driver keeps the invariant if its turn stays in order and it
\* changes the status of no run but the one it owns.
LEMMA DriverStep ==
  ASSUME IInv, TypeOK', NEW d \in Drivers,
         \A e \in Drivers \ {d} : turn'[e] = turn[e],
         TurnInOrder(d)', DrivesLiveRun(d)', slot' = slot,
         \A r \in Runs : Same(r) \/ (slot = HeldBy(d, r) /\ CancelMeansStop(r)')
  PROVE  IInv'
<1>1. ASSUME NEW e \in Drivers \ {d} PROVE TurnInOrder(e)' /\ DrivesLiveRun(e)'
  <2>1. turn'[e] = turn[e] /\ TurnInOrder(e) /\ DrivesLiveRun(e)
    BY <1>1 DEF IInv
  <2>2. TurnInOrder(e)'
    BY <2>1 DEF TurnInOrder, At
  <2>3. ASSUME Owned(e)', turn'[e].pc \notin {"idle", "ended"}
        PROVE  run'[turn'[e].job].status \in Active \union {"cancelled"}
    <3>1. Owned(e) /\ turn[e].job \in Runs
      BY <2>1, <2>3 DEF Owned, TurnInOrder, At
    <3>2. slot # HeldBy(d, turn[e].job)
      BY <3>1, <1>1 DEF Owned, HeldBy
    <3>3. Same(turn[e].job)
      BY <3>1, <3>2
    <3> QED
      BY <2>1, <2>3, <3>1, <3>3 DEF Same, DrivesLiveRun
  <2> QED
    BY <2>2, <2>3 DEF DrivesLiveRun
<1>2. ASSUME NEW r \in Runs PROVE CancelMeansStop(r)'
  BY <1>2 DEF IInv, Same, CancelMeansStop
<1> QED
  BY <1>1, <1>2 DEF IInv

\* A step in the middle of a turn that changes no status.
LEMMA TurnStep ==
  ASSUME IInv, NEW d \in Drivers, NEW t \in Turn,
         turn' = [turn EXCEPT ![d] = t],
         run' \in [Runs -> Row], \A r \in Runs : Same(r),
         corpus' = corpus, slot' = slot,
         faults' \in 0..MaxFaults,
         t.job = turn[d].job,
         t.stage \in StagesAt(t.pc),
         t.pc # "idle",
         turn[d].pc \notin {"idle", "ended"}
  PROVE  IInv'
<1>1. TypeOK'
  BY DEF IInv, TypeOK
<1>2. turn'[d] = t /\ \A e \in Drivers \ {d} : turn'[e] = turn[e]
  BY DEF IInv, TypeOK
<1>3. TurnInOrder(d) /\ DrivesLiveRun(d)
  BY DEF IInv
<1>4. TurnInOrder(d)'
  BY <1>2, <1>3 DEF TurnInOrder, At
<1>5. DrivesLiveRun(d)'
  BY <1>2, <1>3 DEF DrivesLiveRun, Owned, HeldBy, TurnInOrder, At, Same
<1> QED
  BY <1>1, <1>2, <1>4, <1>5, DriverStep

\* The turn of a driver ends where it is.
LEMMA EndedTurn ==
  ASSUME IInv, NEW d \in Drivers, ~At(d, "idle"), Goto(d, "ended"),
         slot' = slot
  PROVE  /\ turn' \in [Drivers -> Turn]
         /\ \A e \in Drivers \ {d} : turn'[e] = turn[e]
         /\ turn'[d].pc = "ended"
         /\ turn'[d].job = turn[d].job
         /\ TurnInOrder(d)'
         /\ DrivesLiveRun(d)'
<1>1. turn \in [Drivers -> Turn] /\ TurnInOrder(d)
  BY DEF IInv, TypeOK
<1>2. turn' \in [Drivers -> Turn]
  BY <1>1 DEF Goto, Turn, Points
<1>3. turn'[d].pc = "ended" /\ turn'[d].job = turn[d].job
      /\ turn'[d].stage = turn[d].stage
  BY <1>1 DEF Goto, Turn
<1>4. turn[d].stage \in StagesAt("ended")
  BY <1>1, Stages DEF TurnInOrder, StagesAt, At
<1>5. TurnInOrder(d)'
  BY <1>1, <1>3, <1>4 DEF TurnInOrder, At
<1>6. DrivesLiveRun(d)'
  BY <1>3 DEF DrivesLiveRun
<1> QED
  BY <1>1, <1>2, <1>3, <1>5, <1>6 DEF Goto

LEMMA StoppedRow ==
  ASSUME NEW row \in Row PROVE Stopped(row) \in Row
BY DEF Row, Stopped, Terminal

\* A cancellation is finalised, or found finalised.
LEMMA StopInv ==
  ASSUME IInv, NEW d \in Drivers, ~At(d, "idle"), Goto(d, "ended"), Owned(d),
         slot' = slot, faults' = faults,
         \/ run' = run /\ corpus' = corpus
         \/ /\ run' = [run EXCEPT ![turn[d].job] = Stopped(@)]
            /\ Withdraw(turn[d].job)
  PROVE  IInv'
<1> DEFINE r == turn[d].job
<1>1. r \in Runs /\ slot = HeldBy(d, r)
  BY DEF IInv, TurnInOrder, Owned
<1>2. run' \in [Runs -> Row] /\ corpus' \subseteq Manuscripts
  <2>1. CASE run' = run /\ corpus' = corpus
    BY <2>1 DEF IInv, TypeOK
  <2>2. CASE run' = [run EXCEPT ![r] = Stopped(@)] /\ Withdraw(r)
    <3>1. Stopped(run[r]) \in Row
      BY <1>1, StoppedRow DEF IInv, TypeOK
    <3>2. run' \in [Runs -> Row]
      BY <1>1, <2>2, <3>1 DEF IInv, TypeOK
    <3>3. corpus' = corpus \ {Subject[r].manuscript} \/ corpus' = corpus
      BY <2>2 DEF Withdraw
    <3> QED
      BY <3>2, <3>3 DEF IInv, TypeOK
  <2> QED
    BY <2>1, <2>2
<1>3. TypeOK'
  BY <1>2, EndedTurn DEF IInv, TypeOK
<1>4. ASSUME NEW s \in Runs
      PROVE  Same(s) \/ (slot = HeldBy(d, s) /\ CancelMeansStop(s)')
  <2>1. CASE run' = run
    BY <2>1 DEF Same
  <2>2. CASE run' = [run EXCEPT ![r] = Stopped(@)]
    BY <1>1, <2>2 DEF IInv, TypeOK, Same, CancelMeansStop, Stopped, Row
  <2> QED
    BY <2>1, <2>2
<1> QED
  BY <1>3, <1>4, EndedTurn, DriverStep

\* The driver goes to another point of its turn, and nothing else changes.
LEMMA GotoStep ==
  ASSUME IInv, NEW d \in Drivers, NEW p \in Points, Goto(d, p),
         run' = run, corpus' = corpus, slot' = slot, faults' \in 0..MaxFaults,
         turn[d].stage \in StagesAt(p), p # "idle",
         turn[d].pc \notin {"idle", "ended"}
  PROVE  IInv'
<1> DEFINE t == [turn[d] EXCEPT !.pc = p]
<1>1. turn \in [Drivers -> Turn]
  BY DEF IInv, TypeOK
<1>2. t \in Turn /\ t.job = turn[d].job /\ t.stage = turn[d].stage /\ t.pc = p
  BY <1>1 DEF Turn
<1>3. turn' = [turn EXCEPT ![d] = t]
  BY <1>1 DEF Goto
<1>4. run' \in [Runs -> Row] /\ \A r \in Runs : Same(r)
  BY DEF IInv, TypeOK, Same
<1> HIDE DEF t
<1> QED
  BY <1>2, <1>3, <1>4, TurnStep

LEMMA EnterInv ==
  ASSUME IInv, NEW d \in Drivers, Enter(d)
  PROVE  IInv'
<1> DEFINE r == turn[d].job
           stage == run[r].status
           first == IF stage \in {"semantic", "integrity", "aggregating"}
                    THEN "route" ELSE Begin(stage)
           t == [turn[d] EXCEPT !.pc = first, !.stage = stage]
<1>1. /\ turn \in [Drivers -> Turn] /\ TurnInOrder(d) /\ DrivesLiveRun(d)
      /\ ~At(d, "idle") /\ turn[d].pc = "enter" /\ Owned(d)
      /\ slot' = slot /\ faults' = faults
  BY DEF IInv, TypeOK, Enter, FinishCancel, At
<1>2. CASE Goto(d, "ended")
            /\ \/ run' = run /\ corpus' = corpus
               \/ run' = [run EXCEPT ![r] = Stopped(@)] /\ Withdraw(r)
  BY <1>1, <1>2, StopInv
<1>3. CASE /\ stage # "cancelled"
           /\ turn' = [turn EXCEPT ![d].pc = first, ![d].stage = stage]
           /\ run' = run /\ corpus' = corpus
  <2>1. stage \in Active
    BY <1>1, <1>3 DEF DrivesLiveRun
  <2>2. first \in Points \ {"idle"} /\ stage \in StagesAt(first)
    BY <2>1, Stages DEF Begin, Points, StagesAt
  <2>3. t \in Turn /\ t.job = turn[d].job /\ t.stage = stage /\ t.pc = first
    BY <1>1, <2>1, <2>2 DEF Turn
  <2>4. turn' = [turn EXCEPT ![d] = t]
    BY <1>1, <1>3
  <2>5. run' \in [Runs -> Row] /\ \A s \in Runs : Same(s)
    BY <1>3 DEF IInv, TypeOK, Same
  <2>6. faults' \in 0..MaxFaults
    BY <1>1 DEF IInv, TypeOK
  <2> HIDE DEF t, first, stage
  <2> QED
    BY <1>1, <1>3, <2>2, <2>3, <2>4, <2>5, <2>6, TurnStep
<1> QED
  BY <1>2, <1>3 DEF Enter, FinishCancel

\* The steps that only look at the row and go somewhere.
LEMMA MoveInv ==
  ASSUME IInv, NEW d \in Drivers,
         \/ Route(d) \/ QuotaExhausted(d) \/ AIUnavailable(d)
  PROVE  IInv'
<1> DEFINE r == turn[d].job
<1>1. /\ turn \in [Drivers -> Turn] /\ TurnInOrder(d)
      /\ faults \in 0..MaxFaults
  BY DEF IInv, TypeOK
<1>2. CASE Route(d)
  <2>1. turn[d].stage \in {"structural", "semantic", "integrity", "aggregating"}
    BY <1>1, <1>2 DEF Route, TurnInOrder, At, StagesAt
  <2>2. /\ turn[d].pc = "route" /\ run' = run /\ corpus' = corpus
        /\ slot' = slot /\ faults' = faults
    BY <1>2 DEF Route, At
  <2>3. PICK p \in {"aggregate", "load", "fail", "publish"} :
          /\ Goto(d, p)
          /\ p = "load" => turn[d].stage # "aggregating"
          /\ p = "publish" => turn[d].stage = "structural"
    BY <1>2 DEF Route
  <2>4. p \in Points \ {"idle"} /\ turn[d].stage \in StagesAt(p)
    BY <2>1, <2>3, Stages DEF Points, StagesAt
  <2> QED
    BY <1>1, <2>2, <2>3, <2>4, GotoStep
<1>3. CASE AIUnavailable(d)
  <2>1. turn[d].stage \in StagesAt("outage") /\ "outage" \in Points
    BY <1>3, Stages DEF AIUnavailable, StagesAt, Points
  <2> QED
    BY <1>1, <1>3, <2>1, GotoStep DEF AIUnavailable, At
<1>4. CASE QuotaExhausted(d)
  <2> DEFINE missing == Missing(r, "semantic")
             p == IF missing = {} THEN "flush" ELSE "degrade"
             t == [turn[d] EXCEPT !.todo = missing, !.pc = p]
  <2>1. /\ turn[d].pc = "work" /\ turn[d].stage = "semantic"
        /\ run' = run /\ corpus' = corpus /\ slot' = slot
    BY <1>4 DEF QuotaExhausted, At
  <2>2. turn[d].stage \in StagesAt("block") \cap StagesAt("flush")
                          \cap StagesAt("degrade")
    BY <2>1, Stages DEF StagesAt
  <2>3. CASE ~DegradeOnQuota
    <3>1. Goto(d, "block") /\ faults' \in 0..MaxFaults
      BY <1>1, <1>4, <2>3, Given DEF QuotaExhausted, Fault, Assumptions
    <3>2. "block" \in Points
      BY DEF Points
    <3> QED
      BY <2>1, <2>2, <3>1, <3>2, GotoStep
  <2>4. CASE DegradeOnQuota
    <3>1. turn' = [turn EXCEPT ![d] = t] /\ faults' \in 0..MaxFaults
      BY <1>1, <1>4, <2>4 DEF QuotaExhausted
    <3>2. missing \subseteq Units
      BY DEF Missing
    <3>3. t \in Turn /\ t.job = turn[d].job /\ t.stage = turn[d].stage
          /\ t.pc = p /\ p # "idle" /\ turn[d].stage \in StagesAt(p)
      BY <1>1, <2>2, <3>2 DEF Turn, Points
    <3>4. run' \in [Runs -> Row] /\ \A s \in Runs : Same(s)
      BY <2>1 DEF IInv, TypeOK, Same
    <3> HIDE DEF t, p
    <3> QED
      BY <2>1, <3>1, <3>3, <3>4, TurnStep
  <2> QED
    BY <2>3, <2>4
<1> QED
  BY <1>2, <1>3, <1>4

\* A step in the middle of a turn that writes the row of the run, but neither
\* its status nor its cancellation.
LEMMA RowStep ==
  ASSUME IInv, NEW d \in Drivers, NEW t \in Turn, NEW row \in Row,
         turn' = [turn EXCEPT ![d] = t],
         run' = [run EXCEPT ![turn[d].job] = row],
         row.status = run[turn[d].job].status,
         row.cancel = run[turn[d].job].cancel,
         UNCHANGED <<corpus, slot, faults>>,
         t.job = turn[d].job,
         t.stage \in StagesAt(t.pc),
         t.pc # "idle",
         turn[d].pc \notin {"idle", "ended"}
  PROVE  IInv'
<1>1. turn[d].job \in Runs /\ faults' \in 0..MaxFaults
  BY DEF IInv, TypeOK, TurnInOrder, At
<1>2. run' \in [Runs -> Row] /\ \A r \in Runs : Same(r)
  BY <1>1 DEF IInv, TypeOK, Same
<1> QED
  BY <1>1, <1>2, TurnStep

\* The rows a stage stores.
LEMMA ResultStored ==
  ASSUME NEW row \in Row, NEW u \in Units
  PROVE  [row EXCEPT !.results[u] = @ + 1] \in Row
<1>1. [row.results EXCEPT ![u] = @ + 1] \in [Units -> Nat]
  BY DEF Row
<1> QED
  BY <1>1 DEF Row

LEMMA ResultsStored ==
  ASSUME NEW row \in Row, NEW more \in SUBSET Units
  PROVE  [row EXCEPT !.results = [u \in Units |->
            IF u \in more THEN @[u] + 1 ELSE @[u]]] \in Row
<1>1. [u \in Units |-> IF u \in more THEN row.results[u] + 1
                       ELSE row.results[u]] \in [Units -> Nat]
  BY DEF Row
<1> QED
  BY <1>1 DEF Row

LEMMA PlanStored ==
  ASSUME NEW row \in Row
  PROVE  /\ Routed(row) \in Row
         /\ Routed(row).status = row.status
         /\ Routed(row).cancel = row.cancel
<1>1. [u \in Units |-> IF StageOf[u] = "routing" THEN row.results[u] + 1
                       ELSE row.results[u]] \in [Units -> Nat]
  BY DEF Row
<1> QED
  BY <1>1 DEF Row, Routed

LEMMA PublishInv ==
  ASSUME IInv, NEW d \in Drivers, Publish(d)
  PROVE  IInv'
<1> DEFINE r == turn[d].job
           row == Routed(run[r])
           t == [turn[d] EXCEPT !.pc = "load"]
<1>1. /\ turn \in [Drivers -> Turn] /\ TurnInOrder(d) /\ turn[d].pc = "publish"
      /\ r \in Runs /\ run[r] \in Row
  BY DEF IInv, TypeOK, Publish, At, TurnInOrder
<1>2. row \in Row /\ row.status = run[r].status /\ row.cancel = run[r].cancel
  BY <1>1, PlanStored
<1>3. t \in Turn /\ t.job = r /\ t.pc = "load" /\ t.stage \in StagesAt("load")
  BY <1>1 DEF Turn, Points, TurnInOrder, StagesAt
<1>4. turn' = [turn EXCEPT ![d] = t]
  BY <1>1 DEF Publish, Goto
<1>6. run' = [run EXCEPT ![r] = row]
  BY DEF Publish
<1>5. UNCHANGED <<corpus, slot, faults>>
  BY DEF Publish
<1> HIDE DEF row, t
<1> QED
  BY <1>1, <1>2, <1>3, <1>4, <1>5, <1>6, RowStep

LEMMA LoadInv ==
  ASSUME IInv, NEW d \in Drivers, Load(d)
  PROVE  IInv'
<1> DEFINE missing == Missing(turn[d].job, turn[d].stage)
<1>1. /\ turn \in [Drivers -> Turn] /\ TurnInOrder(d) /\ turn[d].pc = "load"
      /\ run' = run /\ corpus' = corpus /\ slot' = slot
      /\ faults' \in 0..MaxFaults
  BY DEF IInv, TypeOK, Load, At
<1>2. PICK first \in Resume(turn[d].stage, missing) :
        turn' = [turn EXCEPT ![d].todo = missing, ![d].pc = first]
  BY DEF Load
<1> DEFINE t == [turn[d] EXCEPT !.todo = missing, !.pc = first]
<1>3. first \in {"boundary", "work", "flush"}
  BY DEF Resume
<1>4. turn[d].stage \in {"structural", "semantic", "integrity"}
  BY <1>1 DEF TurnInOrder, StagesAt
<1>5. turn[d].stage \in StagesAt(first) /\ first \in Points \ {"idle"}
  BY <1>3, <1>4, Stages DEF StagesAt, Points
<1>6. missing \subseteq Units
  BY DEF Missing
<1>7. t \in Turn /\ t.job = turn[d].job /\ t.stage = turn[d].stage /\ t.pc = first
  BY <1>1, <1>5, <1>6 DEF Turn
<1>8. turn' = [turn EXCEPT ![d] = t]
  BY <1>1, <1>2
<1>9. run' \in [Runs -> Row] /\ \A r \in Runs : Same(r)
  BY <1>1 DEF IInv, TypeOK, Same
<1> HIDE DEF t
<1> QED
  BY <1>1, <1>5, <1>7, <1>8, <1>9, TurnStep

\* One result is stored, by a stage at work or one that gives up its rest.
LEMMA WorkInv ==
  ASSUME IInv, NEW d \in Drivers, NEW u \in Units, Work(d, u) \/ Degrade(d, u)
  PROVE  IInv'
<1> DEFINE r == turn[d].job
           left == turn[d].todo \ {u}
           row == [run[r] EXCEPT !.results[u] = @ + 1]
<1>1. /\ turn \in [Drivers -> Turn] /\ TurnInOrder(d)
      /\ turn[d].pc \in {"work", "degrade"}
      /\ r \in Runs /\ run[r] \in Row
      /\ UNCHANGED <<corpus, slot, faults>>
  BY DEF IInv, TypeOK, Work, Degrade, At, TurnInOrder
<1>2. PICK next \in {"flush", "work", "boundary", "degrade"} :
        /\ turn' = [turn EXCEPT ![d].todo = left, ![d].pc = next]
        /\ next \in {"work", "boundary"} => turn[d].pc = "work"
  <2>1. CASE Work(d, u)
    <3>1. turn[d].pc = "work"
          /\ turn[d].stage \in {"structural", "semantic", "integrity"}
      BY <1>1, <2>1 DEF Work, At, TurnInOrder, StagesAt
    <3> QED
      BY <2>1, <3>1 DEF Work
  <2>2. CASE Degrade(d, u)
    BY <2>2 DEF Degrade
  <2> QED
    BY <2>1, <2>2
<1> DEFINE t == [turn[d] EXCEPT !.todo = left, !.pc = next]
<1>3. turn[d].stage \in StagesAt(next) /\ next \in Points \ {"idle"}
  BY <1>1, <1>2, Stages DEF TurnInOrder, StagesAt, Points
<1>4. t \in Turn /\ t.job = r /\ t.stage = turn[d].stage /\ t.pc = next
  BY <1>1, <1>3 DEF Turn
<1>5. turn' = [turn EXCEPT ![d] = t] /\ run' = [run EXCEPT ![r] = row]
  BY <1>1, <1>2 DEF Work, Degrade, Commit1
<1>6. row \in Row /\ row.status = run[r].status /\ row.cancel = run[r].cancel
  BY <1>1, ResultStored DEF Row
<1> HIDE DEF t, row
<1> QED
  BY <1>1, <1>3, <1>4, <1>5, <1>6, RowStep

LEMMA AggregateInv ==
  ASSUME IInv, NEW d \in Drivers, Aggregate(d)
  PROVE  IInv'
<1> DEFINE r == turn[d].job
           row == [run[r] EXCEPT !.report = TRUE]
           t == [turn[d] EXCEPT !.pc = "flush"]
<1>1. /\ turn \in [Drivers -> Turn] /\ TurnInOrder(d) /\ turn[d].pc = "aggregate"
      /\ r \in Runs /\ run[r] \in Row
      /\ UNCHANGED <<corpus, slot, faults>>
  BY DEF IInv, TypeOK, Aggregate, At, TurnInOrder
<1>2. row \in Row /\ row.status = run[r].status /\ row.cancel = run[r].cancel
  BY <1>1 DEF Row
<1>3. t \in Turn /\ t.job = r /\ t.pc = "flush" /\ t.stage \in StagesAt("flush")
  BY <1>1 DEF Turn, Points, TurnInOrder, StagesAt
<1>4. turn' = [turn EXCEPT ![d] = t] /\ run' = [run EXCEPT ![r] = row]
  BY <1>1 DEF Aggregate, Goto
<1> HIDE DEF row, t
<1> QED
  BY <1>1, <1>2, <1>3, <1>4, RowStep

\* The steps that look for a cancellation.
LEMMA BoundaryInv ==
  ASSUME IInv, NEW d \in Drivers, Boundary(d) \/ Recheck(d)
  PROVE  IInv'
<1> DEFINE r == turn[d].job
<1>1. /\ turn \in [Drivers -> Turn] /\ TurnInOrder(d)
      /\ turn[d].pc \in {"boundary", "recheck"} /\ ~At(d, "idle")
      /\ Owned(d) /\ slot' = slot /\ faults' = faults
      /\ faults' \in 0..MaxFaults
  BY DEF IInv, TypeOK, Boundary, Recheck, FinishCancel, At
<1>2. CASE Goto(d, "ended")
            /\ \/ run' = run /\ corpus' = corpus
               \/ run' = [run EXCEPT ![r] = Stopped(@)] /\ Withdraw(r)
  BY <1>1, <1>2, StopInv
<1>3. CASE /\ \E p \in {"flush", "work", "advance"} :
                Goto(d, p) /\ (p = "work" => turn[d].pc = "boundary")
           /\ run' = run /\ corpus' = corpus
  <2>1. PICK p \in {"flush", "work", "advance"} :
          Goto(d, p) /\ (p = "work" => turn[d].pc = "boundary")
    BY <1>3
  <2>2. turn[d].stage \in StagesAt(p) /\ p \in Points \ {"idle"}
    BY <1>1, <2>1, Stages DEF TurnInOrder, StagesAt, Points
  <2> QED
    BY <1>1, <1>3, <2>1, <2>2, GotoStep
<1> QED
  BY <1>2, <1>3 DEF Boundary, Recheck, FinishCancel, At

LEMMA OutageInv ==
  ASSUME IInv, NEW d \in Drivers, Outage(d)
  PROVE  IInv'
<1> DEFINE r == turn[d].job
           t == [turn[d] EXCEPT !.todo = {}, !.pc = "flush",
                   !.unsaved = Missing(r, "semantic")]
<1>1. /\ turn \in [Drivers -> Turn] /\ TurnInOrder(d)
      /\ turn[d].pc = "outage" /\ ~At(d, "idle")
      /\ Owned(d) /\ slot' = slot /\ faults' = faults
      /\ faults' \in 0..MaxFaults
  BY DEF IInv, TypeOK, Outage, FinishCancel, At
<1>2. CASE Goto(d, "ended")
            /\ \/ run' = run /\ corpus' = corpus
               \/ run' = [run EXCEPT ![r] = Stopped(@)] /\ Withdraw(r)
  BY <1>1, <1>2, StopInv
<1>3. CASE /\ turn' = [turn EXCEPT ![d].todo = {}, ![d].pc = "flush",
                         ![d].unsaved = Missing(r, "semantic")]
           /\ run' = run /\ corpus' = corpus
  <2>1. Missing(r, "semantic") \subseteq Units
    BY DEF Missing
  <2>2. t \in Turn /\ t.job = r /\ t.stage = turn[d].stage /\ t.pc = "flush"
    BY <1>1, <2>1 DEF Turn, Points
  <2>3. t.stage \in StagesAt("flush")
    BY <1>1, <2>2 DEF TurnInOrder, StagesAt
  <2>4. turn' = [turn EXCEPT ![d] = t]
    BY <1>1, <1>3
  <2>5. run' \in [Runs -> Row] /\ \A s \in Runs : Same(s)
    BY <1>3 DEF IInv, TypeOK, Same
  <2> HIDE DEF t
  <2> QED
    BY <1>1, <1>3, <2>2, <2>3, <2>4, <2>5, TurnStep
<1> QED
  BY <1>2, <1>3 DEF Outage, FinishCancel

LEMMA FlushInv ==
  ASSUME IInv, NEW d \in Drivers, Flush(d)
  PROVE  IInv'
<1> DEFINE r == turn[d].job
           recorded == IF turn[d].stage = "queued" THEN run[r]
                       ELSE [run[r] EXCEPT !.block = "none", !.note = FALSE]
           row == [recorded EXCEPT !.results = [u \in Units |->
                     IF u \in turn[d].unsaved THEN @[u] + 1 ELSE @[u]]]
           t == [turn[d] EXCEPT !.pc = "recheck", !.unsaved = {}]
<1>1. /\ turn \in [Drivers -> Turn] /\ TurnInOrder(d) /\ turn[d].pc = "flush"
      /\ r \in Runs /\ run[r] \in Row
      /\ UNCHANGED <<corpus, slot, faults>>
  BY DEF IInv, TypeOK, Flush, At, TurnInOrder
<1>2. recorded \in Row /\ recorded.status = run[r].status
      /\ recorded.cancel = run[r].cancel
  BY <1>1 DEF Row
<1>3. turn[d].unsaved \subseteq Units
  BY <1>1 DEF Turn
<1>4. turn' = [turn EXCEPT ![d] = t]
  BY <1>1 DEF Flush
<1>5. run' = [run EXCEPT ![r] = row]
  BY <1>1 DEF Flush
<1>6. t \in Turn /\ t.job = r /\ t.stage = turn[d].stage /\ t.pc = "recheck"
  BY <1>1 DEF Turn, Points
<1>7. t.stage \in StagesAt("recheck")
  BY <1>1, <1>6 DEF TurnInOrder, StagesAt
<1> HIDE DEF recorded
<1>8. row \in Row /\ row.status = run[r].status /\ row.cancel = run[r].cancel
  <2>1. row \in Row
    BY <1>2, <1>3, ResultsStored
  <2> QED
    BY <1>2, <2>1 DEF Row
<1> HIDE DEF row, t
<1> QED
  BY <1>1, <1>4, <1>5, <1>6, <1>7, <1>8, RowStep

\* The conditional UPDATE: the stage after the one the driver has read.
LEMMA AdvanceInv ==
  ASSUME IInv, NEW d \in Drivers, Advance(d)
  PROVE  IInv'
<1> DEFINE r == turn[d].job
           next == StageAfter[turn[d].stage]
           t == [turn[d] EXCEPT !.pc = Begin(next), !.stage = next]
           row == [run[r] EXCEPT !.status = next]
<1>1. /\ turn \in [Drivers -> Turn] /\ TurnInOrder(d)
      /\ turn[d].pc = "advance" /\ ~At(d, "idle")
      /\ turn[d].stage \in Active
      /\ r \in Runs /\ run[r] \in Row
      /\ slot' = slot /\ faults' = faults
      /\ faults' \in 0..MaxFaults /\ Owned(d)
  BY DEF IInv, TypeOK, Advance, FinishCancel, At, TurnInOrder, StagesAt
<1>2. CASE Goto(d, "ended")
            /\ \/ run' = run /\ corpus' = corpus
               \/ run' = [run EXCEPT ![r] = Stopped(@)] /\ Withdraw(r)
  BY <1>1, <1>2, StopInv
<1>3. CASE /\ run[r].status = turn[d].stage /\ ~run[r].cancel
           /\ run' = [run EXCEPT ![r].status = next]
           /\ turn' = [turn EXCEPT ![d].pc = Begin(next), ![d].stage = next]
           /\ corpus' = corpus
  <2>1. next \in Active \union {"done"}
    BY <1>1, Stages
  <2>2. /\ Begin(next) \in Points \ {"idle"}
        /\ next \in StagesAt(Begin(next))
        /\ next = "done" => Begin(next) = "ended"
    <3>1. Begin(next) = CASE next \in {"queued", "ingesting"} -> "flush"
                          [] next = "structural" -> "route"
                          [] next \in {"semantic", "integrity"} -> "load"
                          [] next = "aggregating" -> "aggregate"
                          [] next = "done" -> "ended"
      BY DEF Begin
    <3> HIDE DEF next
    <3> QED
      BY <2>1, <3>1, Stages DEF Points, StagesAt
  <2> HIDE DEF next
  <2>3. t \in Turn /\ t.job = r /\ t.stage = next /\ t.pc = Begin(next)
    BY <1>1, <2>1, <2>2 DEF Turn
  <2>4. turn' = [turn EXCEPT ![d] = t]
    BY <1>1, <1>3
  <2>5. run' = [run EXCEPT ![r] = row]
    BY <1>3
  <2>6. row \in Row /\ row.status = next /\ ~row.cancel
    BY <1>1, <1>3, <2>1 DEF Row, Terminal
  <2> HIDE DEF row, t
  <2>7. TypeOK'
    <3>1. turn' \in [Drivers -> Turn]
      BY <1>1, <2>3, <2>4
    <3>2. run' \in [Runs -> Row]
      BY <1>1, <2>5, <2>6 DEF IInv, TypeOK
    <3> QED
      BY <1>1, <1>3, <3>1, <3>2 DEF IInv, TypeOK
  <2>8. turn'[d] = t /\ \A e \in Drivers \ {d} : turn'[e] = turn[e]
    BY <1>1, <2>4
  <2>9. run'[r] = row /\ \A s \in Runs \ {r} : run'[s] = run[s]
    BY <1>1, <2>5 DEF IInv, TypeOK
  <2>10. TurnInOrder(d)'
    BY <1>1, <2>2, <2>3, <2>8 DEF TurnInOrder, At
  <2>11. DrivesLiveRun(d)'
    BY <2>1, <2>2, <2>3, <2>6, <2>8, <2>9 DEF DrivesLiveRun
  <2>12. \A s \in Runs : Same(s) \/ (slot = HeldBy(d, s) /\ CancelMeansStop(s)')
    BY <1>1, <2>6, <2>9 DEF Same, CancelMeansStop, Owned
  <2> QED
    BY <1>1, <2>7, <2>8, <2>10, <2>11, <2>12, DriverStep
<1> QED
  BY <1>2, <1>3 DEF Advance, FinishCancel

\* A failure or a wait is stored, unless a cancellation has been accepted.
LEMMA ExceptionInv ==
  ASSUME IInv, NEW d \in Drivers, Fail(d) \/ Block(d)
  PROVE  IInv'
<1> DEFINE r == turn[d].job
<1>1. /\ ~At(d, "idle") /\ Owned(d) /\ slot' = slot /\ faults' = faults
      /\ Goto(d, "ended") /\ r \in Runs /\ run[r] \in Row
  BY DEF IInv, TypeOK, Fail, Block, ExceptionExit, FinishCancel, At, TurnInOrder
<1>2. CASE \/ run' = run /\ corpus' = corpus
           \/ run' = [run EXCEPT ![r] = Stopped(@)] /\ Withdraw(r)
  BY <1>1, <1>2, StopInv
<1>3. CASE /\ \E row \in {[run[r] EXCEPT !.status = "failed"],
                          [run[r] EXCEPT !.block = "waiting"]} :
                run' = [run EXCEPT ![r] = row]
           /\ ~run[r].cancel
           /\ corpus' = corpus
  <2>1. PICK row \in {[run[r] EXCEPT !.status = "failed"],
                      [run[r] EXCEPT !.block = "waiting"]} :
          run' = [run EXCEPT ![r] = row]
    BY <1>3
  <2>2. row \in Row /\ ~row.cancel
    BY <1>1, <1>3, <2>1 DEF Row, Terminal
  <2>3. TypeOK'
    BY <1>1, <1>3, <2>1, <2>2, EndedTurn DEF IInv, TypeOK
  <2>4. run'[r] = row /\ \A s \in Runs \ {r} : run'[s] = run[s]
    BY <1>1, <2>1 DEF IInv, TypeOK
  <2>5. \A s \in Runs : Same(s) \/ (slot = HeldBy(d, s) /\ CancelMeansStop(s)')
    BY <1>1, <2>2, <2>4 DEF Same, CancelMeansStop, Owned
  <2> QED
    BY <1>1, <2>3, <2>5, EndedTurn, DriverStep
<1> QED
  BY <1>2, <1>3 DEF Fail, Block, ExceptionExit, FinishCancel

\* The ways a turn breaks off.
LEMMA BreakInv ==
  ASSUME IInv, NEW d \in Drivers,
         Raise(d) \/ LoseClaim(d) \/ YieldTurn(d)
  PROVE  IInv'
<1> DEFINE p == IF Raise(d) THEN "fail" ELSE "ended"
           t == [turn[d] EXCEPT !.pc = p, !.unsaved = {}]
<1>1. /\ turn \in [Drivers -> Turn] /\ TurnInOrder(d)
      /\ turn[d].pc \notin {"idle", "ended"}
      /\ run' = run /\ corpus' = corpus /\ slot' = slot
      /\ faults' \in 0..MaxFaults
  <2>1. faults \in 0..MaxFaults /\ MaxFaults \in Nat
    BY Given DEF IInv, TypeOK, Assumptions
  <2>2. faults' \in 0..MaxFaults
    BY <2>1 DEF Raise, LoseClaim, YieldTurn, Fault
  <2> QED
    BY <2>2 DEF IInv, TypeOK, Raise, LoseClaim, YieldTurn, FencedPoints
<1>2. turn' = [turn EXCEPT ![d].pc = p, ![d].unsaved = {}]
  BY DEF LoseClaim, YieldTurn, Raise
<1>3. p \in {"fail", "ended"} /\ (p = "fail" => turn[d].pc # "enter")
  BY DEF Raise
<1> HIDE DEF p
<1>4. turn[d].stage \in StagesAt(p)
  BY <1>1, <1>3, Stages DEF TurnInOrder, StagesAt
<1>5. t \in Turn /\ t.job = turn[d].job /\ t.stage = turn[d].stage /\ t.pc = p
  BY <1>1, <1>3 DEF Turn, Points
<1>6. turn' = [turn EXCEPT ![d] = t]
  BY <1>1, <1>2
<1>7. run' \in [Runs -> Row] /\ \A s \in Runs : Same(s)
  BY <1>1 DEF IInv, TypeOK, Same
<1> HIDE DEF t
<1> QED
  BY <1>1, <1>3, <1>4, <1>5, <1>6, <1>7, TurnStep

\* No slot is gained, no row written, and a turn at most forgotten.
LEMMA ForgetInv ==
  ASSUME IInv, run' = run, corpus' = corpus, faults' \in 0..MaxFaults,
         slot' \in [run : Runs \union {Nobody}, driver : Drivers \union {Nobody}],
         slot' = slot \/ slot'.driver = Nobody,
         \/ turn' = turn
         \/ \E d \in Drivers : turn' = [turn EXCEPT ![d] = NoTurn]
  PROVE  IInv'
<1>1. turn \in [Drivers -> Turn] /\ NoTurn \in Turn
  BY DEF IInv, TypeOK, NoTurn, Turn, Points
<1>2. TypeOK'
  BY <1>1 DEF IInv, TypeOK
<1>3. ASSUME NEW e \in Drivers PROVE TurnInOrder(e)' /\ DrivesLiveRun(e)'
  <2>1. CASE turn'[e] = NoTurn
    BY <2>1 DEF NoTurn, TurnInOrder, DrivesLiveRun, StagesAt, At
  <2>2. CASE turn'[e] = turn[e]
    <3>1. TurnInOrder(e) /\ DrivesLiveRun(e)
      BY DEF IInv
    <3>2. Owned(e)' => Owned(e)
      BY <2>2, Given DEF Owned, HeldBy, Assumptions
    <3> QED
      BY <2>2, <3>1, <3>2 DEF TurnInOrder, DrivesLiveRun, At
  <2> QED
    BY <1>1, <2>1, <2>2
<1>4. \A r \in Runs : CancelMeansStop(r)'
  BY DEF IInv, CancelMeansStop
<1> QED
  BY <1>2, <1>3, <1>4 DEF IInv

LEMMA EndInv ==
  ASSUME IInv, NEW d \in Drivers, EndTurn(d) \/ Crash(d)
  PROVE  IInv'
<1>1. /\ slot \in [run : Runs \union {Nobody}, driver : Drivers \union {Nobody}]
      /\ faults \in 0..MaxFaults /\ MaxFaults \in Nat
      /\ ~At(d, "idle") => turn[d].job \in Runs
  BY Given DEF IInv, TypeOK, TurnInOrder, Assumptions
<1>2. run' = run /\ corpus' = corpus /\ turn' = [turn EXCEPT ![d] = NoTurn]
  BY DEF EndTurn, Crash
<1>3. faults' \in 0..MaxFaults
  BY <1>1 DEF EndTurn, Crash, Fault
<1>4. /\ slot' \in [run : Runs \union {Nobody}, driver : Drivers \union {Nobody}]
      /\ slot' = slot \/ slot'.driver = Nobody
  BY <1>1 DEF EndTurn, Crash, FreeSlot, HeldBy, At
<1> QED
  BY <1>2, <1>3, <1>4, ForgetInv

LEMMA ExpireInv ==
  ASSUME IInv, Expire \/ ExpireLive
  PROVE  IInv'
<1>1. faults' \in 0..MaxFaults
  BY Given DEF IInv, TypeOK, Expire, ExpireLive, Fault, Assumptions
<1> QED
  BY <1>1, ForgetInv DEF Expire, ExpireLive, FreeSlot

LEMMA AdmitInv ==
  ASSUME IInv, NEW d \in Drivers, NEW r \in Runs, Admit(d, r)
  PROVE  IInv'
<1> DEFINE t == [NoTurn EXCEPT !.pc = "enter", !.job = r]
<1>1. t \in Turn /\ t.pc = "enter" /\ t.job = r /\ t.stage = "none"
  BY DEF NoTurn, Turn, Points
<1>2. /\ turn' = [turn EXCEPT ![d] = t] /\ slot' = HeldBy(d, r)
      /\ run' = run /\ corpus' = corpus /\ faults' = faults
      /\ run[r].status \in Active
  BY DEF Admit
<1> HIDE DEF t
<1>3. turn'[d] = t /\ \A e \in Drivers \ {d} : turn'[e] = turn[e]
  BY <1>2 DEF IInv, TypeOK
<1>4. TypeOK'
  BY <1>1, <1>2 DEF IInv, TypeOK, HeldBy
<1>5. TurnInOrder(d)' /\ DrivesLiveRun(d)'
  BY <1>1, <1>2, <1>3 DEF TurnInOrder, DrivesLiveRun, At, StagesAt
<1>6. ASSUME NEW e \in Drivers \ {d} PROVE TurnInOrder(e)' /\ DrivesLiveRun(e)'
  <2>1. TurnInOrder(e)
    BY DEF IInv
  <2>2. ~Owned(e)'
    BY <1>2 DEF Owned, HeldBy
  <2> QED
    BY <1>3, <2>1, <2>2 DEF TurnInOrder, DrivesLiveRun, At
<1>7. \A s \in Runs : CancelMeansStop(s)'
  BY <1>2 DEF IInv, CancelMeansStop
<1> QED
  BY <1>4, <1>5, <1>6, <1>7 DEF IInv

\* A request changes one row, which stays active or becomes cancelled.
LEMMA RequestStep ==
  ASSUME IInv, NEW r \in Runs, NEW row \in Row, run' = [run EXCEPT ![r] = row],
         run[r].status \in Active => row.status \in Active \union {"cancelled"},
         run[r].status = "cancelled" => row.status = "cancelled",
         row.cancel => row.status \in Active \union {"cancelled"},
         corpus' \subseteq Manuscripts,
         slot' = slot, turn' = turn, faults' = faults
  PROVE  IInv'
<1>1. TypeOK'
  BY DEF IInv, TypeOK
<1>2. run'[r] = row /\ \A s \in Runs \ {r} : run'[s] = run[s]
  BY DEF IInv, TypeOK
<1>3. ASSUME NEW d \in Drivers PROVE TurnInOrder(d)' /\ DrivesLiveRun(d)'
  <2>1. TurnInOrder(d) /\ DrivesLiveRun(d)
    BY DEF IInv
  <2> QED
    BY <1>2, <2>1 DEF TurnInOrder, DrivesLiveRun, At, Owned, HeldBy
<1>4. \A s \in Runs : CancelMeansStop(s)'
  BY <1>2 DEF IInv, CancelMeansStop
<1> QED
  BY <1>1, <1>3, <1>4 DEF IInv

LEMMA RequestInv ==
  ASSUME IInv, NEW r \in Runs, CreateRun(r) \/ CancelRun(r) \/ QuotaReset(r)
  PROVE  IInv'
<1>1. run \in [Runs -> Row] /\ run[r] \in Row /\ CancelMeansStop(r)
      /\ corpus \subseteq Manuscripts
  BY DEF IInv, TypeOK
<1>2. CASE CreateRun(r)
  <2> DEFINE row == [run[r] EXCEPT !.status = "queued"]
  <2>1. row \in Row /\ row.status = "queued"
    BY <1>1, Stages DEF Row
  <2>2. run' = [run EXCEPT ![r] = row] /\ run[r].status = "absent"
    BY <1>2 DEF CreateRun
  <2>3. "queued" \in Active /\ "absent" \notin Active
    BY Stages
  <2> HIDE DEF row
  <2> QED
    BY <1>1, <1>2, <2>1, <2>2, <2>3, RequestStep DEF CreateRun
<1>3. CASE CancelRun(r)
  <2>1. run[r].status \in Active /\ slot' = slot /\ turn' = turn
        /\ faults' = faults /\ "cancelled" \notin Active
    BY <1>3, Stages DEF CancelRun
  <2>2. CASE /\ run' = [run EXCEPT ![r] = [Stopped(@) EXCEPT !.cancel = TRUE]]
             /\ Withdraw(r)
    <3> DEFINE row == [Stopped(run[r]) EXCEPT !.cancel = TRUE]
    <3>1. row \in Row /\ row.status = "cancelled"
      BY <1>1, StoppedRow DEF Stopped, Row
    <3>2. corpus' \subseteq Manuscripts
      BY <1>1, <2>2 DEF Withdraw
    <3> HIDE DEF row
    <3> QED
      BY <2>1, <2>2, <3>1, <3>2, RequestStep DEF row
  <2>3. CASE run' = [run EXCEPT ![r].cancel = TRUE] /\ corpus' = corpus
    <3> DEFINE row == [run[r] EXCEPT !.cancel = TRUE]
    <3>1. row \in Row /\ row.status = run[r].status
      BY <1>1 DEF Row
    <3>2. run' = [run EXCEPT ![r] = row]
      BY <2>3
    <3> HIDE DEF row
    <3> QED
      BY <1>1, <2>1, <2>3, <3>1, <3>2, RequestStep
  <2> QED
    BY <1>3, <2>2, <2>3 DEF CancelRun
<1>4. CASE QuotaReset(r)
  <2> DEFINE row == [run[r] EXCEPT !.block = "due"]
  <2>1. row \in Row /\ row.status = run[r].status /\ row.cancel = run[r].cancel
    BY <1>1 DEF Row
  <2>2. run' = [run EXCEPT ![r] = row]
    BY <1>4 DEF QuotaReset
  <2> HIDE DEF row
  <2> QED
    BY <1>1, <1>4, <2>1, <2>2, RequestStep DEF QuotaReset, CancelMeansStop
<1> QED
  BY <1>2, <1>3, <1>4

LEMMA NextInv == IInv /\ [Next]_vars => IInv'
<1> SUFFICES ASSUME IInv, [Next]_vars PROVE IInv'
  OBVIOUS
<1>1. ASSUME NEW d \in Drivers, Step(d) PROVE IInv'
  BY <1>1, AdmitInv, EnterInv, MoveInv, PublishInv, LoadInv, WorkInv,
     BoundaryInv, OutageInv, AggregateInv, FlushInv, AdvanceInv, ExceptionInv,
     BreakInv, EndInv DEF Step
<1>2. CASE UNCHANGED vars
  BY <1>2, ForgetInv DEF vars, IInv, TypeOK
<1> QED
  BY <1>1, <1>2, RequestInv, BreakInv, EndInv, ExpireInv DEF Next

THEOREM Inductive == Spec => []IInv
<1>1. Init => IInv
  BY InitInv
<1>2. IInv /\ [Next]_vars => IInv'
  BY NextInv
<1> QED
  BY <1>1, <1>2, PTL DEF Spec

\* Every variable keeps its type.
THEOREM TypeCorrect == Spec => []TypeOK
<1>1. IInv => TypeOK
  BY DEF IInv
<1> QED
  BY <1>1, Inductive, PTL

-----------------------------------------------------------------------------
(* The refinement.                                                         *)

\* What a step may do to the row of a run that it changes.
Promised(r) ==
  LET old == run[r]
      new == run'[r]
  IN
  \/ /\ old.status = "absent" /\ new.status = "queued"
     /\ new.cancel = old.cancel
  \/ /\ old.status \in Active /\ ~old.cancel /\ new.cancel = TRUE
     /\ new.status \in {old.status, "cancelled"}
  \/ /\ old.status \in Active /\ old.cancel
     /\ new.cancel = old.cancel /\ new.status = "cancelled"
  \/ /\ old.status \in Active /\ ~old.cancel
     /\ new.cancel = old.cancel
     /\ new.status \in {StageAfter[old.status], "failed"}

LEMMA SameStutters ==
  ASSUME \A r \in Runs : Same(r)
  PROVE  UNCHANGED Lifecycle!vars
BY DEF Same, Lifecycle!vars

LEMMA OneRun ==
  ASSUME NEW r \in Runs, \A s \in Runs \ {r} : Same(s), Promised(r)
  PROVE  Lifecycle!Next
<1> DEFINE status == [s \in Runs |-> run[s].status]
           requested == [s \in Runs |-> run[s].cancel]
<1>1. /\ status' = [status EXCEPT ![r] = run'[r].status]
      /\ requested' = [requested EXCEPT ![r] = run'[r].cancel]
  BY DEF Same
<1>2. status[r] = run[r].status /\ requested[r] = run[r].cancel
  OBVIOUS
<1>3. run'[r].status = run[r].status => status' = status
  BY <1>1, <1>2
<1>4. run'[r].cancel = run[r].cancel => requested' = requested
  BY <1>1, <1>2
<1>5. Active = Lifecycle!Active /\ StageAfter = Lifecycle!StageAfter
  BY DEF Active, Lifecycle!Active, StageAfter, Lifecycle!StageAfter
<1> HIDE DEF status, requested
<1> QED
  BY <1>1, <1>2, <1>3, <1>4, <1>5
     DEF Promised, status, requested, Lifecycle!Next, Lifecycle!Create,
         Lifecycle!RequestCancel, Lifecycle!Stop, Lifecycle!Advance,
         Lifecycle!Fail

\* Only the row of r changes, as CheckRunLifecycle allows, or no status does.
Kept == \/ \A r \in Runs : Same(r)
        \/ \E r \in Runs : (\A s \in Runs \ {r} : Same(s)) /\ Promised(r)

LEMMA OneRow ==
  ASSUME IInv, NEW r \in Runs, NEW row, run' = [run EXCEPT ![r] = row],
         \/ row.status = run[r].status /\ row.cancel = run[r].cancel
         \/ Promised(r)
  PROVE  Kept
<1>1. run'[r] = row /\ \A s \in Runs \ {r} : Same(s)
  BY DEF IInv, TypeOK, Same
<1> QED
  BY <1>1 DEF Kept, Same

\* A finalised cancellation.
LEMMA StopKept ==
  ASSUME IInv, NEW d \in Drivers, turn[d].job \in Runs,
         \/ run' = run
         \/ /\ run[turn[d].job].status # "cancelled" /\ run[turn[d].job].cancel
            /\ run' = [run EXCEPT ![turn[d].job] = Stopped(@)]
  PROVE  Kept
<1> DEFINE r == turn[d].job
<1>1. CASE run' = run
  BY <1>1 DEF Kept, Same
<1>2. CASE /\ run[r].status # "cancelled" /\ run[r].cancel
           /\ run' = [run EXCEPT ![r] = Stopped(@)]
  <2>1. run[r].status \in Active /\ run[r] \in Row
    BY <1>2 DEF IInv, TypeOK, CancelMeansStop
  <2>2. run'[r] = Stopped(run[r])
    BY <1>2 DEF IInv, TypeOK
  <2>3. run'[r].status = "cancelled" /\ run'[r].cancel = run[r].cancel
    BY <2>1, <2>2 DEF Stopped, Row
  <2>4. Promised(r)
    BY <1>2, <2>1, <2>3 DEF Promised
  <2> QED
    BY <1>2, <2>4, OneRow
<1> QED
  BY <1>1, <1>2

LEMMA StepKept ==
  ASSUME IInv, NEW d \in Drivers, Step(d)
  PROVE  Kept
<1> DEFINE r == turn[d].job
<1>1. /\ run \in [Runs -> Row]
      /\ turn[d].pc # "idle" => r \in Runs /\ run[r] \in Row
      /\ turn[d].stage \in StagesAt(turn[d].pc)
  BY DEF IInv, TypeOK, TurnInOrder, At
<1>2. CASE run' = run
  BY <1>2 DEF Kept, Same
<1>3. CASE Enter(d) \/ Boundary(d) \/ Outage(d) \/ Recheck(d)
  <2>1. r \in Runs
    BY <1>1, <1>3 DEF Enter, Boundary, Outage, Recheck, At
  <2> QED
    BY <1>3, <2>1, StopKept DEF Enter, Boundary, Outage, Recheck, FinishCancel
<1>4. CASE Publish(d)
  <2>1. r \in Runs /\ run[r] \in Row
    BY <1>1, <1>4 DEF Publish, At
  <2>2. run' = [run EXCEPT ![r] = Routed(run[r])]
    BY <1>4 DEF Publish
  <2> QED
    BY <2>1, <2>2, PlanStored, OneRow
<1>5. ASSUME NEW u \in Units, Work(d, u) \/ Degrade(d, u) PROVE Kept
  <2> DEFINE row == [run[r] EXCEPT !.results[u] = @ + 1]
  <2>1. r \in Runs /\ run[r] \in Row
    BY <1>1, <1>5 DEF Work, Degrade, At
  <2>2. row.status = run[r].status /\ row.cancel = run[r].cancel
    BY <2>1 DEF Row
  <2>3. run' = [run EXCEPT ![r] = row]
    BY <1>5 DEF Work, Degrade, Commit1
  <2> HIDE DEF row
  <2> QED
    BY <2>1, <2>2, <2>3, OneRow
<1>6. CASE Aggregate(d)
  <2> DEFINE row == [run[r] EXCEPT !.report = TRUE]
  <2>1. r \in Runs /\ run[r] \in Row
    BY <1>1, <1>6 DEF Aggregate, At
  <2>2. row.status = run[r].status /\ row.cancel = run[r].cancel
    BY <2>1 DEF Row
  <2>3. run' = [run EXCEPT ![r] = row]
    BY <1>6 DEF Aggregate
  <2> HIDE DEF row
  <2> QED
    BY <2>1, <2>2, <2>3, OneRow
<1>7. CASE Flush(d)
  <2> DEFINE recorded == IF turn[d].stage = "queued" THEN run[r]
                         ELSE [run[r] EXCEPT !.block = "none", !.note = FALSE]
             row == [recorded EXCEPT !.results = [u \in Units |->
                       IF u \in turn[d].unsaved THEN @[u] + 1 ELSE @[u]]]
  <2>1. r \in Runs /\ run[r] \in Row
    BY <1>1, <1>7 DEF Flush, At
  <2>2. recorded \in Row /\ recorded.status = run[r].status
        /\ recorded.cancel = run[r].cancel
    BY <2>1 DEF Row
  <2>3. run' = [run EXCEPT ![r] = row]
    BY <1>7 DEF Flush
  <2> HIDE DEF recorded
  <2>4. row.status = run[r].status /\ row.cancel = run[r].cancel
    BY <2>2 DEF Row
  <2> HIDE DEF row
  <2> QED
    BY <2>1, <2>3, <2>4, OneRow
<1>8. CASE Advance(d)
  <2> DEFINE next == StageAfter[turn[d].stage]
  <2>1. r \in Runs /\ run[r] \in Row /\ turn[d].stage \in Active
    BY <1>1, <1>8 DEF Advance, At, StagesAt
  <2>2. CASE /\ run[r].status = turn[d].stage /\ ~run[r].cancel
             /\ run' = [run EXCEPT ![r].status = next]
    <3> DEFINE row == [run[r] EXCEPT !.status = next]
    <3>1. row.status = next /\ row.cancel = run[r].cancel
      BY <2>1 DEF Row
    <3>2. run' = [run EXCEPT ![r] = row] /\ run'[r] = row
      BY <1>1, <2>1, <2>2
    <3> HIDE DEF row
    <3>3. Promised(r)
      BY <2>1, <2>2, <3>1, <3>2 DEF Promised
    <3> QED
      BY <2>1, <3>2, <3>3, OneRow
  <2>3. CASE FinishCancel(d, Goto(d, "ended"))
    BY <2>1, <2>3, StopKept DEF FinishCancel
  <2> QED
    BY <1>8, <2>2, <2>3 DEF Advance
<1>9. CASE Fail(d) \/ Block(d)
  <2>1. r \in Runs /\ run[r] \in Row
    BY <1>1, <1>9 DEF Fail, Block, At
  <2>2. CASE FinishCancel(d, Goto(d, "ended"))
    BY <2>1, <2>2, StopKept DEF FinishCancel
  <2>3. CASE /\ Fail(d) /\ run[r].status \in Active /\ ~run[r].cancel
             /\ run' = [run EXCEPT ![r] = [run[r] EXCEPT !.status = "failed"]]
    <3> DEFINE row == [run[r] EXCEPT !.status = "failed"]
    <3>1. row.status = "failed" /\ row.cancel = run[r].cancel
      BY <2>1 DEF Row
    <3>2. run' = [run EXCEPT ![r] = row] /\ run'[r] = row
      BY <1>1, <2>1, <2>3
    <3> HIDE DEF row
    <3>3. Promised(r)
      BY <2>3, <3>1, <3>2 DEF Promised
    <3> QED
      BY <2>1, <3>2, <3>3, OneRow
  <2>4. CASE run' = [run EXCEPT ![r] = [run[r] EXCEPT !.block = "waiting"]]
    <3> DEFINE row == [run[r] EXCEPT !.block = "waiting"]
    <3>1. row.status = run[r].status /\ row.cancel = run[r].cancel
      BY <2>1 DEF Row
    <3>2. run' = [run EXCEPT ![r] = row]
      BY <2>4
    <3> HIDE DEF row
    <3> QED
      BY <2>1, <3>1, <3>2, OneRow
  <2> QED
    BY <1>9, <2>2, <2>3, <2>4 DEF Fail, Block, ExceptionExit
<1>10. CASE Route(d) \/ Load(d) \/ QuotaExhausted(d) \/ AIUnavailable(d)
            \/ Raise(d) \/ LoseClaim(d) \/ EndTurn(d)
            \/ \E s \in Runs : Admit(d, s)
  BY <1>2, <1>10 DEF Route, Load, QuotaExhausted, AIUnavailable, Raise,
     LoseClaim, EndTurn, Admit
<1> QED
  BY <1>3, <1>4, <1>5, <1>6, <1>7, <1>8, <1>9, <1>10 DEF Step

LEMMA RequestKept ==
  ASSUME IInv, NEW r \in Runs, CreateRun(r) \/ CancelRun(r) \/ QuotaReset(r)
  PROVE  Kept
<1>1. run \in [Runs -> Row] /\ run[r] \in Row
  BY DEF IInv, TypeOK
<1>2. CASE CreateRun(r)
  <2> DEFINE row == [run[r] EXCEPT !.status = "queued"]
  <2>1. row.status = "queued" /\ row.cancel = run[r].cancel
    BY <1>1 DEF Row
  <2>2. run' = [run EXCEPT ![r] = row] /\ run'[r] = row
        /\ run[r].status = "absent"
    BY <1>1, <1>2 DEF CreateRun
  <2> HIDE DEF row
  <2>3. Promised(r)
    BY <2>1, <2>2 DEF Promised
  <2> QED
    BY <2>2, <2>3, OneRow
<1>3. CASE CancelRun(r)
  <2>1. run[r].status \in Active /\ ~run[r].cancel
    BY <1>3 DEF CancelRun
  <2>2. PICK row \in {[Stopped(run[r]) EXCEPT !.cancel = TRUE],
                      [run[r] EXCEPT !.cancel = TRUE]} :
          run' = [run EXCEPT ![r] = row]
    BY <1>3 DEF CancelRun
  <2>3. row.status \in {run[r].status, "cancelled"} /\ row.cancel = TRUE
    BY <1>1, <2>2 DEF Row, Stopped
  <2>4. run'[r] = row
    BY <1>1, <2>2
  <2>5. Promised(r)
    BY <2>1, <2>3, <2>4 DEF Promised
  <2> QED
    BY <2>2, <2>5, OneRow
<1>4. CASE QuotaReset(r)
  <2> DEFINE row == [run[r] EXCEPT !.block = "due"]
  <2>1. row.status = run[r].status /\ row.cancel = run[r].cancel
    BY <1>1 DEF Row
  <2>2. run' = [run EXCEPT ![r] = row]
    BY <1>4 DEF QuotaReset
  <2> HIDE DEF row
  <2> QED
    BY <2>1, <2>2, OneRow
<1> QED
  BY <1>2, <1>3, <1>4

\* The status and the cancellation of every run follow CheckRunLifecycle: the
\* stages in their order, final states final, and nothing but "cancelled" after
\* an accepted cancellation, although two drivers may run the stages of one run
\* and every read precedes the write it decides (_transition_after_boundary).
THEOREM LifecycleKept == Spec => ImplementsLifecycle
<1>1. Init => Lifecycle!Init
  BY DEF Init, Lifecycle!Init, NewRow
<1>2. IInv /\ [Next]_vars => [Lifecycle!Next]_(Lifecycle!vars)
  <2> SUFFICES ASSUME IInv, [Next]_vars
               PROVE  [Lifecycle!Next]_(Lifecycle!vars)
    OBVIOUS
  <2>1. Kept
    <3>1. ASSUME run' = run PROVE Kept
      BY <3>1 DEF Kept, Same
    <3> QED
      BY <3>1, StepKept, RequestKept
         DEF Next, YieldTurn, Crash, Expire, ExpireLive, vars
  <2> QED
    BY <2>1, SameStutters, OneRun DEF Kept
<1> QED
  BY <1>1, <1>2, Inductive, PTL DEF Spec, ImplementsLifecycle, Lifecycle!Spec

-----------------------------------------------------------------------------
(* Progress: what is settled stays settled.  These proofs hold even while  *)
(* two drivers run the stages of one run, because results, plans and the   *)
(* reports of runs that are not cancelled are never taken back.            *)

Planned == {"semantic", "integrity", "aggregating", "done"}

\* What a step may do to a row: add to it, and move its status only when the
\* stages behind it are settled.
RowGrows(r) ==
  /\ \A u \in Units : run'[r].results[u] >= run[r].results[u]
  /\ run[r].plan => run'[r].plan
  /\ ReportKept(r) => ReportKept(r)'
  /\ run'[r].results = run[r].results \/ run'[r].plan
  /\ run'[r].plan = run[r].plan \/ Settled(r, {"routing"})'
  /\ \/ run'[r].status = run[r].status
     \/ run'[r].status \in {"queued", "failed", "cancelled"}
     \/ /\ Settled(r, Behind(run'[r].status))
        /\ run'[r].status \in Planned => run[r].plan
        /\ run'[r].status = "done" => run'[r].report

LEMMA Typed ==
  ASSUME IInv, NEW r \in Runs
  PROVE  /\ run[r] \in Row
         /\ run[r].results \in [Units -> Nat]
         /\ run[r].status \in Active \union Terminal \union {"absent"}
BY DEF IInv, TypeOK, Row

LEMMA TypedNext ==
  ASSUME IInv', NEW r \in Runs
  PROVE  /\ run'[r] \in Row
         /\ run'[r].results \in [Units -> Nat]
         /\ run'[r].status \in Active \union Terminal \union {"absent"}
BY DEF IInv, TypeOK, Row

LEMMA SettledStays ==
  ASSUME IInv, IInv', NEW r \in Runs, RowGrows(r)
  PROVE  /\ \A stages : Settled(r, stages) => Settled(r, stages)'
         /\ \A stage : Missing(r, stage)' \subseteq Missing(r, stage)
<1>1. \A u \in Units : /\ run[r].results[u] \in Nat
                       /\ run'[r].results[u] \in Nat
                       /\ run'[r].results[u] >= run[r].results[u]
  BY Typed, TypedNext DEF RowGrows
<1>2. ASSUME NEW stages, Settled(r, stages) PROVE Settled(r, stages)'
  BY <1>1, <1>2 DEF Settled
<1>3. ASSUME NEW stage PROVE Missing(r, stage)' \subseteq Missing(r, stage)
  BY <1>1 DEF Missing
<1> QED
  BY <1>2, <1>3

LEMMA RowKept ==
  ASSUME ProgressInv, IInv', NEW r \in Runs, RowGrows(r)
  PROVE  RowSettled(r)' /\ PlanFirst(r)'
<1>1. RowSettled(r) /\ PlanFirst(r) /\ IInv
  BY DEF ProgressInv
<1>2. \A stages : Settled(r, stages) => Settled(r, stages)'
  BY <1>1, SettledStays
<1>3. Settled(r, Behind(run[r].status))'
  <2>1. Settled(r, Behind(run'[r].status))
    <3>1. CASE run'[r].status = run[r].status
      BY <1>1, <3>1 DEF RowSettled
    <3>2. CASE run'[r].status \in {"queued", "failed", "cancelled"}
      BY <3>2 DEF Behind, Settled
    <3> QED
      BY <3>1, <3>2 DEF RowGrows
  <2>2. \A u \in Units : run'[r].results[u] \in Nat /\ run[r].results[u] \in Nat
    BY <1>1, Typed, TypedNext
  <2> QED
    BY <2>1, <2>2 DEF Settled, RowGrows
<1>4. run'[r].status = "done" => run'[r].report
  BY <1>1 DEF RowGrows, RowSettled, ReportKept
<1>5. (\E u \in Units : run'[r].results[u] > 0) => run'[r].plan
  BY <1>1 DEF RowGrows, PlanFirst
<1>6. run'[r].plan => Settled(r, {"routing"})'
  BY <1>1, <1>2 DEF RowGrows, PlanFirst
<1>7. run'[r].status \in Planned => run'[r].plan
  <2>1. {"queued", "failed", "cancelled"} \cap Planned = {}
    BY DEF Planned
  <2>2. (run[r].plan => run'[r].plan) /\ (run[r].status \in Planned => run[r].plan)
    BY <1>1 DEF RowGrows, PlanFirst, Planned
  <2> QED
    BY <2>1, <2>2 DEF RowGrows
<1> QED
  BY <1>3, <1>4, <1>5, <1>6, <1>7 DEF RowSettled, PlanFirst, Planned

\* What a driver has seen settled stays settled.
LEMMA TurnKept ==
  ASSUME ProgressInv, IInv', NEW e \in Drivers, ~At(e, "idle"),
         turn'[e] = turn[e], \A r \in Runs : RowGrows(r)
  PROVE  TurnSettled(e)'
<1> DEFINE t == turn[e]
           r == t.job
<1>1. r \in Runs /\ IInv /\ TurnSettled(e)
  BY DEF ProgressInv, IInv, TurnInOrder
<1>2. RowGrows(r)
  BY <1>1
<1>3. /\ \A stages : Settled(r, stages) => Settled(r, stages)'
      /\ \A stage : Missing(r, stage)' \subseteq Missing(r, stage)
  BY <1>1, <1>2, SettledStays
<1>4. t.stage \in Active => Settled(r, Behind(t.stage))'
  BY <1>1, <1>3 DEF TurnSettled
<1>5. Missing(r, t.stage)' \subseteq Missing(r, t.stage)
  BY <1>3
<1>6. Settled(r, {t.stage}) => Settled(r, {t.stage})'
  BY <1>3
<1>7. (run[r].plan => run'[r].plan) /\ (ReportKept(r) => ReportKept(r)')
  BY <1>2 DEF RowGrows
<1> QED
  BY <1>1, <1>4, <1>5, <1>6, <1>7 DEF TurnSettled, Settled, Missing, ReportKept

LEMMA Progressed ==
  ASSUME ProgressInv, IInv', \A r \in Runs : RowGrows(r),
         \A e \in Drivers :
           turn'[e] = turn[e] \/ turn'[e].pc = "idle" \/ TurnSettled(e)'
  PROVE  ProgressInv'
<1>1. \A r \in Runs : RowSettled(r)' /\ PlanFirst(r)'
  BY RowKept
<1>2. ASSUME NEW e \in Drivers, turn'[e].pc # "idle" PROVE TurnSettled(e)'
  <2>1. CASE turn'[e] = turn[e]
    BY <1>2, <2>1, TurnKept DEF At
  <2> QED
    BY <1>2, <2>1
<1> QED
  BY <1>1, <1>2 DEF ProgressInv, At

-----------------------------------------------------------------------------
(* What the steps do to the rows.                                          *)

LEMMA NoRowWritten ==
  ASSUME IInv, run' = run
  PROVE  \A r \in Runs : RowGrows(r)
BY Typed DEF RowGrows, ReportKept

LEMMA OneRowWritten ==
  ASSUME IInv, NEW r \in Runs, NEW row, run' = [run EXCEPT ![r] = row],
         RowGrows(r)
  PROVE  \A s \in Runs : RowGrows(s)
<1>1. \A s \in Runs \ {r} : run'[s] = run[s]
  BY DEF IInv, TypeOK
<1>2. ASSUME NEW s \in Runs \ {r} PROVE RowGrows(s)
  BY <1>1, Typed DEF RowGrows, ReportKept
<1> QED
  BY <1>2

\* A row of which only the status, the notes and the report change.
LEMMA NothingSettled ==
  ASSUME IInv, NEW r \in Runs, NEW row, run' = [run EXCEPT ![r] = row],
         row.results = run[r].results, row.plan = run[r].plan,
         \/ row.status = run[r].status /\ (run[r].report => row.report)
         \/ /\ row.status \in {"queued", "failed"}
            /\ run[r].status # "cancelled" /\ row.report = run[r].report
         \/ row.status = "cancelled"
  PROVE  \A s \in Runs : RowGrows(s)
<1>1. run'[r] = row /\ run[r].results \in [Units -> Nat]
  BY Typed DEF IInv, TypeOK
<1>2. RowGrows(r)
  BY <1>1 DEF RowGrows, ReportKept
<1> QED
  BY <1>2, OneRowWritten

LEMMA StoppedGrows ==
  ASSUME IInv, NEW r \in Runs,
         run' = run \/ run' = [run EXCEPT ![r] = Stopped(@)]
  PROVE  \A s \in Runs : RowGrows(s)
<1>1. CASE run' = run
  BY <1>1, NoRowWritten
<1>2. CASE run' = [run EXCEPT ![r] = Stopped(run[r])]
  <2>1. /\ Stopped(run[r]).results = run[r].results
        /\ Stopped(run[r]).plan = run[r].plan
        /\ Stopped(run[r]).status = "cancelled"
    BY Typed DEF Stopped, Row
  <2> HIDE DEF Stopped
  <2> QED
    BY <1>2, <2>1, NothingSettled
<1> QED
  BY <1>1, <1>2

\* No unit belongs to a stage that settles none.
LEMMA NothingMissing ==
  ASSUME NEW r, NEW stage \in {"queued", "ingesting", "aggregating"}
  PROVE  Missing(r, stage) = {} /\ Settled(r, {stage})
BY StageOfAssumption DEF Missing, Settled

-----------------------------------------------------------------------------
(* What the steps do to the turns.                                         *)

\* The points at which nothing more than the stage behind is known.
LEMMA PointKept ==
  ASSUME ProgressInv, IInv', NEW d \in Drivers, ~At(d, "idle"),
         \A r \in Runs : RowGrows(r),
         turn'[d].job = turn[d].job, turn'[d].stage = turn[d].stage,
         turn'[d].unsaved \subseteq turn[d].unsaved,
         turn'[d].pc \in {"ended", "fail", "block", "route", "publish"}
  PROVE  TurnSettled(d)'
<1> DEFINE r == turn[d].job
           stage == turn[d].stage
<1>1. r \in Runs /\ IInv /\ TurnSettled(d)
  BY DEF ProgressInv, IInv, TurnInOrder
<1>2. RowGrows(r)
  BY <1>1
<1>3. \A stages : Settled(r, stages) => Settled(r, stages)'
  BY <1>1, <1>2, SettledStays
<1>4. stage \in Active => Settled(r, Behind(stage))'
  BY <1>1, <1>3 DEF TurnSettled
<1>5. /\ stage \in {"semantic", "integrity", "aggregating"} => run'[r].plan
      /\ turn'[d].unsaved # {} => run'[r].plan
  BY <1>1, <1>2 DEF TurnSettled, RowGrows
<1> QED
  BY <1>4, <1>5 DEF TurnSettled, Settled

LEMMA StopProgress ==
  ASSUME ProgressInv, IInv', NEW d \in Drivers, ~At(d, "idle"),
         Goto(d, "ended"),
         run' = run \/ run' = [run EXCEPT ![turn[d].job] = Stopped(@)]
  PROVE  ProgressInv'
<1>1. IInv /\ turn[d].job \in Runs /\ turn \in [Drivers -> Turn]
  BY DEF ProgressInv, IInv, TurnInOrder, TypeOK
<1>2. \A r \in Runs : RowGrows(r)
  BY <1>1, StoppedGrows
<1>3. /\ \A e \in Drivers \ {d} : turn'[e] = turn[e]
      /\ turn'[d] = [turn[d] EXCEPT !.pc = "ended"]
  BY <1>1 DEF Goto
<1>4. /\ turn'[d].job = turn[d].job /\ turn'[d].stage = turn[d].stage
      /\ turn'[d].unsaved = turn[d].unsaved /\ turn'[d].pc = "ended"
  BY <1>1, <1>3 DEF Turn
<1>5. TurnSettled(d)'
  BY <1>2, <1>4, PointKept
<1> QED
  BY <1>2, <1>3, <1>5, Progressed

LEMMA Went ==
  ASSUME IInv, NEW d \in Drivers, NEW p, Goto(d, p)
  PROVE  /\ \A e \in Drivers \ {d} : turn'[e] = turn[e]
         /\ turn'[d].pc = p
         /\ turn'[d].job = turn[d].job
         /\ turn'[d].stage = turn[d].stage
         /\ turn'[d].todo = turn[d].todo
         /\ turn'[d].unsaved = turn[d].unsaved
BY DEF IInv, TypeOK, Goto, Turn

\* What a driver must know where it arrives; r, stage and p are constants, so
\* that they do not change their meaning when primed.
LEMMA Arrived ==
  ASSUME NEW d \in Drivers, NEW r, NEW stage, NEW p,
         turn'[d].job = r, turn'[d].stage = stage, turn'[d].pc = p,
         stage \in Active => Settled(r, Behind(stage))',
         stage \in {"semantic", "integrity", "aggregating"}
           \/ p \in {"load", "work", "boundary"}
           \/ turn'[d].unsaved # {}
           => run'[r].plan,
         p \in {"degrade", "outage"} => stage = "semantic",
         p = "aggregate" => stage = "aggregating",
         p \in {"work", "boundary", "degrade"} =>
           Missing(r, stage)' \subseteq turn'[d].todo,
         p = "flush" => Missing(r, stage)' \subseteq turn'[d].unsaved,
         p \in {"recheck", "advance"} => Settled(r, {stage})',
         p \in {"flush", "recheck", "advance"} =>
           /\ stage = "structural" => run'[r].plan
           /\ stage = "aggregating" => ReportKept(r)'
  PROVE  TurnSettled(d)'
BY DEF TurnSettled, Settled, Missing, ReportKept

LEMMA EnterProgress ==
  ASSUME ProgressInv, IInv', NEW d \in Drivers, Enter(d)
  PROVE  ProgressInv'
<1>0. turn[d].job \in Runs
  BY DEF ProgressInv, IInv, TurnInOrder, Enter, At
<1>1. PICK r \in Runs : r = turn[d].job
  BY <1>0
<1>2. PICK stage : stage = run[r].status
  OBVIOUS
<1> DEFINE first == IF stage \in {"semantic", "integrity", "aggregating"}
                    THEN "route" ELSE Begin(stage)
<1>3. /\ IInv /\ turn \in [Drivers -> Turn]
      /\ ~At(d, "idle") /\ DrivesLiveRun(d)
      /\ turn[d].pc = "enter" /\ Owned(d) /\ TurnSettled(d)
  BY DEF ProgressInv, IInv, TypeOK, TurnInOrder, Enter, FinishCancel, At
<1>4. CASE Goto(d, "ended")
            /\ (run' = run \/ run' = [run EXCEPT ![r] = Stopped(@)])
  BY <1>1, <1>3, <1>4, StopProgress
<1>5. CASE /\ stage # "cancelled"
           /\ turn' = [turn EXCEPT ![d].pc = first, ![d].stage = stage]
           /\ run' = run
  <2>1. stage \in Active
    BY <1>1, <1>2, <1>3, <1>5 DEF DrivesLiveRun
  <2>2. \/ stage \in {"queued", "ingesting"} /\ first = "flush"
        \/ first = "route"
    BY <2>1, Stages DEF Begin
  <2> HIDE DEF first
  <2>3. /\ \A e \in Drivers \ {d} : turn'[e] = turn[e]
        /\ turn'[d].pc = first /\ turn'[d].job = r /\ turn'[d].stage = stage
        /\ turn'[d].unsaved = turn[d].unsaved
    BY <1>1, <1>3, <1>5 DEF Turn
  <2>4. RowSettled(r) /\ PlanFirst(r)
    BY DEF ProgressInv
  <2>5. Settled(r, Behind(stage))'
    BY <1>2, <1>5, <2>4 DEF RowSettled, Settled
  <2>6. stage \in {"semantic", "integrity", "aggregating"} => run'[r].plan
    BY <1>2, <1>5, <2>4 DEF PlanFirst
  <2>7. turn'[d].unsaved # {} => run'[r].plan
    BY <1>1, <1>3, <1>5, <2>3 DEF TurnSettled
  <2>8. first = "flush" => Missing(r, stage)' = {}
    BY <2>2, StageOfAssumption DEF Missing
  <2>9. TurnSettled(d)'
    <3>1. first \in {"flush", "route"}
          /\ (first = "flush" => stage \notin {"structural", "aggregating"})
      BY <2>2
    <3> QED
      BY <2>3, <2>5, <2>6, <2>7, <2>8, <3>1, Arrived
  <2> QED
    BY <1>3, <1>5, <2>3, <2>9, NoRowWritten, Progressed
<1> QED
  BY <1>1, <1>2, <1>4, <1>5 DEF Enter, FinishCancel

LEMMA MoveProgress ==
  ASSUME ProgressInv, IInv', NEW d \in Drivers,
         \/ Route(d) \/ QuotaExhausted(d) \/ AIUnavailable(d)
  PROVE  ProgressInv'
<1>0. turn[d].job \in Runs
  BY DEF ProgressInv, IInv, TurnInOrder, Route, QuotaExhausted, AIUnavailable, At
<1>1. PICK r \in Runs : r = turn[d].job
  BY <1>0
<1>2. /\ IInv /\ turn \in [Drivers -> Turn]
      /\ turn[d].pc \in {"route", "work"} /\ ~At(d, "idle") /\ TurnSettled(d)
      /\ run' = run /\ turn[d].stage \in StagesAt(turn[d].pc)
  BY DEF ProgressInv, IInv, TypeOK, TurnInOrder, Route, QuotaExhausted,
     AIUnavailable, At
<1>3. \A s \in Runs : RowGrows(s)
  BY <1>2, NoRowWritten
<1>4. CASE \E p \in {"fail", "publish", "block"} : Goto(d, p)
  <2>1. PICK p \in {"fail", "publish", "block"} : Goto(d, p)
    BY <1>4
  <2>2. TurnSettled(d)'
    BY <1>2, <1>3, <2>1, Went, PointKept
  <2> QED
    BY <1>2, <1>3, <2>1, <2>2, Went, Progressed
<1>5. CASE /\ Route(d) /\ run[r].plan
           /\ Goto(d, IF turn[d].stage = "aggregating" THEN "aggregate"
                      ELSE "load")
  <2> DEFINE p == IF turn[d].stage = "aggregating" THEN "aggregate" ELSE "load"
  <2>1. /\ \A e \in Drivers \ {d} : turn'[e] = turn[e]
        /\ turn'[d].pc = p /\ turn'[d].job = r
        /\ turn'[d].stage = turn[d].stage /\ turn'[d].unsaved = turn[d].unsaved
    BY <1>1, <1>2, <1>5, Went
  <2>2. TurnSettled(d)'
    BY <1>1, <1>2, <1>5, <2>1 DEF TurnSettled, Settled
  <2> QED
    BY <1>2, <1>3, <2>1, <2>2, Progressed
<1>6. CASE AIUnavailable(d)
  <2>1. Goto(d, "outage") /\ turn[d].stage = "semantic"
    BY <1>6 DEF AIUnavailable
  <2>2. /\ \A e \in Drivers \ {d} : turn'[e] = turn[e]
        /\ turn'[d].pc = "outage" /\ turn'[d].job = r
        /\ turn'[d].stage = turn[d].stage /\ turn'[d].unsaved = turn[d].unsaved
    BY <1>1, <1>2, <2>1, Went
  <2>3. TurnSettled(d)'
    BY <1>1, <1>2, <2>1, <2>2 DEF TurnSettled, Settled
  <2> QED
    BY <1>2, <1>3, <2>2, <2>3, Progressed
<1>7. CASE QuotaExhausted(d) /\ DegradeOnQuota
  <2>1. PICK missing : missing = Missing(r, "semantic")
    OBVIOUS
  <2>2. PICK p : p = IF missing = {} THEN "flush" ELSE "degrade"
    OBVIOUS
  <2>3. /\ turn' = [turn EXCEPT ![d].todo = missing, ![d].pc = p]
        /\ turn[d].stage = "semantic"
    BY <1>1, <1>7, <2>1, <2>2 DEF QuotaExhausted
  <2>4. /\ \A e \in Drivers \ {d} : turn'[e] = turn[e]
        /\ turn'[d].pc = p /\ turn'[d].job = r /\ turn'[d].todo = missing
        /\ turn'[d].stage = "semantic" /\ turn'[d].unsaved = turn[d].unsaved
    BY <1>1, <1>2, <2>3 DEF Turn
  <2>5. Missing(r, "semantic")' = missing
    BY <1>2, <2>1 DEF Missing
  <2>6. Settled(r, Behind("semantic"))' /\ run'[r].plan
    BY <1>1, <1>2, <2>3, Stages DEF TurnSettled, Settled
  <2>7. TurnSettled(d)'
    BY <2>2, <2>4, <2>5, <2>6, Arrived
  <2> QED
    BY <1>2, <1>3, <2>4, <2>7, Progressed
<1> QED
  BY <1>1, <1>4, <1>5, <1>6, <1>7 DEF Route, QuotaExhausted

-----------------------------------------------------------------------------
(* Results are stored.                                                     *)

\* More results than before, and nothing else but perhaps the plan.
LEMMA ResultsGrow ==
  ASSUME IInv, NEW r \in Runs, NEW row, run' = [run EXCEPT ![r] = row],
         NEW S \in SUBSET Units,
         row.status = run[r].status, row.report = run[r].report,
         row.results = [u \in Units |-> IF u \in S THEN run[r].results[u] + 1
                                        ELSE run[r].results[u]],
         run[r].plan => row.plan,
         S = {} \/ row.plan,
         \/ row.plan = run[r].plan
         \/ \A u \in Units : StageOf[u] = "routing" => u \in S
  PROVE  /\ \A s \in Runs : RowGrows(s)
         /\ run'[r] = row
         /\ \A u \in S : run'[r].results[u] > 0
         /\ \A stage : Missing(r, stage)' \subseteq Missing(r, stage) \ S
<1>1. run'[r] = row /\ \A u \in Units : run[r].results[u] \in Nat
  BY Typed DEF IInv, TypeOK
<1>2. \A u \in Units : run'[r].results[u] = IF u \in S THEN run[r].results[u] + 1
                                            ELSE run[r].results[u]
  BY <1>1
<1>3. \A u \in Units : /\ run'[r].results[u] >= run[r].results[u]
                       /\ u \in S => run'[r].results[u] > 0
  BY <1>1, <1>2
<1>4. S = {} => run'[r].results = run[r].results
  <2>1. S = {} => row.results = [u \in Units |-> run[r].results[u]]
    OBVIOUS
  <2>2. run[r].results = [u \in Units |-> run[r].results[u]]
    BY Typed
  <2> QED
    BY <1>1, <2>1, <2>2
<1>5. run'[r].plan = run[r].plan \/ Settled(r, {"routing"})'
  BY <1>1, <1>3 DEF Settled
<1>6. ReportKept(r) => ReportKept(r)'
  BY <1>1 DEF ReportKept
<1>7. RowGrows(r)
  BY <1>1, <1>3, <1>4, <1>5, <1>6 DEF RowGrows
<1>8. \A stage : Missing(r, stage)' \subseteq Missing(r, stage) \ S
  BY <1>1, <1>2, <1>3 DEF Missing
<1> QED
  BY <1>1, <1>3, <1>7, <1>8, OneRowWritten

LEMMA RoutedRow ==
  ASSUME NEW row \in Row
  PROVE  /\ Routed(row).status = row.status /\ Routed(row).report = row.report
         /\ Routed(row).plan = TRUE
         /\ Routed(row).results =
              [u \in Units |-> IF u \in {v \in Units : StageOf[v] = "routing"}
                               THEN row.results[u] + 1 ELSE row.results[u]]
<1> DEFINE rs == [u \in Units |-> IF StageOf[u] = "routing"
                                  THEN row.results[u] + 1 ELSE row.results[u]]
<1>1. Routed(row) = [row EXCEPT !.plan = TRUE, !.results = rs]
  BY DEF Routed
<1>2. rs = [u \in Units |-> IF u \in {v \in Units : StageOf[v] = "routing"}
                            THEN row.results[u] + 1 ELSE row.results[u]]
  OBVIOUS
<1> HIDE DEF rs
<1>3. /\ Routed(row).status = row.status /\ Routed(row).report = row.report
      /\ Routed(row).plan = TRUE /\ Routed(row).results = rs
  BY <1>1 DEF Row
<1> QED
  BY <1>2, <1>3

LEMMA PublishProgress ==
  ASSUME ProgressInv, IInv', NEW d \in Drivers, Publish(d)
  PROVE  ProgressInv'
<1>0. turn[d].job \in Runs /\ turn[d].pc = "publish"
  BY DEF ProgressInv, IInv, TurnInOrder, Publish, At
<1>1. PICK r \in Runs : r = turn[d].job
  BY <1>0
<1>2. turn[d].stage = "structural"
  BY <1>0 DEF ProgressInv, IInv, TurnInOrder, StagesAt
<1>3. IInv /\ Goto(d, "load") /\ run' = [run EXCEPT ![r] = Routed(run[r])]
  BY <1>1 DEF ProgressInv, Publish
<1>4. /\ \A s \in Runs : RowGrows(s)
      /\ run'[r].plan
  <2>1. run[r] \in Row
    BY <1>3, Typed
  <2>2. PICK row : row = Routed(run[r])
    OBVIOUS
  <2>3. PICK S \in SUBSET Units : S = {u \in Units : StageOf[u] = "routing"}
    OBVIOUS
  <2>4. /\ row.status = run[r].status /\ row.report = run[r].report
        /\ row.plan
        /\ row.results = [u \in Units |-> IF u \in S THEN run[r].results[u] + 1
                                         ELSE run[r].results[u]]
    BY <2>1, <2>2, <2>3, RoutedRow
  <2>5. \A u \in Units : StageOf[u] = "routing" => u \in S
    BY <2>3
  <2> QED
    BY <1>3, <2>2, <2>4, <2>5, ResultsGrow
<1>5. /\ \A e \in Drivers \ {d} : turn'[e] = turn[e]
      /\ turn'[d].pc = "load" /\ turn'[d].job = r
      /\ turn'[d].stage = "structural"
  BY <1>1, <1>2, <1>3, Went
<1>6. Settled(r, Behind("structural"))'
  BY DEF Settled, Behind
<1>7. TurnSettled(d)'
  BY <1>4, <1>5, <1>6, Arrived
<1> QED
  BY <1>4, <1>5, <1>7, Progressed

LEMMA LoadProgress ==
  ASSUME ProgressInv, IInv', NEW d \in Drivers, Load(d)
  PROVE  ProgressInv'
<1>0. turn[d].job \in Runs /\ turn[d].pc = "load" /\ ~At(d, "idle")
  BY DEF ProgressInv, IInv, TurnInOrder, Load, At
<1>1. PICK r \in Runs : r = turn[d].job
  BY <1>0
<1>2. PICK stage : stage = turn[d].stage
  OBVIOUS
<1>3. PICK missing : missing = Missing(r, stage)
  OBVIOUS
<1>4. stage \in {"structural", "semantic", "integrity"}
  BY <1>0, <1>2 DEF ProgressInv, IInv, TurnInOrder, StagesAt
<1>5. /\ IInv /\ turn \in [Drivers -> Turn] /\ TurnSettled(d) /\ run' = run
  BY <1>0 DEF ProgressInv, IInv, TypeOK, Load
<1>6. PICK first \in Resume(stage, missing) :
        turn' = [turn EXCEPT ![d].todo = missing, ![d].pc = first]
  BY <1>1, <1>2, <1>3 DEF Load
<1>7. /\ first \in {"boundary", "work", "flush"}
      /\ first = "flush" => missing = {}
  BY <1>6 DEF Resume
<1>8. /\ \A e \in Drivers \ {d} : turn'[e] = turn[e]
      /\ turn'[d].pc = first /\ turn'[d].job = r /\ turn'[d].stage = stage
      /\ turn'[d].todo = missing /\ turn'[d].unsaved = turn[d].unsaved
  BY <1>1, <1>2, <1>5, <1>6 DEF Turn
<1>9. Missing(r, stage)' = missing
  BY <1>3, <1>5 DEF Missing
<1>10. run[r].plan /\ (stage \in Active => Settled(r, Behind(stage)))
  BY <1>0, <1>1, <1>2, <1>5 DEF TurnSettled
<1>11. /\ run'[r].plan
       /\ stage \in Active => Settled(r, Behind(stage))'
  <2>1. RowGrows(r)
    BY <1>5, NoRowWritten
  <2>2. Settled(r, Behind(stage)) => Settled(r, Behind(stage))'
    BY <1>5, <2>1, SettledStays
  <2>3. run'[r].plan
    BY <1>5, <1>10
  <2> QED
    BY <1>10, <2>2, <2>3
<1>12. /\ Missing(r, stage)' \subseteq turn'[d].todo
       /\ first = "flush" => Missing(r, stage)' \subseteq turn'[d].unsaved
  BY <1>7, <1>8, <1>9
<1>13. first \in {"boundary", "work", "flush"}
  BY <1>7
<1>14. TurnSettled(d)'
  BY <1>4, <1>8, <1>11, <1>12, <1>13, Arrived
<1> QED
  BY <1>5, <1>8, <1>14, NoRowWritten, Progressed

\* A unit is settled.
LEMMA WorkProgress ==
  ASSUME ProgressInv, IInv', NEW d \in Drivers, NEW u \in Units,
         Work(d, u) \/ Degrade(d, u)
  PROVE  ProgressInv'
<1>0. /\ turn[d].job \in Runs /\ turn[d].pc \in {"work", "degrade"}
      /\ ~At(d, "idle") /\ TurnSettled(d) /\ turn[d].stage \in StagesAt(turn[d].pc)
  BY DEF ProgressInv, IInv, TurnInOrder, Work, Degrade, At
<1>1. PICK r \in Runs : r = turn[d].job
  BY <1>0
<1>2. PICK stage : stage = turn[d].stage
  OBVIOUS
<1>3. /\ stage \in {"structural", "semantic", "integrity"}
      /\ run[r].plan
      /\ Settled(r, Behind(stage))
      /\ Missing(r, stage) \subseteq turn[d].todo
      /\ turn[d].pc = "degrade" => stage = "semantic"
  BY <1>0, <1>1, <1>2, Stages DEF TurnSettled, StagesAt
<1>4. PICK left : left = turn[d].todo \ {u}
  OBVIOUS
<1>5. PICK p : /\ turn' = [turn EXCEPT ![d].todo = left, ![d].pc = p]
               /\ p \in {"boundary", "work", "degrade", "flush"}
               /\ p = "flush" => left = {}
               /\ p = "degrade" => stage = "semantic"
  <2>1. CASE Work(d, u)
    BY <1>2, <1>3, <1>4, <2>1 DEF Work
  <2>2. CASE Degrade(d, u)
    BY <1>0, <1>2, <1>3, <1>4, <2>2 DEF Degrade, At
  <2> QED
    BY <2>1, <2>2
<1>6. /\ \A e \in Drivers \ {d} : turn'[e] = turn[e]
      /\ turn'[d].pc = p /\ turn'[d].job = r /\ turn'[d].stage = stage
      /\ turn'[d].todo = left /\ turn'[d].unsaved = turn[d].unsaved
  BY <1>1, <1>2, <1>5 DEF ProgressInv, IInv, TypeOK, Turn
<1>7. /\ \A s \in Runs : RowGrows(s)
      /\ run'[r].plan
      /\ Missing(r, stage)' \subseteq Missing(r, stage) \ {u}
  <2>1. PICK rs : rs = [v \in Units |-> IF v \in {u} THEN run[r].results[v] + 1
                                        ELSE run[r].results[v]]
    OBVIOUS
  <2>2. PICK row : row = [run[r] EXCEPT !.results = rs]
    OBVIOUS
  <2>3. run' = [run EXCEPT ![r] = row] /\ IInv
    <3>1. Commit1(d, u) /\ IInv
      BY DEF Work, Degrade, ProgressInv
    <3>2. rs = [run[r].results EXCEPT ![u] = run[r].results[u] + 1]
      BY <2>1, <3>1, Typed
    <3> QED
      BY <1>1, <2>2, <3>1, <3>2 DEF Commit1
  <2>4. /\ row.status = run[r].status /\ row.report = run[r].report
        /\ row.plan = run[r].plan /\ row.results = rs
    BY <2>2, <2>3, Typed DEF Row
  <2>5. PICK S \in SUBSET Units : S = {u}
    OBVIOUS
  <2>6. row.results = [v \in Units |-> IF v \in S THEN run[r].results[v] + 1
                                      ELSE run[r].results[v]]
    BY <2>1, <2>4, <2>5
  <2>7. /\ \A s \in Runs : RowGrows(s)
        /\ run'[r] = row
        /\ \A st : Missing(r, st)' \subseteq Missing(r, st) \ S
    BY <1>3, <2>3, <2>4, <2>6, ResultsGrow
  <2> QED
    BY <1>3, <2>4, <2>5, <2>7
<1>8. Settled(r, Behind(stage))'
  BY <1>3, <1>7, SettledStays DEF ProgressInv
<1>9. Missing(r, stage)' \subseteq left
  BY <1>3, <1>4, <1>7
<1>10. TurnSettled(d)'
  BY <1>3, <1>5, <1>6, <1>7, <1>8, <1>9, Arrived
<1> QED
  BY <1>6, <1>7, <1>10, Progressed

-----------------------------------------------------------------------------
(* Boundaries and commits.                                                 *)

LEMMA BoundaryProgress ==
  ASSUME ProgressInv, IInv', NEW d \in Drivers, Boundary(d) \/ Recheck(d)
  PROVE  ProgressInv'
<1>0. /\ turn[d].job \in Runs /\ turn[d].pc \in {"boundary", "recheck"}
      /\ ~At(d, "idle") /\ TurnSettled(d) /\ turn[d].stage \in StagesAt(turn[d].pc)
      /\ IInv
  BY DEF ProgressInv, IInv, TurnInOrder, Boundary, Recheck, At
<1>1. PICK r \in Runs : r = turn[d].job
  BY <1>0
<1>2. PICK stage : stage = turn[d].stage
  OBVIOUS
<1>3. CASE Goto(d, "ended")
            /\ (run' = run \/ run' = [run EXCEPT ![r] = Stopped(@)])
  BY <1>0, <1>1, <1>3, StopProgress
<1>4. CASE /\ Boundary(d) /\ run' = run
           /\ Goto(d, IF turn[d].todo = {} THEN "flush" ELSE "work")
  <2>1. PICK p : p = IF turn[d].todo = {} THEN "flush" ELSE "work"
    OBVIOUS
  <2>2. /\ \A e \in Drivers \ {d} : turn'[e] = turn[e]
        /\ turn'[d].pc = p /\ turn'[d].job = r /\ turn'[d].stage = stage
        /\ turn'[d].todo = turn[d].todo /\ turn'[d].unsaved = turn[d].unsaved
    BY <1>0, <1>1, <1>2, <1>4, <2>1, Went
  <2>3. turn[d].pc = "boundary"
    BY <1>4 DEF Boundary, At
  <2>4. /\ run[r].plan /\ Missing(r, stage) \subseteq turn[d].todo
        /\ Settled(r, Behind(stage))
        /\ stage \in {"structural", "semantic", "integrity"}
    BY <1>0, <1>1, <1>2, <2>3, Stages DEF TurnSettled, StagesAt
  <2>5. /\ run'[r].plan /\ Missing(r, stage)' \subseteq turn[d].todo
        /\ Settled(r, Behind(stage))'
    BY <1>4, <2>4 DEF Missing, Settled
  <2>6. TurnSettled(d)'
    BY <2>1, <2>2, <2>4, <2>5, Arrived
  <2> QED
    BY <1>0, <1>4, <2>2, <2>6, NoRowWritten, Progressed
<1>5. CASE Recheck(d) /\ run' = run /\ Goto(d, "advance")
  <2>1. /\ \A e \in Drivers \ {d} : turn'[e] = turn[e]
        /\ turn'[d].pc = "advance" /\ turn'[d].job = r /\ turn'[d].stage = stage
        /\ turn'[d].todo = turn[d].todo /\ turn'[d].unsaved = turn[d].unsaved
    BY <1>0, <1>1, <1>2, <1>5, Went
  <2>2. turn[d].pc = "recheck"
    BY <1>5 DEF Recheck, At
  <2>3. TurnSettled(d)'
    BY <1>0, <1>1, <1>2, <1>5, <2>1, <2>2 DEF TurnSettled, Settled, ReportKept
  <2> QED
    BY <1>0, <1>5, <2>1, <2>3, NoRowWritten, Progressed
<1> QED
  BY <1>1, <1>3, <1>4, <1>5 DEF Boundary, Recheck, FinishCancel

LEMMA OutageProgress ==
  ASSUME ProgressInv, IInv', NEW d \in Drivers, Outage(d)
  PROVE  ProgressInv'
<1>0. /\ turn[d].job \in Runs /\ turn[d].pc = "outage"
      /\ ~At(d, "idle") /\ TurnSettled(d) /\ IInv
  BY DEF ProgressInv, IInv, TurnInOrder, Outage, At
<1>1. PICK r \in Runs : r = turn[d].job
  BY <1>0
<1>2. CASE Goto(d, "ended")
            /\ (run' = run \/ run' = [run EXCEPT ![r] = Stopped(@)])
  BY <1>0, <1>1, <1>2, StopProgress
<1>3. CASE /\ run' = run
           /\ turn' = [turn EXCEPT ![d].todo = {}, ![d].pc = "flush",
                        ![d].unsaved = Missing(r, "semantic")]
  <2>1. PICK missing : missing = Missing(r, "semantic")
    OBVIOUS
  <2>2. turn[d].stage = "semantic" /\ run[r].plan /\ Settled(r, Behind("semantic"))
    BY <1>0, <1>1, Stages DEF TurnSettled
  <2>3. /\ \A e \in Drivers \ {d} : turn'[e] = turn[e]
        /\ turn'[d].pc = "flush" /\ turn'[d].job = r
        /\ turn'[d].stage = "semantic" /\ turn'[d].unsaved = missing
    BY <1>0, <1>1, <1>3, <2>1, <2>2 DEF IInv, TypeOK, Turn
  <2>4. Missing(r, "semantic")' = missing
    BY <1>3, <2>1 DEF Missing
  <2>5. run'[r].plan /\ Settled(r, Behind("semantic"))'
    BY <1>3, <2>2 DEF Settled
  <2>6. TurnSettled(d)'
    BY <2>3, <2>4, <2>5, Arrived
  <2> QED
    BY <1>0, <1>3, <2>3, <2>6, NoRowWritten, Progressed
<1> QED
  BY <1>1, <1>2, <1>3 DEF Outage, FinishCancel

LEMMA AggregateProgress ==
  ASSUME ProgressInv, IInv', NEW d \in Drivers, Aggregate(d)
  PROVE  ProgressInv'
<1>0. /\ turn[d].job \in Runs /\ turn[d].pc = "aggregate"
      /\ ~At(d, "idle") /\ TurnSettled(d) /\ IInv
  BY DEF ProgressInv, IInv, TurnInOrder, Aggregate, At
<1>1. PICK r \in Runs : r = turn[d].job
  BY <1>0
<1>2. PICK row : row = [run[r] EXCEPT !.report = TRUE]
  OBVIOUS
<1>3. run' = [run EXCEPT ![r] = row] /\ Goto(d, "flush")
  BY <1>1, <1>2 DEF Aggregate
<1>4. /\ row.results = run[r].results /\ row.plan = run[r].plan
      /\ row.status = run[r].status /\ row.report
  BY <1>0, <1>2, Typed DEF Row
<1>5. (\A s \in Runs : RowGrows(s)) /\ run'[r] = row
  BY <1>0, <1>3, <1>4, NothingSettled DEF IInv, TypeOK
<1>6. /\ \A e \in Drivers \ {d} : turn'[e] = turn[e]
      /\ turn'[d].pc = "flush" /\ turn'[d].job = r
      /\ turn'[d].stage = "aggregating" /\ turn'[d].unsaved = turn[d].unsaved
  BY <1>0, <1>1, <1>3, Went DEF TurnSettled
<1>7. run[r].plan /\ Settled(r, Behind("aggregating"))
  BY <1>0, <1>1, Stages DEF TurnSettled
<1>8. run'[r].plan /\ Settled(r, Behind("aggregating"))' /\ ReportKept(r)'
  BY <1>4, <1>5, <1>7 DEF Settled, ReportKept
<1>9. Missing(r, "aggregating")' = {}
  BY StageOfAssumption DEF Missing
<1>10. TurnSettled(d)'
  BY <1>6, <1>8, <1>9, Arrived
<1> QED
  BY <1>5, <1>6, <1>10, Progressed

LEMMA FlushProgress ==
  ASSUME ProgressInv, IInv', NEW d \in Drivers, Flush(d)
  PROVE  ProgressInv'
<1>0. /\ turn[d].job \in Runs /\ turn[d].pc = "flush"
      /\ ~At(d, "idle") /\ TurnSettled(d) /\ IInv /\ turn[d] \in Turn
      /\ turn[d].stage \in Active
  BY DEF ProgressInv, IInv, TypeOK, TurnInOrder, StagesAt, Flush, At
<1>1. PICK r \in Runs : r = turn[d].job
  BY <1>0
<1>2. PICK stage : stage = turn[d].stage
  OBVIOUS
<1>3. PICK S \in SUBSET Units : S = turn[d].unsaved
  BY <1>0 DEF Turn
<1>4. PICK rs : rs = [u \in Units |-> IF u \in S THEN run[r].results[u] + 1
                                      ELSE run[r].results[u]]
  OBVIOUS
<1>5. PICK row : row = IF stage = "queued" THEN run[r]
                       ELSE [run[r] EXCEPT !.block = "none", !.note = FALSE]
  OBVIOUS
<1>6. row \in Row /\ row.results = run[r].results /\ row.plan = run[r].plan
      /\ row.status = run[r].status /\ row.report = run[r].report
  <2>1. run[r] \in Row
    BY <1>0, Typed
  <2> QED
    BY <1>5, <2>1 DEF Row
<1>7. PICK stored : stored = [row EXCEPT !.results = rs]
  OBVIOUS
<1>8. /\ stored.results = rs /\ stored.plan = run[r].plan
      /\ stored.status = run[r].status /\ stored.report = run[r].report
  BY <1>6, <1>7 DEF Row
<1>9. run' = [run EXCEPT ![r] = stored]
  <2>1. stored = [row EXCEPT !.results = [u \in Units |->
                    IF u \in S THEN row.results[u] + 1 ELSE row.results[u]]]
    BY <1>4, <1>6, <1>7
  <2> QED BY <1>1, <1>2, <1>3, <1>5, <2>1 DEF Flush
<1>10. S # {} => run[r].plan
  BY <1>0, <1>1, <1>3 DEF TurnSettled
<1>11. /\ \A s \in Runs : RowGrows(s)
       /\ run'[r].plan = run[r].plan
       /\ Missing(r, stage)' \subseteq Missing(r, stage) \ S
  <2>1. stored.plan = run[r].plan /\ (S = {} \/ stored.plan)
    BY <1>8, <1>10
  <2>2. stored.results = [u \in Units |-> IF u \in S THEN run[r].results[u] + 1
                                          ELSE run[r].results[u]]
    BY <1>4, <1>8
  <2>3. /\ \A s \in Runs : RowGrows(s)
        /\ run'[r] = stored
        /\ \A x : Missing(r, x)' \subseteq Missing(r, x) \ S
    BY ZenonT(60), <1>0, <1>8, <1>9, <2>1, <2>2, ResultsGrow
  <2> QED BY <2>1, <2>3
<1>12. /\ \A e \in Drivers \ {d} : turn'[e] = turn[e]
       /\ turn'[d].pc = "recheck" /\ turn'[d].job = r
       /\ turn'[d].stage = stage /\ turn'[d].unsaved = {}
  BY <1>0, <1>1, <1>2 DEF IInv, TypeOK, Turn, Flush
<1>13. /\ Missing(r, stage) \subseteq S /\ Settled(r, Behind(stage))
       /\ stage \in {"structural", "semantic", "integrity", "aggregating"} =>
            run[r].plan
       /\ stage = "aggregating" => ReportKept(r)
  BY <1>0, <1>1, <1>2, <1>3 DEF TurnSettled
<1>14. Settled(r, {stage})'
  <2>1. Missing(r, stage)' = {}
    BY <1>11, <1>13
  <2>2. \A u \in Units : run'[r].results[u] \in Nat
    BY TypedNext
  <2> QED
    BY <2>1, <2>2 DEF Missing, Settled
<1>15. Settled(r, Behind(stage))' /\ (ReportKept(r) => ReportKept(r)')
  BY <1>0, <1>11, <1>13, SettledStays DEF RowGrows
<1>16. TurnSettled(d)'
  BY <1>11, <1>12, <1>13, <1>14, <1>15, Arrived
<1> QED
  BY <1>11, <1>12, <1>16, Progressed

\* The status moves on with the stage.
LEMMA AdvanceProgress ==
  ASSUME ProgressInv, IInv', NEW d \in Drivers, Advance(d)
  PROVE  ProgressInv'
<1>0. /\ turn[d].job \in Runs /\ turn[d].pc = "advance"
      /\ ~At(d, "idle") /\ TurnSettled(d) /\ IInv
      /\ turn[d].stage \in Active
  BY DEF ProgressInv, IInv, TurnInOrder, StagesAt, Advance, At
<1>1. PICK r \in Runs : r = turn[d].job
  BY <1>0
<1>2. CASE Goto(d, "ended")
            /\ (run' = run \/ run' = [run EXCEPT ![r] = Stopped(@)])
  BY <1>0, <1>1, <1>2, StopProgress
<1>3. CASE /\ run[r].status = turn[d].stage
           /\ run' = [run EXCEPT ![r].status = StageAfter[turn[d].stage]]
           /\ turn' = [turn EXCEPT
                ![d].pc = Begin(StageAfter[turn[d].stage]),
                ![d].stage = StageAfter[turn[d].stage]]
  <2>1. PICK stage : stage = turn[d].stage
    OBVIOUS
  <2>2. PICK next : next = StageAfter[stage]
    OBVIOUS
  <2>3. PICK p : p = Begin(next)
    OBVIOUS
  <2>4. PICK row : row = [run[r] EXCEPT !.status = next]
    OBVIOUS
  <2>5. run' = [run EXCEPT ![r] = row]
    BY <1>3, <2>1, <2>2, <2>4
  <2>6. /\ row.results = run[r].results /\ row.plan = run[r].plan
        /\ row.report = run[r].report /\ row.status = next
    BY <1>0, <2>4, Typed DEF Row
  <2>7. run'[r] = row
    BY <1>0, <2>5 DEF IInv, TypeOK
  <2>8. /\ Settled(r, Behind(stage)) /\ Settled(r, {stage})
        /\ stage \in {"structural", "semantic", "integrity", "aggregating"} =>
             run[r].plan
        /\ stage = "aggregating" => ReportKept(r)
    BY <1>0, <1>1, <2>1 DEF TurnSettled
  <2>9. /\ next \in {"semantic", "integrity", "aggregating", "done"} =>
             stage \in {"structural", "semantic", "integrity", "aggregating"}
        /\ next = "done" => stage = "aggregating"
        /\ stage \in Active
    BY <1>0, <2>1, <2>2 DEF Active, StageAfter
  <2>10. run[r].plan => Settled(r, {"routing"})
    BY DEF ProgressInv, PlanFirst
  <2>11. Settled(r, Behind(next))
    <3>1. \A s \in Behind(next) :
             s \in Behind(stage) \/ s = stage \/ (s = "routing" /\ run[r].plan)
      BY <1>0, <2>1, <2>2, <2>8 DEF Behind, Reached, Active, StageAfter
    <3> QED
      BY <2>8, <2>10, <3>1 DEF Settled
  <2>12. RowGrows(r)
    <3>1. \A u \in Units : run[r].results[u] \in Nat
      BY <1>0, Typed
    <3>2. next = "done" => run[r].report
      BY <1>3, <2>1, <2>8, <2>9, Stages DEF ReportKept, Terminal
    <3>3. ReportKept(r) => ReportKept(r)'
      BY <1>3, <2>1, <2>6, <2>7, <2>9, Stages DEF ReportKept, Terminal
    <3>4. next \in Planned => run[r].plan
      BY <2>8, <2>9 DEF Planned
    <3> QED
      BY <2>6, <2>7, <2>11, <3>1, <3>2, <3>3, <3>4 DEF RowGrows
  <2>13. \A s \in Runs : RowGrows(s)
    BY <1>0, <2>5, <2>12, OneRowWritten
  <2>14. /\ \A e \in Drivers \ {d} : turn'[e] = turn[e]
         /\ turn'[d].pc = p /\ turn'[d].job = r /\ turn'[d].stage = next
         /\ turn'[d].unsaved = turn[d].unsaved
    BY <1>0, <1>1, <1>3, <2>1, <2>2, <2>3 DEF IInv, TypeOK, Turn
  <2>15. /\ Settled(r, Behind(next))'
         /\ next \in {"semantic", "integrity", "aggregating"} => run'[r].plan
         /\ turn'[d].unsaved # {} => run'[r].plan
    <3>1. Settled(r, Behind(next))'
      BY <1>0, <2>11, <2>12, SettledStays
    <3>2. turn[d].unsaved # {} => run[r].plan
      BY <1>0, <1>1 DEF TurnSettled
    <3> QED
      BY <2>6, <2>7, <2>8, <2>9, <2>14, <3>1, <3>2
  <2>16. /\ p \in {"flush", "route", "load", "aggregate", "ended"}
         /\ p = "flush" => next = "ingesting"
         /\ p = "load" => next \in {"semantic", "integrity"}
         /\ p = "aggregate" => next = "aggregating"
    BY <1>0, <2>1, <2>2, <2>3 DEF Begin, Active, StageAfter
  <2>17. Missing(r, "ingesting")' = {}
    BY StageOfAssumption DEF Missing
  <2>18. TurnSettled(d)'
    BY <2>14, <2>15, <2>16, <2>17, Arrived
  <2> QED
    BY <2>13, <2>14, <2>18, Progressed
<1> QED
  BY <1>1, <1>2, <1>3 DEF Advance, FinishCancel

-----------------------------------------------------------------------------
(* The exceptional ends of a turn.                                         *)

LEMMA ExceptionProgress ==
  ASSUME ProgressInv, IInv', NEW d \in Drivers, Fail(d) \/ Block(d)
  PROVE  ProgressInv'
<1>0. /\ turn[d].job \in Runs /\ ~At(d, "idle") /\ IInv
  BY DEF ProgressInv, IInv, TurnInOrder, Fail, Block, At
<1>1. PICK r \in Runs : r = turn[d].job
  BY <1>0
<1>2. CASE Goto(d, "ended")
            /\ (run' = run \/ run' = [run EXCEPT ![r] = Stopped(@)])
  BY <1>0, <1>1, <1>2, StopProgress
<1>3. CASE /\ run[r].status \in Active
           /\ Goto(d, "ended")
           /\ \/ run' = [run EXCEPT ![r] = [run[r] EXCEPT !.status = "failed"]]
              \/ run' = [run EXCEPT ![r] = [run[r] EXCEPT !.block = "waiting"]]
  <2>1. PICK row : /\ run' = [run EXCEPT ![r] = row]
                   /\ \/ row = [run[r] EXCEPT !.status = "failed"]
                      \/ row = [run[r] EXCEPT !.block = "waiting"]
    BY <1>3
  <2>2. /\ row.results = run[r].results /\ row.plan = run[r].plan
        /\ row.report = run[r].report
        /\ row.status = run[r].status \/ row.status = "failed"
    BY <1>0, <2>1, Typed DEF Row
  <2>3. run[r].status # "cancelled"
    BY <1>3, Stages
  <2>4. \A s \in Runs : RowGrows(s)
    BY <1>0, <2>1, <2>2, <2>3, NothingSettled
  <2>5. TurnSettled(d)'
    BY <1>0, <1>3, <2>4, Went, PointKept
  <2> QED
    BY <1>0, <1>3, <2>4, <2>5, Went, Progressed
<1> QED
  BY <1>1, <1>2, <1>3 DEF Fail, Block, ExceptionExit, FinishCancel

LEMMA BreakProgress ==
  ASSUME ProgressInv, IInv', NEW d \in Drivers,
         Raise(d) \/ LoseClaim(d) \/ YieldTurn(d)
  PROVE  ProgressInv'
<1>1. /\ ~At(d, "idle") /\ IInv /\ turn \in [Drivers -> Turn] /\ run' = run
  BY DEF ProgressInv, IInv, TypeOK, Raise, LoseClaim, YieldTurn, FencedPoints, At
<1>2. PICK p \in {"fail", "ended"} :
        turn' = [turn EXCEPT ![d].pc = p, ![d].unsaved = {}]
  BY DEF Raise, LoseClaim, YieldTurn
<1>3. /\ \A e \in Drivers \ {d} : turn'[e] = turn[e]
      /\ turn'[d].pc = p /\ turn'[d].job = turn[d].job
      /\ turn'[d].stage = turn[d].stage /\ turn'[d].unsaved = {}
  BY <1>1, <1>2 DEF Turn
<1>4. \A s \in Runs : RowGrows(s)
  BY <1>1, NoRowWritten
<1>5. TurnSettled(d)'
  BY <1>1, <1>3, <1>4, PointKept
<1> QED
  BY <1>3, <1>4, <1>5, Progressed

\* A turn begins, ends or is lost; a claim expires.
LEMMA SlotProgress ==
  ASSUME ProgressInv, IInv', run' = run,
         \/ turn' = turn
         \/ \E d \in Drivers : \/ EndTurn(d) \/ Crash(d)
                               \/ \E r \in Runs : Admit(d, r)
  PROVE  ProgressInv'
<1>1. IInv /\ turn \in [Drivers -> Turn]
  BY DEF ProgressInv, IInv, TypeOK
<1>2. \A s \in Runs : RowGrows(s)
  BY <1>1, NoRowWritten
<1>3. CASE turn' = turn
  BY <1>2, <1>3, Progressed
<1>4. ASSUME NEW d \in Drivers, EndTurn(d) \/ Crash(d) PROVE ProgressInv'
  <2>1. /\ \A e \in Drivers \ {d} : turn'[e] = turn[e]
        /\ turn'[d].pc = "idle"
    BY <1>1, <1>4 DEF EndTurn, Crash, NoTurn
  <2> QED
    BY <1>2, <2>1, Progressed
<1>5. ASSUME NEW d \in Drivers, NEW r \in Runs, Admit(d, r) PROVE ProgressInv'
  <2>1. /\ \A e \in Drivers \ {d} : turn'[e] = turn[e]
        /\ turn'[d].pc = "enter" /\ turn'[d].job = r
        /\ turn'[d].stage = "none" /\ turn'[d].unsaved = {}
    BY <1>1, <1>5 DEF Admit, NoTurn
  <2>2. "none" \notin Active
    BY Stages
  <2>3. TurnSettled(d)'
    BY <2>1, <2>2, Arrived
  <2> QED
    BY <1>2, <2>1, <2>3, Progressed
<1> QED
  BY <1>3, <1>4, <1>5

LEMMA RequestProgress ==
  ASSUME ProgressInv, IInv', NEW r \in Runs,
         CreateRun(r) \/ CancelRun(r) \/ QuotaReset(r)
  PROVE  ProgressInv'
<1>1. IInv /\ turn' = turn /\ run[r] \in Row
  BY Typed DEF ProgressInv, CreateRun, CancelRun, QuotaReset
<1>2. PICK row :
        /\ run' = [run EXCEPT ![r] = row]
        /\ \/ /\ row = [run[r] EXCEPT !.status = "queued"]
              /\ run[r].status = "absent"
           \/ row = [Stopped(run[r]) EXCEPT !.cancel = TRUE]
           \/ row = [run[r] EXCEPT !.cancel = TRUE]
           \/ row = [run[r] EXCEPT !.block = "due"]
  BY DEF CreateRun, CancelRun, QuotaReset
<1>3. /\ row.results = run[r].results /\ row.plan = run[r].plan
      /\ \/ row.status = run[r].status /\ row.report = run[r].report
         \/ /\ row.status = "queued" /\ run[r].status = "absent"
            /\ row.report = run[r].report
         \/ row.status = "cancelled"
  BY <1>1, <1>2 DEF Row, Stopped
<1>4. \A s \in Runs : RowGrows(s)
  BY <1>1, <1>2, <1>3, NothingSettled
<1> QED
  BY <1>1, <1>4, Progressed

-----------------------------------------------------------------------------
(* The theorems.                                                           *)

LEMMA InitProgress == Init => ProgressInv
<1> SUFFICES ASSUME Init PROVE ProgressInv
  OBVIOUS
<1>1. IInv
  BY InitInv
<1>2. ASSUME NEW r \in Runs PROVE RowSettled(r) /\ PlanFirst(r)
  <2>1. /\ run[r].status = "absent" /\ run[r].plan = FALSE
        /\ \A u \in Units : run[r].results[u] = 0
    BY DEF Init, NewRow
  <2> QED
    BY <2>1 DEF RowSettled, PlanFirst, Settled, Behind
<1>3. \A d \in Drivers : At(d, "idle")
  BY DEF Init, At, NoTurn
<1> QED
  BY <1>1, <1>2, <1>3 DEF ProgressInv

LEMMA NextProgress == ProgressInv /\ [Next]_vars => ProgressInv'
<1> SUFFICES ASSUME ProgressInv, [Next]_vars PROVE ProgressInv'
  OBVIOUS
<1>1. IInv'
  BY NextInv DEF ProgressInv
<1>2. ASSUME NEW r \in Runs, CreateRun(r) \/ CancelRun(r) \/ QuotaReset(r)
      PROVE  ProgressInv'
  BY <1>1, <1>2, RequestProgress
<1>3. ASSUME NEW d \in Drivers, Step(d) PROVE ProgressInv'
  <2>1. ASSUME NEW r \in Runs, Admit(d, r) PROVE ProgressInv'
    BY <1>1, <2>1, SlotProgress DEF Admit
  <2>2. CASE Enter(d)
    BY <1>1, <2>2, EnterProgress
  <2>3. CASE Route(d) \/ QuotaExhausted(d) \/ AIUnavailable(d)
    BY <1>1, <2>3, MoveProgress
  <2>4. CASE Publish(d)
    BY <1>1, <2>4, PublishProgress
  <2>5. CASE Load(d)
    BY <1>1, <2>5, LoadProgress
  <2>6. ASSUME NEW u \in Units, Work(d, u) \/ Degrade(d, u) PROVE ProgressInv'
    BY <1>1, <2>6, WorkProgress
  <2>7. CASE Boundary(d) \/ Recheck(d)
    BY <1>1, <2>7, BoundaryProgress
  <2>8. CASE Outage(d)
    BY <1>1, <2>8, OutageProgress
  <2>9. CASE Aggregate(d)
    BY <1>1, <2>9, AggregateProgress
  <2>10. CASE Flush(d)
    BY <1>1, <2>10, FlushProgress
  <2>11. CASE Advance(d)
    BY <1>1, <2>11, AdvanceProgress
  <2>12. CASE Fail(d) \/ Block(d)
    BY <1>1, <2>12, ExceptionProgress
  <2>13. CASE Raise(d) \/ LoseClaim(d)
    BY <1>1, <2>13, BreakProgress
  <2>14. CASE EndTurn(d)
    BY <1>1, <2>14, SlotProgress DEF EndTurn
  <2> QED
    BY <1>3, <2>1, <2>2, <2>3, <2>4, <2>5, <2>6, <2>7, <2>8, <2>9, <2>10,
       <2>11, <2>12, <2>13, <2>14 DEF Step
<1>4. ASSUME NEW d \in Drivers, YieldTurn(d) \/ Crash(d) PROVE ProgressInv'
  <2>1. CASE YieldTurn(d)
    BY <1>1, <2>1, BreakProgress
  <2>2. CASE Crash(d)
    BY <1>1, <2>2, SlotProgress DEF Crash
  <2> QED
    BY <1>4, <2>1, <2>2
<1>5. CASE Expire \/ ExpireLive \/ UNCHANGED vars
  BY <1>1, <1>5, SlotProgress DEF Expire, ExpireLive, vars
<1> QED
  BY <1>2, <1>3, <1>4, <1>5 DEF Next

\* Every reachable state satisfies the invariant: what a driver and a row's
\* status say is settled, is settled.
THEOREM ProgressInductive == Spec => []ProgressInv
<1>1. Init => ProgressInv
  BY InitProgress
<1>2. ProgressInv /\ [Next]_vars => ProgressInv'
  BY NextProgress
<1> QED
  BY <1>1, <1>2, PTL DEF Spec

\* A run that is done has its report and a result for every unit, through any
\* number of crashes, yields and expired claims, and with two drivers at work
\* on the same run.
THEOREM DoneComplete == Spec => []DoneIsComplete
<1>1. ProgressInv => DoneIsComplete
  <2> SUFFICES ASSUME ProgressInv, NEW r \in Runs, run[r].status = "done"
               PROVE  run[r].report /\ \A u \in Units : run[r].results[u] > 0
    BY DEF DoneIsComplete
  <2>1. Settled(r, {"routing", "structural", "semantic", "integrity"})
        /\ run[r].report
    BY DEF ProgressInv, RowSettled, Behind, Reached
  <2> QED
    BY <2>1, StageOfAssumption DEF Settled
<1> QED
  BY <1>1, ProgressInductive, PTL

\* No driver leaves a stage before every unit up to it is settled.
THEOREM StageSettled == Spec => []StageLeftSettled
<1>1. ProgressInv => StageLeftSettled
  <2> SUFFICES ASSUME ProgressInv, NEW d \in Drivers,
                      turn[d].pc \in {"recheck", "advance"}
               PROVE  Settled(turn[d].job, Reached(turn[d].stage))
    BY DEF StageLeftSettled, Settled
  <2>1. PICK r \in Runs : r = turn[d].job
    BY DEF ProgressInv, IInv, TurnInOrder, At
  <2>2. PICK stage : stage = turn[d].stage
    OBVIOUS
  <2>3. stage \in Active /\ TurnSettled(d)
    BY <2>2, Stages DEF ProgressInv, IInv, TurnInOrder, StagesAt, At
  <2>4. /\ Settled(r, Behind(stage)) /\ Settled(r, {stage})
        /\ stage = "structural" => run[r].plan
    BY <2>1, <2>2, <2>3 DEF TurnSettled
  <2>5. run[r].plan => Settled(r, {"routing"})
    BY DEF ProgressInv, PlanFirst
  <2>6. \A s \in Reached(stage) :
           s \in Behind(stage) \/ s = stage \/ (s = "routing" /\ run[r].plan)
    BY <2>3, <2>4, Stages DEF Behind, Reached
  <2>7. Settled(r, Reached(stage))
    BY <2>4, <2>5, <2>6 DEF Settled
  <2> QED
    BY <2>1, <2>2, <2>7
<1> QED
  BY <1>1, ProgressInductive, PTL

\* A resumed run finds its routing plan, or nothing that needed one.
THEOREM PlanFound == Spec => []ResumeFindsPlan
<1>1. ProgressInv => ResumeFindsPlan
  <2> SUFFICES ASSUME ProgressInv, NEW d \in Drivers, At(d, "route"),
                      ~run[turn[d].job].plan
               PROVE  /\ turn[d].stage = "structural"
                      /\ \A u \in Units : run[turn[d].job].results[u] = 0
    BY DEF ResumeFindsPlan
  <2>1. /\ turn[d].job \in Runs /\ TurnSettled(d)
        /\ turn[d].stage \in {"structural", "semantic", "integrity", "aggregating"}
    BY DEF ProgressInv, IInv, TurnInOrder, StagesAt, At
  <2>2. turn[d].stage = "structural"
    BY <2>1 DEF TurnSettled
  <2>3. \A u \in Units : run[turn[d].job].results[u] \in Nat
    BY <2>1, Typed DEF ProgressInv
  <2>4. \A u \in Units : ~(run[turn[d].job].results[u] > 0)
    BY <2>1 DEF ProgressInv, PlanFirst
  <2> QED
    BY <2>2, <2>3, <2>4
<1> QED
  BY <1>1, ProgressInductive, PTL

-----------------------------------------------------------------------------
(* One driver at a time.                                                   *)

LEMMA Driving ==
  ASSUME SoleInv, NEW d \in Drivers, ~At(d, "idle")
  PROVE  /\ IInv /\ Owned(d)
         /\ turn[d].job \in Runs /\ turn[d] \in Turn
         /\ run[turn[d].job] \in Row
         /\ turn[d].stage \in StagesAt(turn[d].pc)
         /\ RowExact(run[turn[d].job])
         /\ TurnExact(turn[d], run[turn[d].job])
         /\ \A e \in Drivers \ {d} : At(e, "idle")
<1>1. /\ IInv /\ Owned(d) /\ TurnExact(turn[d], run[turn[d].job])
      /\ turn[d].job \in Runs /\ turn[d].stage \in StagesAt(turn[d].pc)
  BY DEF SoleInv, SoleDriver, IInv, TurnInOrder
<1>2. \A e \in Drivers \ {d} : At(e, "idle")
  BY DEF SoleInv, SoleDriver, Owned, HeldBy
<1> QED
  BY <1>1, <1>2 DEF SoleInv, IInv, TypeOK

\* A step of the driver at work.
LEMMA SoleStep ==
  ASSUME SoleInv, IInv', NEW d \in Drivers, ~At(d, "idle"), slot' = slot,
         \A e \in Drivers \ {d} : turn'[e] = turn[e],
         turn'[d].job = turn[d].job,
         \A s \in Runs \ {turn[d].job} : run'[s] = run[s],
         RowExact(run'[turn[d].job]),
         TurnExact(turn'[d], run'[turn[d].job])
  PROVE  SoleInv'
<1>1. /\ Owned(d) /\ turn[d].job \in Runs
      /\ \A e \in Drivers \ {d} : At(e, "idle")
  BY Driving
<1>2. \A e \in Drivers : ~At(e, "idle")' => e = d
  BY <1>1 DEF At
<1>3. SoleDriver'
  BY <1>1, <1>2 DEF SoleDriver, Owned, HeldBy
<1>4. \A r \in Runs : RowExact(run'[r])
  BY DEF SoleInv
<1>5. \A e \in Drivers : ~At(e, "idle")' => TurnExact(turn'[e], run'[turn'[e].job])
  BY <1>2
<1> QED
  BY <1>3, <1>4, <1>5 DEF SoleInv

\* A cancellation is finalised, or found finalised, and the turn is over.
LEMMA SoleStop ==
  ASSUME SoleInv, IInv', NEW d \in Drivers, ~At(d, "idle"), turn[d].pc # "flush",
         Goto(d, "ended"), slot' = slot,
         run' = run \/ run' = [run EXCEPT ![turn[d].job] = Stopped(@)]
  PROVE  SoleInv'
<1> DEFINE r == turn[d].job
<1>1. /\ IInv /\ r \in Runs /\ run[r] \in Row /\ RowExact(run[r])
      /\ TurnExact(turn[d], run[r]) /\ run \in [Runs -> Row]
  BY Driving DEF IInv, TypeOK
<1>2. /\ \A e \in Drivers \ {d} : turn'[e] = turn[e]
      /\ turn'[d].job = r /\ turn'[d].pc = "ended"
      /\ turn'[d].unsaved = turn[d].unsaved /\ turn[d].unsaved = {}
  BY <1>1, Went DEF TurnExact
<1>3. /\ \A s \in Runs \ {r} : run'[s] = run[s]
      /\ run'[r] = run[r] \/ run'[r] = Stopped(run[r])
  BY <1>1
<1>4. RowExact(run'[r])
  BY <1>1, <1>3 DEF RowExact, Stopped, Row
<1>5. TurnExact(turn'[d], run'[r])
  BY <1>2 DEF TurnExact
<1> HIDE DEF r
<1> QED
  BY <1>2, <1>3, <1>4, <1>5, SoleStep DEF r

\* Where a turn may go without new work.
Follows(t, row, p) ==
  \/ p \in {"fail", "ended", "load", "flush", "route"}
  \/ p = "aggregate" /\ t.stage = "aggregating"
  \/ p \in {"block", "outage"} /\ t.stage = "semantic"
  \/ p = "publish" /\ \A u \in Units : row.results[u] = 0
  \/ p = "work" /\ t.pc = "boundary"
  \/ p = "advance" /\ t.pc = "recheck"

LEMMA SoleGoto ==
  ASSUME SoleInv, IInv', NEW d \in Drivers, ~At(d, "idle"), NEW p,
         turn[d].pc \notin {"flush", "enter", "ended"}, Goto(d, p),
         run' = run, slot' = slot,
         Follows(turn[d], run[turn[d].job], p)
  PROVE  SoleInv'
<1> DEFINE r == turn[d].job
<1>1. /\ IInv /\ r \in Runs /\ run[r] \in Row /\ RowExact(run[r])
      /\ TurnExact(turn[d], run[r])
  BY Driving
<1>2. /\ \A e \in Drivers \ {d} : turn'[e] = turn[e]
      /\ turn'[d].job = r /\ turn'[d].pc = p /\ turn'[d].stage = turn[d].stage
      /\ turn'[d].todo = turn[d].todo /\ turn'[d].unsaved = turn[d].unsaved
  BY <1>1, Went
<1>3. turn[d].pc # "idle"
  BY DEF At
<1>4. TurnExact(turn'[d], run[r])
  BY <1>1, <1>2, <1>3 DEF TurnExact, Follows
<1> HIDE DEF r
<1> QED
  BY <1>1, <1>2, <1>4, SoleStep DEF r

LEMMA SoleEnter ==
  ASSUME SoleInv, IInv', NEW d \in Drivers, Enter(d)
  PROVE  SoleInv'
<1> DEFINE r == turn[d].job
           stage == run[r].status
           first == IF stage \in {"semantic", "integrity", "aggregating"}
                    THEN "route" ELSE Begin(stage)
<1>1. /\ IInv /\ r \in Runs /\ run[r] \in Row /\ RowExact(run[r])
      /\ TurnExact(turn[d], run[r]) /\ ~At(d, "idle") /\ turn[d].pc = "enter"
      /\ Owned(d) /\ DrivesLiveRun(d) /\ slot' = slot
      /\ turn \in [Drivers -> Turn]
  BY Driving DEF Enter, At, FinishCancel, IInv, TypeOK
<1>2. CASE Goto(d, "ended")
            /\ (run' = run \/ run' = [run EXCEPT ![r] = Stopped(@)])
  BY <1>1, <1>2, SoleStop
<1>3. CASE /\ stage # "cancelled" /\ run' = run
           /\ turn' = [turn EXCEPT ![d].pc = first, ![d].stage = stage]
  <2>1. stage \in Active
    BY <1>1, <1>3 DEF DrivesLiveRun
  <2>2. first \in {"flush", "route"}
    BY <2>1, Stages DEF Begin
  <2> HIDE DEF first
  <2>3. /\ \A e \in Drivers \ {d} : turn'[e] = turn[e]
        /\ turn'[d].job = r /\ turn'[d].pc = first /\ turn'[d].stage = stage
        /\ turn'[d].unsaved = turn[d].unsaved
    BY <1>1, <1>3 DEF Turn
  <2>4. turn[d].unsaved = {}
    BY <1>1 DEF TurnExact
  <2>5. TurnExact(turn'[d], run[r])
    BY <2>2, <2>3, <2>4 DEF TurnExact
  <2> HIDE DEF r
  <2> QED
    BY <1>1, <1>3, <2>3, <2>5, SoleStep DEF r
<1> QED
  BY <1>2, <1>3 DEF Enter, FinishCancel

LEMMA SoleMove ==
  ASSUME SoleInv, IInv', NEW d \in Drivers, Route(d) \/ AIUnavailable(d)
  PROVE  SoleInv'
<1>1. PICK p : Goto(d, p) /\ Follows(turn[d], run[turn[d].job], p)
  BY DEF Route, AIUnavailable, Follows
<1>2. /\ ~At(d, "idle") /\ turn[d].pc \notin {"flush", "enter", "ended"}
      /\ run' = run /\ slot' = slot
  BY DEF Route, AIUnavailable, At
<1> QED
  BY <1>1, <1>2, SoleGoto

\* What is loaded, or left to grade when the quota is exhausted.
LEMMA SoleLoad ==
  ASSUME SoleInv, IInv', NEW d \in Drivers, Load(d) \/ QuotaExhausted(d)
  PROVE  SoleInv'
<1> DEFINE r == turn[d].job
           missing == Missing(r, turn[d].stage)
<1>1. /\ IInv /\ r \in Runs /\ run[r] \in Row /\ RowExact(run[r])
      /\ TurnExact(turn[d], run[r]) /\ ~At(d, "idle")
      /\ turn[d].pc \in {"load", "work"}
      /\ run' = run /\ slot' = slot /\ turn \in [Drivers -> Turn]
  BY Driving DEF Load, QuotaExhausted, At, IInv, TypeOK
<1>2. CASE Goto(d, "block") /\ turn[d].stage = "semantic"
  <2>1. Follows(turn[d], run[r], "block")
    BY <1>2 DEF Follows
  <2>2. turn[d].pc \notin {"flush", "enter", "ended"}
    BY <1>1
  <2> QED
    BY <1>1, <1>2, <2>1, <2>2, SoleGoto
<1>3. CASE \E p \in {"boundary", "work", "flush", "degrade"} :
             turn' = [turn EXCEPT ![d].todo = missing, ![d].pc = p]
  <2>1. PICK p \in {"boundary", "work", "flush", "degrade"} :
             turn' = [turn EXCEPT ![d].todo = missing, ![d].pc = p]
    BY <1>3
  <2>2. missing = Owing(run[r], turn[d].stage)
    BY DEF Missing, Owing
  <2> HIDE DEF missing
  <2>3. /\ \A e \in Drivers \ {d} : turn'[e] = turn[e]
        /\ turn'[d].job = r /\ turn'[d].pc = p /\ turn'[d].stage = turn[d].stage
        /\ turn'[d].todo = missing /\ turn'[d].unsaved = turn[d].unsaved
    BY <1>1, <2>1 DEF Turn
  <2>4. TurnExact(turn'[d], run[r])
    BY <1>1, <2>2, <2>3 DEF TurnExact
  <2> HIDE DEF r
  <2> QED
    BY <1>1, <2>3, <2>4, SoleStep DEF r
<1>4. CASE Load(d)
  <2>1. Resume(turn[d].stage, missing) \subseteq {"boundary", "work", "flush"}
    BY DEF Resume
  <2> QED
    BY <1>3, <1>4, <2>1 DEF Load
<1>5. CASE QuotaExhausted(d)
  BY <1>2, <1>3, <1>5 DEF QuotaExhausted
<1> QED
  BY <1>4, <1>5

-----------------------------------------------------------------------------
(* The commits of one driver.                                              *)

LEMMA SolePublish ==
  ASSUME SoleInv, IInv', NEW d \in Drivers, Publish(d)
  PROVE  SoleInv'
<1>1. /\ IInv /\ turn[d].job \in Runs /\ run[turn[d].job] \in Row
      /\ RowExact(run[turn[d].job]) /\ TurnExact(turn[d], run[turn[d].job])
      /\ ~At(d, "idle") /\ turn[d].pc = "publish" /\ slot' = slot
      /\ Goto(d, "load") /\ run \in [Runs -> Row]
  BY Driving DEF Publish, At, IInv, TypeOK
<1>2. PICK row : row = Routed(run[turn[d].job])
  OBVIOUS
<1>3. run' = [run EXCEPT ![turn[d].job] = row]
  BY <1>2 DEF Publish
<1>4. /\ row.status = run[turn[d].job].status /\ row.report = run[turn[d].job].report
      /\ row.block = run[turn[d].job].block
      /\ row.results = [u \in Units |->
           IF StageOf[u] = "routing" THEN run[turn[d].job].results[u] + 1
           ELSE run[turn[d].job].results[u]]
  BY <1>1, <1>2 DEF Routed, Row
<1>5. \A u \in Units : run[turn[d].job].results[u] = 0
  BY <1>1 DEF TurnExact
<1>6. \A u \in Units : row.results[u] <= 1
  BY <1>4, <1>5
<1>7. RowExact(row)
  BY <1>1, <1>4, <1>6 DEF RowExact
<1>8. /\ \A e \in Drivers \ {d} : turn'[e] = turn[e]
      /\ turn'[d].job = turn[d].job /\ turn'[d].pc = "load"
      /\ turn'[d].stage = turn[d].stage
      /\ turn'[d].todo = turn[d].todo /\ turn'[d].unsaved = turn[d].unsaved
  BY <1>1, Went
<1>9. TurnExact(turn'[d], row)
  BY <1>1, <1>4, <1>8 DEF TurnExact
<1>10. /\ run'[turn[d].job] = row
       /\ \A s \in Runs \ {turn[d].job} : run'[s] = run[s]
  BY <1>1, <1>3
<1> QED
  BY <1>1, <1>7, <1>8, <1>9, <1>10, SoleStep

\* Of what a driver has left to settle, nothing is settled yet.
LEMMA OwingSettled ==
  ASSUME NEW old \in Row, NEW row, NEW S \in SUBSET Units, NEW stage,
         S \subseteq Owing(old, stage), RowExact(old),
         row.status = old.status, row.report = old.report,
         row.block = old.block \/ row.block = "none",
         row.results = [u \in Units |-> IF u \in S THEN old.results[u] + 1
                                       ELSE old.results[u]]
  PROVE  /\ RowExact(row)
         /\ \A T \in SUBSET Units : \A st :
              T \subseteq Owing(old, st) => T \ S \subseteq Owing(row, st)
<1>1. \A u \in S : old.results[u] = 0
  BY DEF Owing
<1>2. \A u \in Units : row.results[u] <= 1
  BY <1>1 DEF RowExact
<1>3. \A T \in SUBSET Units : \A st :
        T \subseteq Owing(old, st) => T \ S \subseteq Owing(row, st)
  BY DEF Owing
<1> QED
  BY <1>2, <1>3 DEF RowExact

LEMMA SoleWork ==
  ASSUME SoleInv, IInv', NEW d \in Drivers, NEW u \in Units,
         Work(d, u) \/ Degrade(d, u)
  PROVE  SoleInv'
<1>1. /\ IInv /\ turn[d].job \in Runs /\ run[turn[d].job] \in Row
      /\ RowExact(run[turn[d].job]) /\ TurnExact(turn[d], run[turn[d].job])
      /\ ~At(d, "idle") /\ turn[d].pc \in {"work", "degrade"} /\ slot' = slot
      /\ turn[d].stage \in StagesAt(turn[d].pc) /\ turn[d] \in Turn
      /\ Commit1(d, u) /\ u \in turn[d].todo
      /\ run \in [Runs -> Row] /\ turn \in [Drivers -> Turn]
  BY Driving DEF Work, Degrade, At, IInv, TypeOK
<1>2. PICK r \in Runs : r = turn[d].job
  BY <1>1
<1>3. PICK row : row = [run[r] EXCEPT !.results[u] = @ + 1]
  OBVIOUS
<1>4. /\ row.status = run[r].status /\ row.report = run[r].report
      /\ row.block = run[r].block
      /\ row.results = [v \in Units |-> IF v \in {u} THEN run[r].results[v] + 1
                                        ELSE run[r].results[v]]
  BY <1>1, <1>2, <1>3 DEF Row
<1>5. /\ run'[r] = row /\ \A s \in Runs \ {r} : run'[s] = run[s]
  BY <1>1, <1>2, <1>3 DEF Commit1
<1>6. PICK left : left = turn[d].todo \ {u}
  OBVIOUS
<1>7. PICK p \in {"boundary", "work", "degrade", "flush"} :
        turn' = [turn EXCEPT ![d].todo = left, ![d].pc = p]
  <2>1. CASE Work(d, u)
    <3>1. turn[d].stage \in {"structural", "semantic", "integrity"}
      BY <1>1, <2>1, Stages DEF StagesAt, Work, At
    <3> QED
      BY <1>6, <2>1, <3>1 DEF Work
  <2>2. CASE Degrade(d, u)
    BY <1>6, <2>2 DEF Degrade
  <2> QED
    BY <2>1, <2>2
<1>8. /\ \A e \in Drivers \ {d} : turn'[e] = turn[e]
      /\ turn'[d].job = r /\ turn'[d].pc = p
      /\ turn'[d].stage = turn[d].stage
      /\ turn'[d].todo = left /\ turn'[d].unsaved = turn[d].unsaved
  BY <1>1, <1>2, <1>7 DEF Turn
<1>9. PICK stage : stage = turn[d].stage
  OBVIOUS
<1>10. /\ turn[d].todo \subseteq Owing(run[r], stage) /\ turn[d].todo \subseteq Units
       /\ turn[d].unsaved = {}
  BY <1>1, <1>2, <1>9 DEF TurnExact, Turn
<1>11. PICK S \in SUBSET Units : S = {u}
  OBVIOUS
<1>12. /\ RowExact(row)
       /\ \A T \in SUBSET Units : \A st :
            T \subseteq Owing(run[r], st) => T \ S \subseteq Owing(row, st)
  <2>1. S \subseteq Owing(run[r], stage)
    BY <1>1, <1>10, <1>11
  <2>2. row.results = [v \in Units |-> IF v \in S THEN run[r].results[v] + 1
                                     ELSE run[r].results[v]]
    BY <1>4, <1>11
  <2> QED
    BY <1>1, <1>2, <1>4, <2>1, <2>2, OwingSettled
<1>13. left \subseteq Owing(row, stage)
  BY <1>6, <1>10, <1>11, <1>12
<1>14. TurnExact(turn'[d], row)
  BY <1>1, <1>2, <1>4, <1>8, <1>9, <1>10, <1>13 DEF TurnExact
<1> QED
  BY <1>1, <1>2, <1>5, <1>8, <1>12, <1>14, SoleStep

LEMMA SoleBoundary ==
  ASSUME SoleInv, IInv', NEW d \in Drivers, Boundary(d) \/ Recheck(d)
  PROVE  SoleInv'
<1>1. /\ ~At(d, "idle") /\ turn[d].pc \in {"boundary", "recheck"} /\ slot' = slot
  BY DEF Boundary, Recheck, FinishCancel, At
<1>2. CASE Goto(d, "ended")
            /\ (run' = run \/ run' = [run EXCEPT ![turn[d].job] = Stopped(@)])
  BY <1>1, <1>2, SoleStop
<1>3. CASE /\ \E p \in {"flush", "work", "advance"} :
                /\ Goto(d, p)
                /\ p = "work" => turn[d].pc = "boundary"
                /\ p = "advance" => turn[d].pc = "recheck"
           /\ run' = run
  <2>1. PICK p : Goto(d, p) /\ Follows(turn[d], run[turn[d].job], p)
    BY <1>3 DEF Follows
  <2>2. turn[d].pc \notin {"flush", "enter", "ended"}
    BY <1>1
  <2> QED
    BY <1>1, <1>3, <2>1, <2>2, SoleGoto
<1> QED
  BY <1>2, <1>3 DEF Boundary, Recheck, FinishCancel, At

LEMMA SoleOutage ==
  ASSUME SoleInv, IInv', NEW d \in Drivers, Outage(d)
  PROVE  SoleInv'
<1>1. /\ IInv /\ turn[d].job \in Runs /\ run[turn[d].job] \in Row
      /\ RowExact(run[turn[d].job]) /\ TurnExact(turn[d], run[turn[d].job])
      /\ ~At(d, "idle") /\ turn[d].pc = "outage" /\ slot' = slot
      /\ turn \in [Drivers -> Turn]
  BY Driving DEF Outage, FinishCancel, At, IInv, TypeOK
<1>2. PICK r \in Runs : r = turn[d].job
  BY <1>1
<1>3. CASE Goto(d, "ended")
            /\ (run' = run \/ run' = [run EXCEPT ![r] = Stopped(@)])
  BY <1>1, <1>2, <1>3, SoleStop
<1>4. CASE /\ turn' = [turn EXCEPT ![d].todo = {}, ![d].pc = "flush",
                         ![d].unsaved = Missing(r, "semantic")]
           /\ run' = run
  <2>1. PICK missing : missing = Owing(run[r], "semantic")
    OBVIOUS
  <2>2. missing = Missing(r, "semantic")
    BY <2>1 DEF Missing, Owing
  <2>3. /\ \A e \in Drivers \ {d} : turn'[e] = turn[e]
        /\ turn'[d].job = r /\ turn'[d].pc = "flush"
        /\ turn'[d].stage = turn[d].stage /\ turn'[d].unsaved = missing
    BY <1>1, <1>2, <1>4, <2>2 DEF Turn
  <2>4. TurnExact(turn'[d], run[r])
    BY <1>1, <1>2, <2>1, <2>3 DEF TurnExact
  <2> QED
    BY <1>1, <1>2, <1>4, <2>3, <2>4, SoleStep
<1> QED
  BY <1>2, <1>3, <1>4 DEF Outage, FinishCancel

LEMMA SoleAggregate ==
  ASSUME SoleInv, IInv', NEW d \in Drivers, Aggregate(d)
  PROVE  SoleInv'
<1>1. /\ IInv /\ turn[d].job \in Runs /\ run[turn[d].job] \in Row
      /\ RowExact(run[turn[d].job]) /\ TurnExact(turn[d], run[turn[d].job])
      /\ ~At(d, "idle") /\ turn[d].pc = "aggregate" /\ slot' = slot
      /\ Goto(d, "flush") /\ run \in [Runs -> Row]
  BY Driving DEF Aggregate, At, IInv, TypeOK
<1>2. PICK r \in Runs : r = turn[d].job
  BY <1>1
<1>3. PICK row : row = [run[r] EXCEPT !.report = TRUE]
  OBVIOUS
<1>4. /\ row.status = run[r].status /\ row.block = run[r].block
      /\ row.results = run[r].results
  BY <1>1, <1>2, <1>3 DEF Row
<1>5. /\ run'[r] = row /\ \A s \in Runs \ {r} : run'[s] = run[s]
  BY <1>1, <1>2, <1>3 DEF Aggregate
<1>6. row.status = "aggregating"
  BY <1>1, <1>2, <1>4 DEF TurnExact
<1>7. RowExact(row)
  BY <1>1, <1>2, <1>4, <1>6 DEF RowExact
<1>8. /\ \A e \in Drivers \ {d} : turn'[e] = turn[e]
      /\ turn'[d].job = r /\ turn'[d].pc = "flush"
      /\ turn'[d].stage = turn[d].stage
      /\ turn'[d].todo = turn[d].todo /\ turn'[d].unsaved = turn[d].unsaved
  BY <1>1, <1>2, Went
<1>9. TurnExact(turn'[d], row)
  BY <1>1, <1>2, <1>4, <1>8 DEF TurnExact
<1> QED
  BY <1>1, <1>2, <1>5, <1>7, <1>8, <1>9, SoleStep

LEMMA SoleFlush ==
  ASSUME SoleInv, IInv', NEW d \in Drivers, Flush(d)
  PROVE  SoleInv'
<1>1. /\ IInv /\ turn[d].job \in Runs /\ run[turn[d].job] \in Row
      /\ RowExact(run[turn[d].job]) /\ TurnExact(turn[d], run[turn[d].job])
      /\ ~At(d, "idle") /\ turn[d].pc = "flush" /\ slot' = slot
      /\ turn[d].unsaved \subseteq Units
      /\ run \in [Runs -> Row] /\ turn \in [Drivers -> Turn]
  BY Driving DEF Flush, At, IInv, TypeOK, Turn
<1>2. PICK r \in Runs : r = turn[d].job
  BY <1>1
<1>3. PICK S \in SUBSET Units : S = turn[d].unsaved
  BY <1>1
<1>4. PICK rs : rs = [u \in Units |-> IF u \in S THEN run[r].results[u] + 1
                                      ELSE run[r].results[u]]
  OBVIOUS
<1>5. PICK recorded : recorded = IF turn[d].stage = "queued" THEN run[r]
                       ELSE [run[r] EXCEPT !.block = "none", !.note = FALSE]
  OBVIOUS
<1>6. /\ recorded.results = run[r].results /\ recorded \in Row
      /\ recorded.status = run[r].status /\ recorded.report = run[r].report
      /\ IF turn[d].stage = "queued" THEN recorded.block = run[r].block
         ELSE recorded.block = "none"
  BY <1>1, <1>2, <1>5 DEF Row
<1>7. PICK row : row = [recorded EXCEPT !.results = rs]
  OBVIOUS
<1>8. /\ row.status = run[r].status /\ row.report = run[r].report
      /\ row.block = recorded.block /\ row.results = rs
  BY <1>6, <1>7 DEF Row
<1>9. run' = [run EXCEPT ![r] = row]
  BY <1>2, <1>3, <1>4, <1>5, <1>6, <1>7 DEF Flush
<1>10. /\ run'[r] = row /\ \A s \in Runs \ {r} : run'[s] = run[s]
  BY <1>1, <1>9
<1>11. RowExact(row)
  <2>1. S \subseteq Owing(run[r], "semantic")
    BY <1>1, <1>2, <1>3 DEF TurnExact
  <2> QED
    BY <1>1, <1>2, <1>4, <1>6, <1>8, <2>1, OwingSettled
<1>12. /\ \A e \in Drivers \ {d} : turn'[e] = turn[e]
       /\ turn'[d].job = r /\ turn'[d].pc = "recheck"
       /\ turn'[d].stage = turn[d].stage /\ turn'[d].unsaved = {}
  BY <1>1, <1>2 DEF Flush, Turn
<1>13. row.block = "none" \/ row.status = "cancelled"
  <2>1. CASE turn[d].stage = "queued"
    BY <1>1, <1>2, <1>6, <1>8, <2>1 DEF TurnExact, RowExact
  <2> QED
    BY <1>6, <1>8, <2>1
<1>14. TurnExact(turn'[d], row)
  BY <1>1, <1>2, <1>8, <1>12, <1>13 DEF TurnExact
<1> QED
  BY <1>1, <1>2, <1>10, <1>11, <1>12, <1>14, SoleStep

LEMMA SoleAdvance ==
  ASSUME SoleInv, IInv', NEW d \in Drivers, Advance(d)
  PROVE  SoleInv'
<1>1. /\ IInv /\ turn[d].job \in Runs /\ run[turn[d].job] \in Row
      /\ RowExact(run[turn[d].job]) /\ TurnExact(turn[d], run[turn[d].job])
      /\ ~At(d, "idle") /\ turn[d].pc = "advance" /\ slot' = slot
      /\ turn[d].stage \in Active
      /\ run \in [Runs -> Row] /\ turn \in [Drivers -> Turn]
  BY Driving DEF Advance, FinishCancel, At, IInv, TypeOK, StagesAt
<1>2. PICK r \in Runs : r = turn[d].job
  BY <1>1
<1>3. CASE Goto(d, "ended")
            /\ (run' = run \/ run' = [run EXCEPT ![r] = Stopped(@)])
  BY <1>1, <1>2, <1>3, SoleStop
<1>4. PICK next : next = StageAfter[turn[d].stage]
  OBVIOUS
<1>5. CASE /\ run[r].status = turn[d].stage
           /\ run' = [run EXCEPT ![r].status = next]
           /\ turn' = [turn EXCEPT ![d].pc = Begin(next), ![d].stage = next]
  <2>1. next \in Active \union {"done"}
    BY <1>1, <1>4, Stages
  <2>2. PICK p : p = Begin(next)
    OBVIOUS
  <2>3. /\ p \in {"flush", "route", "load", "aggregate", "ended"}
        /\ p = "aggregate" => next = "aggregating"
    BY <2>1, <2>2, Stages DEF Begin
  <2>4. PICK row : row = [run[r] EXCEPT !.status = next]
    OBVIOUS
  <2>5. /\ row.status = next /\ row.report = run[r].report
        /\ row.block = run[r].block /\ row.results = run[r].results
    BY <1>1, <1>2, <2>4 DEF Row
  <2>6. /\ run'[r] = row /\ \A s \in Runs \ {r} : run'[s] = run[s]
    BY <1>1, <1>2, <1>5, <2>4
  <2>7. run[r].report => next = "done"
    BY <1>1, <1>2, <1>4, <1>5, Stages DEF RowExact, StageAfter
  <2>8. row.block = "none"
    BY <1>1, <1>2, <1>5, <2>5, Stages DEF TurnExact
  <2>9. RowExact(row)
    BY <1>1, <1>2, <2>5, <2>7, <2>8 DEF RowExact
  <2>10. /\ \A e \in Drivers \ {d} : turn'[e] = turn[e]
         /\ turn'[d].job = r /\ turn'[d].pc = p /\ turn'[d].stage = next
         /\ turn'[d].unsaved = turn[d].unsaved
    BY <1>1, <1>2, <1>5, <2>2 DEF Turn
  <2>11. TurnExact(turn'[d], row)
    BY <1>1, <1>2, <2>3, <2>5, <2>10 DEF TurnExact
  <2> QED
    BY <1>1, <1>2, <2>6, <2>9, <2>10, <2>11, SoleStep
<1> QED
  BY <1>2, <1>3, <1>4, <1>5 DEF Advance, FinishCancel

-----------------------------------------------------------------------------
(* The ends of a turn, and requests.                                       *)

LEMMA SoleException ==
  ASSUME SoleInv, IInv', NEW d \in Drivers, Fail(d) \/ Block(d)
  PROVE  SoleInv'
<1>1. /\ IInv /\ turn[d].job \in Runs /\ run[turn[d].job] \in Row
      /\ RowExact(run[turn[d].job]) /\ TurnExact(turn[d], run[turn[d].job])
      /\ ~At(d, "idle") /\ turn[d].pc \in {"fail", "block"} /\ slot' = slot
      /\ run \in [Runs -> Row]
  BY Driving DEF Fail, Block, ExceptionExit, FinishCancel, At, IInv, TypeOK
<1>2. PICK r \in Runs : r = turn[d].job
  BY <1>1
<1>3. CASE Goto(d, "ended")
            /\ (run' = run \/ run' = [run EXCEPT ![r] = Stopped(@)])
  BY <1>1, <1>2, <1>3, SoleStop
<1>4. CASE /\ \/ /\ run' = [run EXCEPT ![r].status = "failed"]
              \/ /\ run' = [run EXCEPT ![r].block = "waiting"]
                 /\ turn[d].pc = "block"
           /\ run[r].status \in Active
           /\ Goto(d, "ended")
  <2>1. PICK row : /\ run'[r] = row
                   /\ \A s \in Runs \ {r} : run'[s] = run[s]
                   /\ row.results = run[r].results /\ row.report = run[r].report
                   /\ \/ row.status = "failed"
                      \/ /\ row.status = run[r].status
                         /\ turn[d].pc = "block"
    <3>1. CASE run' = [run EXCEPT ![r].status = "failed"]
      BY <1>1, <1>2, <3>1 DEF Row
    <3>2. CASE run' = [run EXCEPT ![r].block = "waiting"] /\ turn[d].pc = "block"
      BY <1>1, <1>2, <3>2 DEF Row
    <3> QED
      BY <1>4, <3>1, <3>2
  <2>2. turn[d].pc = "block" => run[r].status = "semantic"
    BY <1>1, <1>2, <1>4, Stages DEF TurnExact
  <2>3. RowExact(row)
    BY <1>1, <1>2, <2>1, <2>2 DEF RowExact
  <2>4. /\ \A e \in Drivers \ {d} : turn'[e] = turn[e]
        /\ turn'[d].job = r /\ turn'[d].pc = "ended"
        /\ turn'[d].unsaved = turn[d].unsaved
    BY <1>1, <1>2, <1>4, Went
  <2>5. TurnExact(turn'[d], row)
    BY <1>1, <1>2, <2>4 DEF TurnExact
  <2> QED
    BY <1>1, <1>2, <2>1, <2>3, <2>4, <2>5, SoleStep
<1> QED
  BY <1>2, <1>3, <1>4 DEF Fail, Block, ExceptionExit, FinishCancel, At

LEMMA SoleBreak ==
  ASSUME SoleInv, IInv', NEW d \in Drivers, Raise(d) \/ LoseClaim(d) \/ YieldTurn(d)
  PROVE  SoleInv'
<1>1. ~At(d, "idle") /\ slot' = slot /\ run' = run /\ turn[d].pc # "ended"
  BY DEF Raise, LoseClaim, YieldTurn, FencedPoints, At
<1>2. /\ IInv /\ turn[d].job \in Runs /\ Owned(d)
      /\ RowExact(run[turn[d].job]) /\ TurnExact(turn[d], run[turn[d].job])
      /\ turn \in [Drivers -> Turn]
  BY <1>1, Driving DEF IInv, TypeOK
<1>3. PICK p : /\ turn' = [turn EXCEPT ![d].pc = p, ![d].unsaved = {}]
               /\ p \in {"ended", "fail"}
               /\ p = "fail" => turn[d].pc # "enter"
  <2>1. CASE Raise(d)
    BY <2>1 DEF Raise
  <2>2. CASE LoseClaim(d) \/ YieldTurn(d)
    BY <2>2 DEF LoseClaim, YieldTurn
  <2> QED
    BY <2>1, <2>2
<1>4. /\ \A e \in Drivers \ {d} : turn'[e] = turn[e]
      /\ turn'[d].job = turn[d].job /\ turn'[d].pc = p
      /\ turn'[d].stage = turn[d].stage /\ turn'[d].unsaved = {}
  BY <1>2, <1>3 DEF Turn
<1>5. TurnExact(turn'[d], run[turn[d].job])
  BY <1>1, <1>2, <1>3, <1>4 DEF TurnExact, At
<1> QED
  BY <1>1, <1>2, <1>4, <1>5, SoleStep

\* With no claim expiring under a live driver, the slot is free only when every
\* driver is idle, and then at most one takes it.
LEMMA SoleSlot ==
  ASSUME SoleInv, IInv', ~LiveExpiry,
         \/ \E d \in Drivers : EndTurn(d) \/ Crash(d)
         \/ \E d \in Drivers, r \in Runs : Admit(d, r)
         \/ Expire \/ ExpireLive
  PROVE  SoleInv'
<1>1. run' = run /\ turn \in [Drivers -> Turn] /\ \A r \in Runs : RowExact(run[r])
  BY DEF SoleInv, IInv, TypeOK, EndTurn, Crash, Admit, Expire, ExpireLive
<1>2. CASE \A d \in Drivers : At(d, "idle")'
  BY <1>1, <1>2 DEF SoleInv, SoleDriver, At
<1>3. ASSUME NEW d \in Drivers, EndTurn(d) \/ Crash(d)
      PROVE  \A e \in Drivers : At(e, "idle")'
  <2>1. ~At(d, "idle") /\ turn' = [turn EXCEPT ![d] = NoTurn]
    BY <1>3 DEF EndTurn, Crash, At
  <2>2. \A e \in Drivers \ {d} : At(e, "idle")
    BY <2>1, Driving
  <2> QED
    BY <1>1, <2>1, <2>2 DEF At, NoTurn
<1>4. ASSUME NEW d \in Drivers, NEW r \in Runs, Admit(d, r) PROVE SoleInv'
  <2>1. slot = FreeSlot /\ slot' = HeldBy(d, r)
        /\ turn' = [turn EXCEPT ![d] = [NoTurn EXCEPT !.pc = "enter", !.job = r]]
    BY <1>4 DEF Admit
  <2>2. /\ \A e \in Drivers \ {d} : turn'[e] = turn[e]
        /\ turn'[d].job = r /\ turn'[d].pc = "enter" /\ turn'[d].unsaved = {}
    BY <1>1, <2>1 DEF NoTurn
  <2>3. \A e \in Drivers : At(e, "idle")
    BY <2>1, Given DEF SoleInv, SoleDriver, Owned, HeldBy, FreeSlot, Assumptions
  <2>4. \A e \in Drivers : ~At(e, "idle")' => e = d
    BY <2>2, <2>3 DEF At
  <2>5. TurnExact(turn'[d], run[r])
    BY <2>2 DEF TurnExact
  <2>6. SoleDriver'
    BY <2>1, <2>2, <2>4 DEF SoleDriver, Owned
  <2> QED
    BY <1>1, <2>2, <2>4, <2>5, <2>6 DEF SoleInv
<1>5. ASSUME Expire \/ ExpireLive PROVE \A d \in Drivers : At(d, "idle")'
  <2>1. slot.driver = Nobody /\ turn' = turn
    BY <1>5 DEF Expire, ExpireLive
  <2>2. \A d \in Drivers : ~Owned(d)
    BY <2>1, Given DEF Owned, HeldBy, Assumptions
  <2> QED
    BY <2>1, <2>2 DEF SoleInv, SoleDriver, At
<1> QED
  BY <1>2, <1>3, <1>4, <1>5

\* A request changes one row, and nothing its driver presumes of it.
LEMMA RequestExact ==
  ASSUME SoleInv, IInv', NEW r \in Runs, NEW row, run' = [run EXCEPT ![r] = row],
         slot' = slot, turn' = turn, RowExact(row),
         row.results = run[r].results,
         \/ row.status = run[r].status
         \/ row.status = "cancelled" /\ run[r].status \in {"queued", "semantic"}
         \/ run[r].status = "absent",
         row.block = run[r].block \/ run[r].block # "none"
  PROVE  SoleInv'
<1>1. /\ IInv /\ run \in [Runs -> Row] /\ run'[r] = row
      /\ \A s \in Runs \ {r} : run'[s] = run[s]
  BY DEF SoleInv, IInv, TypeOK
<1>2. ASSUME NEW d \in Drivers, ~At(d, "idle"), turn[d].job = r
      PROVE  TurnExact(turn[d], row)
  <2>1. /\ TurnExact(turn[d], run[r]) /\ turn[d].stage \in StagesAt(turn[d].pc)
    BY <1>2, Driving
  <2>2. turn[d].pc \notin {"idle", "enter", "ended"} => turn[d].stage \in Active
    BY <2>1, Stages DEF StagesAt
  <2>3. \A stage : Owing(row, stage) = Owing(run[r], stage)
    BY DEF Owing
  <2>4. turn[d].pc \notin {"idle", "enter", "ended"} =>
          \/ row.status = turn[d].stage
          \/ row.status = "cancelled" /\ turn[d].stage \in {"queued", "semantic"}
    BY <2>1, <2>2, Stages DEF TurnExact
  <2>5. turn[d].pc \in {"recheck", "advance"} =>
          row.block = "none" \/ row.status = "cancelled"
    BY <2>1, <2>2, Stages DEF TurnExact
  <2> QED
    BY <2>1, <2>3, <2>4, <2>5 DEF TurnExact
<1>3. SoleDriver'
  BY DEF SoleInv, SoleDriver, At, Owned
<1>4. \A s \in Runs : RowExact(run'[s])
  BY <1>1 DEF SoleInv
<1>5. \A d \in Drivers : ~At(d, "idle")' => TurnExact(turn'[d], run'[turn'[d].job])
  BY <1>1, <1>2, Driving DEF SoleInv, At
<1> QED
  BY <1>3, <1>4, <1>5 DEF SoleInv

LEMMA SoleRequest ==
  ASSUME SoleInv, IInv', NEW r \in Runs, CreateRun(r) \/ CancelRun(r) \/ QuotaReset(r)
  PROVE  SoleInv'
<1>1. /\ run[r] \in Row /\ RowExact(run[r]) /\ slot' = slot /\ turn' = turn
  BY DEF SoleInv, IInv, TypeOK, CreateRun, CancelRun, QuotaReset
<1>2. CASE CreateRun(r)
  <2>1. PICK row : row = [run[r] EXCEPT !.status = "queued"]
    OBVIOUS
  <2>2. run' = [run EXCEPT ![r] = row] /\ run[r].status = "absent"
    BY <1>2, <2>1 DEF CreateRun
  <2>3. /\ row.status = "queued" /\ row.results = run[r].results
        /\ row.report = run[r].report /\ row.block = run[r].block
    BY <1>1, <2>1 DEF Row
  <2>4. RowExact(row)
    BY <1>1, <2>2, <2>3 DEF RowExact
  <2> QED
    BY <1>1, <2>2, <2>3, <2>4, RequestExact
<1>3. CASE CancelRun(r)
  <2>1. CASE /\ run' = [run EXCEPT ![r] = [Stopped(@) EXCEPT !.cancel = TRUE]]
             /\ run[r].status = "queued" \/ run[r].block # "none"
             /\ run[r].status \in Active
    <3>1. PICK row : row = [Stopped(run[r]) EXCEPT !.cancel = TRUE]
      OBVIOUS
    <3>2. /\ row.status = "cancelled" /\ row.results = run[r].results
          /\ ~row.report /\ row.block = run[r].block
      BY <1>1, <3>1 DEF Row, Stopped
    <3>3. run[r].status \in {"queued", "semantic"}
      BY <1>1, <2>1, Stages DEF RowExact
    <3>4. RowExact(row)
      BY <1>1, <3>2 DEF RowExact
    <3> QED
      BY <1>1, <2>1, <3>1, <3>2, <3>3, <3>4, RequestExact
  <2>2. CASE run' = [run EXCEPT ![r].cancel = TRUE]
    <3>1. PICK row : row = [run[r] EXCEPT !.cancel = TRUE]
      OBVIOUS
    <3>2. /\ row.status = run[r].status /\ row.results = run[r].results
          /\ row.report = run[r].report /\ row.block = run[r].block
      BY <1>1, <3>1 DEF Row
    <3>3. RowExact(row)
      BY <1>1, <3>2 DEF RowExact
    <3> QED
      BY <1>1, <2>2, <3>1, <3>2, <3>3, RequestExact
  <2> QED
    BY <1>3, <2>1, <2>2 DEF CancelRun
<1>4. CASE QuotaReset(r)
  <2>1. PICK row : row = [run[r] EXCEPT !.block = "due"]
    OBVIOUS
  <2>2. run' = [run EXCEPT ![r] = row] /\ run[r].block = "waiting"
    BY <1>4, <2>1 DEF QuotaReset
  <2>3. /\ row.status = run[r].status /\ row.results = run[r].results
        /\ row.report = run[r].report
    BY <1>1, <2>1 DEF Row
  <2>4. RowExact(row)
    BY <1>1, <2>2, <2>3 DEF RowExact
  <2> QED
    BY <1>1, <2>2, <2>3, <2>4, RequestExact
<1> QED
  BY <1>2, <1>3, <1>4

LEMMA SoleInit == Init => SoleInv
<1> SUFFICES ASSUME Init PROVE SoleInv
  OBVIOUS
<1>1. \A d \in Drivers : At(d, "idle")
  BY DEF Init, At, NoTurn
<1>2. \A r \in Runs : RowExact(run[r])
  BY DEF Init, NewRow, RowExact
<1> QED
  BY <1>1, <1>2, InitInv DEF SoleInv, SoleDriver

LEMMA SoleNext ==
  ASSUME ~LiveExpiry PROVE SoleInv /\ [Next]_vars => SoleInv'
<1> SUFFICES ASSUME SoleInv, [Next]_vars PROVE SoleInv'
  OBVIOUS
<1>1. IInv'
  BY NextInv DEF SoleInv
<1>2. ASSUME NEW d \in Drivers, Step(d) PROVE SoleInv'
  <2>1. CASE \E r \in Runs : Admit(d, r)
    BY <1>1, <2>1, SoleSlot
  <2>2. CASE EndTurn(d)
    BY <1>1, <2>2, SoleSlot
  <2> QED
    BY <1>1, <1>2, <2>1, <2>2, SoleEnter, SoleMove, SolePublish, SoleLoad, SoleWork,
       SoleBoundary, SoleOutage, SoleAggregate, SoleFlush, SoleAdvance,
       SoleException, SoleBreak DEF Step
<1>3. CASE UNCHANGED vars
  BY <1>1, <1>3 DEF vars, SoleInv, SoleDriver, At, Owned
<1>4. CASE \E d \in Drivers : Crash(d)
  BY <1>1, <1>4, SoleSlot
<1>5. CASE Expire \/ ExpireLive
  BY <1>1, <1>5, SoleSlot
<1> QED
  BY <1>1, <1>2, <1>3, <1>4, <1>5, SoleRequest, SoleBreak DEF Next

-----------------------------------------------------------------------------
(* Runs that are never parked.                                             *)

UnparkedTurn(t, row) ==
  /\ t.pc # "block"
  /\ t.pc \notin {"idle", "enter", "ended"} =>
       \/ row.status = t.stage
       \/ row.status = "cancelled" /\ t.stage = "queued"

UnparkedRow(row) ==
  row.block = "none" /\ (row.status = "cancelled" => row.note)

LEMMA Unparked ==
  NeverParked <=> /\ \A r \in Runs : UnparkedRow(run[r])
                  /\ \A d \in Drivers : UnparkedTurn(turn[d], run[turn[d].job])
BY DEF NeverParked, UnparkedRow, UnparkedTurn

LEMMA UnparkedNext ==
  ASSUME \A r \in Runs : UnparkedRow(run'[r]),
         \A d \in Drivers : UnparkedTurn(turn'[d], run'[turn'[d].job])
  PROVE  NeverParked'
BY DEF NeverParked, UnparkedRow, UnparkedTurn

\* A step of a driver: the row of its run, and its turn.
LEMMA UnparkedStep ==
  ASSUME UnparkedInv, SoleInv', NEW d \in Drivers, ~At(d, "idle"),
         \A e \in Drivers \ {d} : turn'[e] = turn[e],
         turn'[d].job = turn[d].job,
         \A s \in Runs \ {turn[d].job} : run'[s] = run[s],
         UnparkedRow(run'[turn[d].job]),
         UnparkedTurn(turn'[d], run'[turn[d].job])
  PROVE  UnparkedInv'
<1>1. NeverParked /\ turn[d].job \in Runs /\ \A e \in Drivers \ {d} : At(e, "idle")
  BY Driving DEF UnparkedInv
<1>2. \A r \in Runs : UnparkedRow(run'[r])
  BY <1>1, Unparked
<1>3. \A e \in Drivers : UnparkedTurn(turn'[e], run'[turn'[e].job])
  BY <1>1 DEF UnparkedTurn, At
<1> QED
  BY <1>2, <1>3, UnparkedNext DEF UnparkedInv

LEMMA UnparkedDriving ==
  ASSUME UnparkedInv, NEW d \in Drivers, ~At(d, "idle")
  PROVE  /\ SoleInv /\ IInv
         /\ turn[d].job \in Runs /\ turn[d] \in Turn
         /\ run[turn[d].job] \in Row
         /\ turn \in [Drivers -> Turn] /\ run \in [Runs -> Row]
         /\ turn[d].stage \in StagesAt(turn[d].pc)
         /\ UnparkedRow(run[turn[d].job])
         /\ UnparkedTurn(turn[d], run[turn[d].job])
         /\ TurnExact(turn[d], run[turn[d].job])
<1>1. SoleInv /\ NeverParked
  BY DEF UnparkedInv
<1> QED
  BY <1>1, Driving, Unparked DEF IInv, TypeOK

\* The steps that move a turn without a status.
LEMMA UnparkedMove ==
  ASSUME UnparkedInv, SoleInv', DegradeOnQuota, NEW d \in Drivers,
         \/ Route(d) \/ Publish(d) \/ Load(d) \/ Aggregate(d)
         \/ (\E u \in Units : Work(d, u) \/ Degrade(d, u))
         \/ QuotaExhausted(d) \/ AIUnavailable(d) \/ Flush(d)
  PROVE  UnparkedInv'
<1>1. ~At(d, "idle") /\ turn[d].pc \notin {"idle", "enter", "ended"}
  BY DEF Route, Publish, Load, Aggregate, Work, Degrade, QuotaExhausted,
     AIUnavailable, Flush, At
<1>2. /\ IInv /\ turn[d].job \in Runs /\ run[turn[d].job] \in Row
      /\ turn[d] \in Turn /\ turn[d].stage \in StagesAt(turn[d].pc)
      /\ turn \in [Drivers -> Turn] /\ run \in [Runs -> Row]
      /\ UnparkedRow(run[turn[d].job])
      /\ UnparkedTurn(turn[d], run[turn[d].job])
  BY <1>1, UnparkedDriving
<1>3. PICK r \in Runs : r = turn[d].job
  BY <1>2
<1>4. /\ turn'[d].pc \notin {"block"}
      /\ turn'[d].job = r /\ turn'[d].stage = turn[d].stage
      /\ \A e \in Drivers \ {d} : turn'[e] = turn[e]
  <2>1. CASE \E p : p # "block" /\ Goto(d, p)
    BY <1>2, <1>3, <2>1, Went
  <2>2. CASE \E p, todo : /\ p # "block"
                         /\ turn' = [turn EXCEPT ![d].todo = todo, ![d].pc = p]
    BY <1>2, <1>3, <2>2 DEF Turn
  <2>3. CASE Route(d)
    BY <2>1, <2>3 DEF Route
  <2>4. CASE Load(d)
    BY <2>2, <2>4 DEF Load, Resume
  <2>5. CASE \E u \in Units : Work(d, u)
    <3>1. turn[d].stage \in {"structural", "semantic", "integrity"}
      BY <1>2, <2>5, Stages DEF StagesAt, Work, At
    <3> QED
      BY <2>2, <2>5, <3>1 DEF Work
  <2>6. CASE \E u \in Units : Degrade(d, u)
    <3>1. PICK u \in Units : Degrade(d, u)
      BY <2>6
    <3>2. PICK left : left = turn[d].todo \ {u}
      OBVIOUS
    <3>3. PICK p : p = IF left = {} THEN "flush" ELSE "degrade"
      OBVIOUS
    <3>4. turn' = [turn EXCEPT ![d].todo = left, ![d].pc = p] /\ p # "block"
      BY <3>1, <3>2, <3>3 DEF Degrade
    <3> QED
      BY <2>2, <3>4
  <2>7. CASE QuotaExhausted(d)
    BY <2>2, <2>7 DEF QuotaExhausted
  <2>8. CASE Flush(d)
    BY <1>2, <1>3, <2>8 DEF Flush, Turn
  <2> QED
    BY <2>1, <2>3, <2>4, <2>5, <2>6, <2>7, <2>8 DEF Publish, Aggregate, AIUnavailable
<1>5. /\ \A s \in Runs \ {r} : run'[s] = run[s]
      /\ run'[r].status = run[r].status
      /\ run'[r].block = run[r].block \/ run'[r].block = "none"
      /\ run'[r].note = run[r].note \/ turn[d].stage # "queued"
  <2>1. CASE run' = run
    BY <2>1
  <2>2. CASE Publish(d)
    <3>1. PICK row : row = Routed(run[r])
      OBVIOUS
    <3>2. run' = [run EXCEPT ![r] = row]
      BY <1>3, <2>2, <3>1 DEF Publish
    <3>3. row.status = run[r].status /\ row.block = run[r].block /\ row.note = run[r].note
      BY <1>2, <1>3, <3>1 DEF Routed, Row
    <3> QED
      BY <1>2, <3>2, <3>3
  <2>3. CASE \E u \in Units : Commit1(d, u)
    <3>1. PICK u \in Units : Commit1(d, u)
      BY <2>3
    <3>2. PICK row : row = [run[r] EXCEPT !.results[u] = @ + 1]
      OBVIOUS
    <3>3. run' = [run EXCEPT ![r] = row]
      BY <1>2, <1>3, <3>1, <3>2 DEF Commit1
    <3>4. row.status = run[r].status /\ row.block = run[r].block /\ row.note = run[r].note
      BY <1>2, <1>3, <3>2 DEF Row
    <3> QED
      BY <1>2, <3>3, <3>4
  <2>4. CASE Aggregate(d)
    <3>1. PICK row : row = [run[r] EXCEPT !.report = TRUE]
      OBVIOUS
    <3>2. run' = [run EXCEPT ![r] = row]
      BY <1>2, <1>3, <2>4, <3>1 DEF Aggregate
    <3>3. row.status = run[r].status /\ row.block = run[r].block /\ row.note = run[r].note
      BY <1>2, <1>3, <3>1 DEF Row
    <3> QED
      BY <1>2, <3>2, <3>3
  <2>5. CASE Flush(d)
    <3>1. PICK row : row = IF turn[d].stage = "queued" THEN run[r]
                           ELSE [run[r] EXCEPT !.block = "none", !.note = FALSE]
      OBVIOUS
    <3>2. PICK stored : stored = [row EXCEPT !.results = [u \in Units |->
                           IF u \in turn[d].unsaved THEN @[u] + 1 ELSE @[u]]]
      OBVIOUS
    <3>3. run' = [run EXCEPT ![r] = stored]
      BY SMTT(30), <1>3, <2>5, <3>1, <3>2 DEF Flush
    <3>4. /\ row.status = run[r].status
          /\ row.block = run[r].block \/ row.block = "none"
          /\ row.note = run[r].note \/ turn[d].stage # "queued"
          /\ row \in Row
      BY <1>2, <1>3, <3>1 DEF Row
    <3>5. stored.status = row.status /\ stored.block = row.block
          /\ stored.note = row.note
      BY <3>2, <3>4 DEF Row
    <3> QED
      BY <1>2, <1>3, <2>5, <3>3, <3>4, <3>5
  <2> QED
    BY <2>1, <2>2, <2>3, <2>4, <2>5
    DEF Route, Load, Work, Degrade, QuotaExhausted, AIUnavailable
<1>6. UnparkedTurn(turn'[d], run'[r])
  BY <1>1, <1>2, <1>3, <1>4, <1>5 DEF UnparkedTurn
<1>7. UnparkedRow(run'[r])
  <2>1. turn[d].stage # "queued" => run[r].status \in Active \union {"done", "none"}
    BY <1>1, <1>2, <1>3, Stages DEF UnparkedTurn, StagesAt
  <2> QED
    BY <1>2, <1>3, <1>5, <2>1, Stages DEF UnparkedRow
<1> QED
  BY <1>1, <1>3, <1>4, <1>5, <1>6, <1>7, UnparkedStep

\* The steps that may finalise a cancellation, and the ends of a turn.
LEMMA UnparkedStop ==
  ASSUME UnparkedInv, SoleInv', NEW d \in Drivers,
         \/ Enter(d) \/ Boundary(d) \/ Recheck(d) \/ Outage(d) \/ Advance(d)
         \/ Fail(d) \/ Block(d)
  PROVE  UnparkedInv'
<1>1. ~At(d, "idle") /\ turn[d].pc \notin {"idle", "ended"} /\ Owned(d)
  BY DEF Enter, Boundary, Recheck, Outage, Advance, Fail, Block, ExceptionExit,
     FinishCancel, At
<1>2. /\ IInv /\ turn[d].job \in Runs /\ run[turn[d].job] \in Row
      /\ turn[d] \in Turn /\ turn[d].stage \in StagesAt(turn[d].pc)
      /\ turn \in [Drivers -> Turn] /\ run \in [Runs -> Row]
      /\ UnparkedRow(run[turn[d].job])
      /\ UnparkedTurn(turn[d], run[turn[d].job])
  BY <1>1, UnparkedDriving
<1>3. PICK r \in Runs : r = turn[d].job
  BY <1>2
<1>4. CASE Goto(d, "ended")
            /\ (run' = run \/ run' = [run EXCEPT ![r] = Stopped(@)])
  <2>1. /\ turn'[d].job = r /\ turn'[d].pc = "ended"
        /\ \A e \in Drivers \ {d} : turn'[e] = turn[e]
    BY <1>2, <1>3, <1>4, Went
  <2>2. /\ \A s \in Runs \ {r} : run'[s] = run[s]
        /\ run'[r] = run[r] \/ run'[r] = Stopped(run[r])
    BY <1>2, <1>4
  <2>3. UnparkedRow(run'[r])
    BY <1>2, <1>3, <2>2 DEF UnparkedRow, Stopped, Row
  <2>4. UnparkedTurn(turn'[d], run'[r])
    BY <2>1 DEF UnparkedTurn
  <2> QED
    BY <1>1, <1>3, <2>1, <2>2, <2>3, <2>4, UnparkedStep
<1>5. CASE /\ run' = run /\ turn[d].pc # "enter"
           /\ \E p : /\ turn'[d].pc = p /\ p # "block"
                    /\ turn'[d].job = r /\ turn'[d].stage = turn[d].stage
                    /\ \A e \in Drivers \ {d} : turn'[e] = turn[e]
  <2>1. UnparkedTurn(turn'[d], run[r])
    BY <1>1, <1>2, <1>3, <1>5 DEF UnparkedTurn
  <2> QED
    BY <1>1, <1>2, <1>3, <1>5, <2>1, UnparkedStep
<1>6. CASE Enter(d)
  <2>1. CASE run[r].status # "cancelled" /\ run' = run
             /\ \E p : turn' = [turn EXCEPT ![d].pc = p, ![d].stage = run[r].status]
                      /\ p # "block"
    <3>1. PICK p : turn' = [turn EXCEPT ![d].pc = p, ![d].stage = run[r].status]
                   /\ p # "block"
      BY <2>1
    <3>2. /\ turn'[d].job = r /\ turn'[d].stage = run[r].status /\ turn'[d].pc = p
          /\ \A e \in Drivers \ {d} : turn'[e] = turn[e]
      BY <1>2, <1>3, <3>1 DEF Turn
    <3>3. UnparkedTurn(turn'[d], run[r])
      BY <3>1, <3>2 DEF UnparkedTurn
    <3> QED
      BY <1>1, <1>2, <1>3, <2>1, <3>2, <3>3, UnparkedStep
  <2>2. run[r].status # "cancelled" =>
          LET p == IF run[r].status \in {"semantic", "integrity", "aggregating"}
                   THEN "route" ELSE Begin(run[r].status) IN p # "block"
    <3>1. run[r].status \in Active \union {"cancelled"}
      BY <1>1, <1>2, <1>3 DEF IInv, DrivesLiveRun
    <3> QED
      BY <3>1, Stages DEF Begin
  <2> QED
    BY <1>3, <1>4, <1>6, <2>1, <2>2 DEF Enter, FinishCancel
<1>7. CASE Boundary(d) \/ Recheck(d)
  <2>1. CASE \E p : Goto(d, p) /\ p # "block" /\ run' = run /\ turn[d].pc # "enter"
    BY <1>2, <1>3, <1>5, <2>1, Went
  <2> QED
    BY <1>3, <1>4, <1>7, <2>1 DEF Boundary, Recheck, FinishCancel, At
<1>8. CASE Outage(d)
  <2>1. CASE /\ turn' = [turn EXCEPT ![d].todo = {}, ![d].pc = "flush",
                          ![d].unsaved = Missing(r, "semantic")]
             /\ run' = run
    <3>1. turn[d].pc # "enter"
      BY <1>8 DEF Outage, At
    <3> QED
      BY <1>2, <1>3, <1>5, <2>1, <3>1 DEF Turn
  <2> QED
    BY <1>3, <1>4, <1>8, <2>1 DEF Outage, FinishCancel
<1>9. CASE Advance(d)
  <2>1. PICK next : next = StageAfter[turn[d].stage]
    OBVIOUS
  <2>2. CASE /\ run' = [run EXCEPT ![r].status = next]
             /\ turn' = [turn EXCEPT ![d].pc = Begin(next), ![d].stage = next]
    <3>1. turn[d].stage \in Active
      BY <1>2, <1>9 DEF Advance, At, StagesAt
    <3>2. next \in Active \union {"done"} /\ Begin(next) # "block"
      BY <2>1, <3>1, Stages DEF Begin
    <3>3. PICK row : row = [run[r] EXCEPT !.status = next]
      OBVIOUS
    <3>4. row.status = next /\ row.block = run[r].block
      BY <1>2, <1>3, <3>3 DEF Row
    <3>5. run'[r] = row /\ \A s \in Runs \ {r} : run'[s] = run[s]
      BY <1>2, <1>3, <2>2, <3>3
    <3>6. UnparkedRow(row)
      BY <1>2, <1>3, <3>2, <3>4, Stages DEF UnparkedRow
    <3>7. /\ turn'[d].job = r /\ turn'[d].stage = next /\ turn'[d].pc = Begin(next)
          /\ \A e \in Drivers \ {d} : turn'[e] = turn[e]
      BY <1>2, <1>3, <2>2 DEF Turn
    <3>8. UnparkedTurn(turn'[d], row)
      BY <3>2, <3>4, <3>7 DEF UnparkedTurn
    <3> QED
      BY <1>1, <1>3, <3>5, <3>6, <3>7, <3>8, UnparkedStep
  <2> QED
    BY <1>3, <1>4, <1>9, <2>1, <2>2 DEF Advance, FinishCancel
<1>10. CASE Fail(d)
  <2>1. CASE /\ run' = [run EXCEPT ![r] = [run[r] EXCEPT !.status = "failed"]]
             /\ Goto(d, "ended")
    <3>1. PICK row : row = [run[r] EXCEPT !.status = "failed"]
      OBVIOUS
    <3>2. row.status = "failed" /\ row.block = run[r].block
      BY <1>2, <1>3, <3>1 DEF Row
    <3>3. run'[r] = row /\ \A s \in Runs \ {r} : run'[s] = run[s]
      BY <1>2, <1>3, <2>1, <3>1
    <3>4. UnparkedRow(row)
      BY <1>2, <1>3, <3>2 DEF UnparkedRow
    <3>5. /\ turn'[d].job = r /\ turn'[d].pc = "ended"
          /\ \A e \in Drivers \ {d} : turn'[e] = turn[e]
      BY <1>2, <1>3, <2>1, Went
    <3>6. UnparkedTurn(turn'[d], row)
      BY <3>5 DEF UnparkedTurn
    <3> QED
      BY <1>1, <1>3, <3>3, <3>4, <3>5, <3>6, UnparkedStep
  <2> QED
    BY <1>3, <1>4, <1>10, <2>1 DEF Fail, ExceptionExit, FinishCancel
<1>11. CASE Block(d)
  BY <1>2, <1>11 DEF Block, At, UnparkedTurn
<1> QED
  BY <1>6, <1>7, <1>8, <1>9, <1>10, <1>11

\* The other ends of a turn, and requests.
LEMMA UnparkedBreak ==
  ASSUME UnparkedInv, SoleInv', NEW d \in Drivers,
         Raise(d) \/ LoseClaim(d) \/ YieldTurn(d)
  PROVE  UnparkedInv'
<1>1. /\ ~At(d, "idle") /\ run' = run
      /\ turn' = [turn EXCEPT ![d].pc = "ended", ![d].unsaved = {}]
         \/ /\ turn' = [turn EXCEPT ![d].pc = "fail", ![d].unsaved = {}]
            /\ turn[d].pc \notin {"idle", "enter", "ended"}
  BY DEF Raise, LoseClaim, YieldTurn, FencedPoints, At
<1>2. /\ turn[d].job \in Runs /\ UnparkedRow(run[turn[d].job])
      /\ UnparkedTurn(turn[d], run[turn[d].job]) /\ turn \in [Drivers -> Turn]
  BY <1>1, UnparkedDriving
<1>3. /\ \A e \in Drivers \ {d} : turn'[e] = turn[e]
      /\ turn'[d].job = turn[d].job /\ turn'[d].stage = turn[d].stage
      /\ \/ turn'[d].pc = "ended"
         \/ turn'[d].pc = "fail" /\ turn[d].pc \notin {"idle", "enter", "ended"}
  BY <1>1, <1>2 DEF Turn
<1>4. UnparkedTurn(turn'[d], run[turn[d].job])
  BY <1>2, <1>3 DEF UnparkedTurn
<1> QED
  BY <1>1, <1>2, <1>3, <1>4, UnparkedStep

\* A turn that ends, begins or is left alone presumes nothing of a run.
LEMMA UnparkedSlot ==
  ASSUME UnparkedInv, SoleInv', run' = run,
         \A d \in Drivers : turn'[d] = turn[d] \/ turn'[d].pc \in {"idle", "enter"}
  PROVE  UnparkedInv'
<1>1. NeverParked
  BY DEF UnparkedInv
<1>2. \A d \in Drivers : UnparkedTurn(turn'[d], run'[turn'[d].job])
  BY <1>1, Unparked DEF UnparkedTurn
<1>3. \A r \in Runs : UnparkedRow(run'[r])
  BY <1>1, Unparked
<1> QED
  BY <1>2, <1>3, UnparkedNext DEF UnparkedInv

LEMMA UnparkedRequest ==
  ASSUME UnparkedInv, SoleInv', NEW r \in Runs,
         CreateRun(r) \/ CancelRun(r) \/ QuotaReset(r)
  PROVE  UnparkedInv'
<1>1. /\ IInv /\ NeverParked /\ run \in [Runs -> Row] /\ run[r] \in Row
      /\ turn' = turn /\ UnparkedRow(run[r])
  BY Unparked DEF UnparkedInv, SoleInv, IInv, TypeOK, CreateRun, CancelRun, QuotaReset
<1>2. /\ \A s \in Runs \ {r} : run'[s] = run[s]
      /\ UnparkedRow(run'[r])
      /\ \/ run'[r].status = run[r].status
         \/ run[r].status = "queued" /\ run'[r].status = "cancelled"
         \/ run[r].status = "absent"
  <2>1. CASE CreateRun(r)
    BY <1>1, <2>1 DEF CreateRun, UnparkedRow, Row
  <2>2. CASE CancelRun(r)
    <3>1. CASE /\ run' = [run EXCEPT ![r] = [Stopped(@) EXCEPT !.cancel = TRUE]]
               /\ run[r].status = "queued" \/ run[r].block # "none"
      BY <1>1, <3>1 DEF UnparkedRow, Row, Stopped
    <3>2. CASE run' = [run EXCEPT ![r].cancel = TRUE]
      BY <1>1, <3>2 DEF UnparkedRow, Row
    <3> QED
      BY <2>2, <3>1, <3>2 DEF CancelRun
  <2>3. CASE QuotaReset(r)
    BY <1>1, <2>3 DEF QuotaReset, UnparkedRow
  <2> QED
    BY <2>1, <2>2, <2>3
<1>3. ASSUME NEW d \in Drivers PROVE UnparkedTurn(turn'[d], run'[turn'[d].job])
  <2>1. UnparkedTurn(turn[d], run[turn[d].job]) /\ TurnInOrder(d)
    BY <1>1, Unparked DEF IInv
  <2>2. CASE turn[d].pc \in {"idle", "enter", "ended"}
    BY <1>1, <2>2 DEF UnparkedTurn
  <2>3. CASE turn[d].pc \notin {"idle", "enter", "ended"}
    <3>1. turn[d].job \in Runs /\ turn[d].stage \in Active
      BY <2>1, <2>3, Stages DEF TurnInOrder, StagesAt, At
    <3>2. CASE turn[d].job # r
      BY <1>1, <1>2, <2>1, <3>1, <3>2
    <3>3. CASE turn[d].job = r
      BY <1>1, <1>2, <2>1, <2>3, <3>1, <3>3, Stages DEF UnparkedTurn
    <3> QED
      BY <3>2, <3>3
  <2> QED
    BY <2>2, <2>3
<1>4. \A s \in Runs : UnparkedRow(run'[s])
  BY <1>1, <1>2, Unparked
<1> QED
  BY <1>3, <1>4, UnparkedNext DEF UnparkedInv

LEMMA UnparkedInit == Init => UnparkedInv
BY SoleInit DEF Init, UnparkedInv, NeverParked, NewRow, NoTurn

LEMMA UnparkedAll ==
  ASSUME ~LiveExpiry, DegradeOnQuota PROVE UnparkedInv /\ [Next]_vars => UnparkedInv'
<1> SUFFICES ASSUME UnparkedInv, [Next]_vars PROVE UnparkedInv'
  OBVIOUS
<1>1. SoleInv' /\ turn \in [Drivers -> Turn]
  BY SoleNext DEF UnparkedInv, SoleInv, IInv, TypeOK
<1>2. ASSUME NEW d \in Drivers, Step(d) PROVE UnparkedInv'
  <2>1. CASE (\E r \in Runs : Admit(d, r)) \/ EndTurn(d)
    <3>1. CASE EndTurn(d)
      BY <1>1, <3>1, UnparkedSlot DEF EndTurn, NoTurn
    <3>2. ASSUME NEW r \in Runs, Admit(d, r) PROVE UnparkedInv'
      BY <1>1, <3>2, UnparkedSlot DEF Admit, NoTurn
    <3> QED
      BY <2>1, <3>1, <3>2
  <2> QED
    BY <1>1, <1>2, <2>1, UnparkedMove, UnparkedStop, UnparkedBreak DEF Step
<1>3. CASE UNCHANGED vars
  BY <1>1, <1>3, UnparkedSlot DEF vars
<1>4. CASE (\E d \in Drivers : Crash(d)) \/ Expire \/ ExpireLive
  BY <1>1, <1>4, UnparkedSlot DEF Crash, Expire, ExpireLive, NoTurn
<1> QED
  BY <1>1, <1>2, <1>3, <1>4, UnparkedRequest, UnparkedBreak DEF Next

-----------------------------------------------------------------------------
(* What follows for every run.                                             *)

THEOREM SoleInductive == ASSUME ~LiveExpiry PROVE Spec => []SoleInv
<1>1. Init => SoleInv
  BY SoleInit
<1>2. SoleInv /\ [Next]_vars => SoleInv'
  BY SoleNext
<1> QED
  BY <1>1, <1>2, PTL DEF Spec

\* While no claim expires under a live driver, no unit is settled twice:
\* whatever crashes, yields, boundaries and resumptions there are, a resumed
\* run repeats no completed work (machine.py).
THEOREM OnceSettled == ASSUME ~LiveExpiry PROVE Spec => []SettledOnce
<1>1. SoleInv => SettledOnce
  BY DEF SoleInv, RowExact, SettledOnce
<1> QED
  BY <1>1, SoleInductive, PTL

\* While no claim expires under a live driver, a cancelled run has no readiness
\* report, even if it was cancelled during the aggregation
\* (_finish_cancel_if_requested).
THEOREM NoCancelledReport == ASSUME ~LiveExpiry PROVE Spec => []CancelledHasNoReport
<1>1. SoleInv => CancelledHasNoReport
  BY DEF SoleInv, RowExact, CancelledHasNoReport
<1> QED
  BY <1>1, SoleInductive, PTL

THEOREM UnparkedInductive ==
  ASSUME ~LiveExpiry, DegradeOnQuota PROVE Spec => []UnparkedInv
<1>1. Init => UnparkedInv
  BY UnparkedInit
<1>2. UnparkedInv /\ [Next]_vars => UnparkedInv'
  BY UnparkedAll
<1> QED
  BY <1>1, <1>2, PTL DEF Spec

\* With the shipped pipeline_degrade_on_quota, and no claim expiring under a
\* live driver, the note of where a cancelled run stopped is never erased.
THEOREM CancelledNoted ==
  ASSUME ~LiveExpiry, DegradeOnQuota PROVE Spec => []CancelledSaysWhere
<1>1. UnparkedInv => CancelledSaysWhere
  BY DEF UnparkedInv, NeverParked, CancelledSaysWhere
<1> QED
  BY <1>1, UnparkedInductive, PTL

Untouched(r) ==
  run[r].status \in Terminal =>
    /\ run'[r].results = run[r].results
    /\ run'[r].plan = run[r].plan
    /\ run'[r].report = run[r].report

\* What the stages commit is committed for an active run.
LEMMA CommitsToActive ==
  ASSUME UnparkedInv, NEW d \in Drivers,
         \/ turn[d].pc \in {"publish", "aggregate"}
         \/ turn[d].pc \in {"work", "degrade"} /\ turn[d].todo # {}
         \/ turn[d].pc = "flush" /\ turn[d].unsaved # {}
  PROVE  run[turn[d].job].status \in Active
<1>1. ~At(d, "idle")
  BY DEF At
<1>2. /\ UnparkedTurn(turn[d], run[turn[d].job])
      /\ TurnExact(turn[d], run[turn[d].job])
      /\ turn[d].stage \in StagesAt(turn[d].pc)
  BY <1>1, UnparkedDriving
<1>3. turn[d].stage \in Active
  BY <1>2, Stages DEF StagesAt
<1>4. ASSUME turn[d].stage = "queued" PROVE FALSE
  <2>1. turn[d].pc = "degrade"
    BY <1>2, <1>4 DEF TurnExact, StagesAt
  <2>2. Owing(run[turn[d].job], "queued") = {}
    BY StageOfAssumption DEF Owing
  <2> QED
    BY <1>2, <1>4, <2>1, <2>2 DEF TurnExact
<1> QED
  BY <1>2, <1>3, <1>4 DEF UnparkedTurn

LEMMA RowUntouched ==
  ASSUME IInv, NEW s, NEW row, run' = [run EXCEPT ![s] = row],
         s \in Runs /\ run[s].status \in Terminal =>
           /\ row.results = run[s].results
           /\ row.plan = run[s].plan
           /\ row.report = run[s].report
  PROVE  \A r \in Runs : Untouched(r)
BY DEF IInv, TypeOK, Untouched

LEMMA NextUntouched ==
  ASSUME UnparkedInv, Next PROVE \A r \in Runs : Untouched(r)
<1>1. IInv /\ run \in [Runs -> Row] /\ turn \in [Drivers -> Turn]
  BY DEF UnparkedInv, SoleInv, IInv, TypeOK
<1>2. CASE run' = run
  BY <1>2 DEF Untouched
<1>3. ASSUME NEW s, NEW row, run' = [run EXCEPT ![s] = row],
             s \in Runs => run[s].status \in Active \union {"absent"}
      PROVE  \A r \in Runs : Untouched(r)
  <2>1. "absent" \notin Terminal /\ \A st \in Active : st \notin Terminal
    BY Stages DEF Terminal
  <2> QED
    BY <1>1, <1>3, <2>1, RowUntouched
<1>4. ASSUME NEW d \in Drivers,
             \/ Publish(d) \/ Aggregate(d)
             \/ \E u \in Units : Work(d, u) \/ Degrade(d, u)
      PROVE  \A r \in Runs : Untouched(r)
  <2>1. run[turn[d].job].status \in Active
    BY <1>4, CommitsToActive DEF Publish, Aggregate, Work, Degrade, At
  <2>2. \E row : run' = [run EXCEPT ![turn[d].job] = row]
    <3>1. CASE Publish(d)
      BY <3>1 DEF Publish
    <3>2. CASE Aggregate(d)
      BY <3>2 DEF Aggregate
    <3>3. ASSUME NEW u \in Units, Work(d, u) \/ Degrade(d, u)
          PROVE  \E row : run' = [run EXCEPT ![turn[d].job] = row]
      BY <3>3 DEF Work, Degrade, Commit1
    <3> QED
      BY <1>4, <3>1, <3>2, <3>3
  <2> QED
    BY <1>3, <2>1, <2>2
<1>5. ASSUME NEW d \in Drivers, Flush(d) PROVE \A r \in Runs : Untouched(r)
  <2>1. turn[d].job \in Runs /\ turn[d].pc = "flush" /\ turn[d].unsaved \subseteq Units
    BY <1>1, <1>5 DEF IInv, TurnInOrder, Flush, At, Turn
  <2>2. PICK recorded : recorded = IF turn[d].stage = "queued" THEN run[turn[d].job]
                   ELSE [run[turn[d].job] EXCEPT !.block = "none", !.note = FALSE]
    OBVIOUS
  <2>3. PICK row : row = [recorded EXCEPT !.results = [u \in Units |->
                            IF u \in turn[d].unsaved THEN @[u] + 1 ELSE @[u]]]
    OBVIOUS
  <2>4. run' = [run EXCEPT ![turn[d].job] = row]
    BY <1>5, <2>2, <2>3 DEF Flush
  <2>5. recorded \in Row /\ recorded.plan = run[turn[d].job].plan
        /\ recorded.report = run[turn[d].job].report
        /\ recorded.results = run[turn[d].job].results
    <3>1. run[turn[d].job] \in Row
      BY <1>1, <2>1
    <3> QED BY <2>2, <3>1 DEF Row
  <2>6. row.plan = recorded.plan /\ row.report = recorded.report
    BY <2>3, <2>5 DEF Row
  <2>7. turn[d].unsaved = {} => row.results = recorded.results
    BY <2>3, <2>5 DEF Row
  <2>8. CASE turn[d].unsaved = {}
    BY <1>1, <2>4, <2>5, <2>6, <2>7, <2>8, RowUntouched
  <2>9. CASE turn[d].unsaved # {}
    BY <1>3, <2>1, <2>4, <2>9, CommitsToActive
  <2> QED
    BY <2>8, <2>9
<1>6. ASSUME NEW d \in Drivers,
             \/ Enter(d) \/ Boundary(d) \/ Recheck(d) \/ Outage(d) \/ Advance(d)
             \/ Fail(d) \/ Block(d)
      PROVE  \A r \in Runs : Untouched(r)
  <2>1. turn[d].job \in Runs /\ CancelMeansStop(turn[d].job)
    BY <1>1, <1>6 DEF IInv, TurnInOrder, Enter, Boundary, Recheck, Outage, Advance,
       Fail, Block, At
  <2>2. CASE /\ run[turn[d].job].status # "cancelled" /\ run[turn[d].job].cancel
             /\ \E row : run' = [run EXCEPT ![turn[d].job] = row]
    BY <1>3, <2>1, <2>2 DEF CancelMeansStop
  <2>3. CASE /\ run[turn[d].job].status \in Active
             /\ \E row : run' = [run EXCEPT ![turn[d].job] = row]
    BY <1>3, <2>3
  <2>4. CASE \E other : FinishCancel(d, other)
    BY <1>2, <2>2, <2>4 DEF FinishCancel
  <2>5. CASE Advance(d)
    <3>1. turn[d].stage \in Active
      BY <1>1, <2>5 DEF Advance, At, IInv, TurnInOrder, StagesAt
    <3> QED
      BY <2>3, <2>4, <2>5, <3>1 DEF Advance
  <2>6. CASE Fail(d) \/ Block(d)
    BY <2>3, <2>4, <2>6 DEF Fail, Block, ExceptionExit
  <2> QED
    BY <1>6, <2>4, <2>5, <2>6 DEF Enter, Boundary, Recheck, Outage
<1>7. ASSUME NEW r \in Runs, CreateRun(r) \/ CancelRun(r) \/ QuotaReset(r)
      PROVE  \A s \in Runs : Untouched(s)
  <2>1. CASE CreateRun(r)
    BY <1>3, <2>1 DEF CreateRun
  <2>2. CASE CancelRun(r)
    BY <1>3, <2>2 DEF CancelRun
  <2>3. CASE QuotaReset(r)
    <3>1. PICK row : row = [run[r] EXCEPT !.block = "due"]
      OBVIOUS
    <3>2. row.results = run[r].results /\ row.plan = run[r].plan
          /\ row.report = run[r].report
      BY <1>1, <3>1 DEF Row
    <3>3. run' = [run EXCEPT ![r] = row]
      BY <2>3, <3>1 DEF QuotaReset
    <3> QED
      BY <1>1, <3>2, <3>3, RowUntouched
  <2> QED
    BY <1>7, <2>1, <2>2, <2>3
<1>8. ASSUME NEW d \in Drivers, Step(d) PROVE \A r \in Runs : Untouched(r)
  BY <1>2, <1>4, <1>5, <1>6, <1>8 DEF Step, Admit, Route, Load, QuotaExhausted,
     AIUnavailable, Raise, LoseClaim, EndTurn
<1> QED
  BY <1>2, <1>7, <1>8 DEF Next, YieldTurn, Crash, Expire, ExpireLive

\* With the shipped pipeline_degrade_on_quota, and no claim expiring under a
\* live driver, nothing is written for a run that has ended, although the
\* commits of the stages test neither ownership nor status.
THEOREM EndedUntouched ==
  ASSUME ~LiveExpiry, DegradeOnQuota PROVE Spec => EndedRunUntouched
<1>1. UnparkedInv /\ [Next]_vars => [\A r \in Runs : Untouched(r)]_vars
  BY NextUntouched
<1>2. (\A r \in Runs : Untouched(r)) <=>
        \A r \in Runs : run[r].status \in Terminal =>
          /\ run'[r].results = run[r].results
          /\ run'[r].plan = run[r].plan
          /\ run'[r].report = run[r].report
  BY DEF Untouched
<1> QED
  BY <1>1, <1>2, UnparkedInductive, PTL DEF Spec, EndedRunUntouched

KeptInArchive(r) ==
  run[r].status = "done" /\ Subject[r].manuscript \in corpus =>
    Subject[r].manuscript \in corpus'

\* An orphan has no other run, and has not itself finished.
LEMMA WithdrawKeeps ==
  ASSUME NEW r \in Runs, Withdraw(r) PROVE \A s \in Runs : KeptInArchive(s)
<1> SUFFICES ASSUME NEW s \in Runs PROVE KeptInArchive(s)
  OBVIOUS
<1>1. CASE Orphan(r)
  BY <1>1 DEF Withdraw, Orphan, KeptInArchive
<1>2. CASE ~Orphan(r)
  BY <1>2 DEF Withdraw, KeptInArchive
<1> QED
  BY <1>1, <1>2

\* However cancellations race with the drivers, what a finished check left in
\* the originality archive stays there (withdraw_manuscript_if_orphaned).
THEOREM ArchiveKept == Spec => FinishedKeepsArchive
<1>1. ASSUME IInv, [Next]_vars, ~UNCHANGED vars PROVE \A s \in Runs : KeptInArchive(s)
  <2>1. CASE corpus' = corpus
    BY <2>1 DEF KeptInArchive
  <2>2. ASSUME NEW d \in Drivers, NEW other, FinishCancel(d, other), ~At(d, "idle")
        PROVE \A s \in Runs : KeptInArchive(s)
    <3>1. turn[d].job \in Runs
      BY <1>1, <2>2 DEF IInv, TurnInOrder
    <3> QED
      BY <2>1, <2>2, <3>1, WithdrawKeeps DEF FinishCancel
  <2>3. ASSUME NEW r \in Runs, CancelRun(r) PROVE \A s \in Runs : KeptInArchive(s)
    BY <2>1, <2>3, WithdrawKeeps DEF CancelRun
  <2>4. ASSUME NEW d \in Drivers, Step(d) PROVE \A s \in Runs : KeptInArchive(s)
    <3>1. CASE Enter(d) \/ Boundary(d) \/ Recheck(d) \/ Outage(d)
      BY <2>2, <3>1 DEF Enter, Boundary, Recheck, Outage, At
    <3>2. CASE Advance(d) \/ Fail(d) \/ Block(d)
      BY <2>1, <2>2, <3>2 DEF Advance, Fail, Block, ExceptionExit, At
    <3> QED
      BY <2>1, <2>4, <3>1, <3>2 DEF Step, Admit, Route, Publish, Load, Work, Degrade,
         QuotaExhausted, AIUnavailable, Aggregate, Flush, Raise, LoseClaim, EndTurn
  <2> QED
    BY <1>1, <2>1, <2>3, <2>4 DEF Next, CreateRun, QuotaReset, YieldTurn, Crash,
       Expire, ExpireLive
<1>2. IInv /\ [Next]_vars => [\A r \in Runs : KeptInArchive(r)]_vars
  BY <1>1
<1>3. Spec => [][\A r \in Runs : KeptInArchive(r)]_vars
  BY <1>2, Inductive, PTL DEF Spec
<1> QED
  BY <1>3, PTL DEF FinishedKeepsArchive, KeptInArchive
=============================================================================
