------------------------ MODULE UploadAttempts_proofs -------------------------
(***************************************************************************)
(* Safety of the upload attempts, for any attempts, workers, limits and    *)
(* numbers of crashes and stalls.  The inductive invariant says whose      *)
(* hands an attempt is in, and what its worker may take for granted of its *)
(* record and its check while the lease is held.                           *)
(***************************************************************************)
EXTENDS UploadAttempts, FiniteSetTheorems, TLAPS

USE SubsetsAssumption, NamesAssumption, BoundsAssumption

LEMMA InitInv == Init => IInv
  <1> SUFFICES ASSUME Init PROVE IInv
    OBVIOUS
  <1>1. TypeOK
    BY DEF Init, TypeOK, Active, Answered, Busy, Outcomes, Working, Ending
  <1>2. ASSUME NEW w \in Workers PROVE WorkerInv(w)
    BY DEF Init, WorkerInv
  <1>3. ASSUME NEW a \in Attempts PROVE RowInv(a)
    BY DEF Init, RowInv
  <1> QED BY <1>1, <1>2, <1>3 DEF IInv

-----------------------------------------------------------------------------
(* What a step leaves alone.                                               *)

SameRow(a) ==
  /\ status'[a] = status[a] /\ owner'[a] = owner[a] /\ record'[a] = record[a]
  /\ started'[a] = started[a] /\ said'[a] = said[a]

SameWorker(w) == at'[w] = at[w] /\ on'[w] = on[w] /\ outcome'[w] = outcome[w]

\* A row that stays as it was, and a worker that stays on such a row, keep
\* their parts of the invariant.
LEMMA RowKept ==
  ASSUME NEW a \in Attempts, RowInv(a), SameRow(a)
  PROVE  RowInv(a)'
  BY DEF RowInv, SameRow, CheckFits

LEMMA WorkerKept ==
  ASSUME NEW w \in Workers, WorkerInv(w), SameWorker(w), SameRow(on[w])
  PROVE  WorkerInv(w)'
  BY DEF WorkerInv, SameRow, SameWorker, CheckFits, Held

\* A step of one worker on the attempt in its hands touches no other's.
LEMMA Frame ==
  ASSUME IInv, TypeOK', NEW w \in Workers, NEW b \in Attempts,
         at[w] # "idle", b = on[w],
         \A a \in Attempts \ {b} : SameRow(a),
         \A x \in Workers \ {w} : SameWorker(x),
         WorkerInv(w)', RowInv(b)'
  PROVE  IInv'
  <1>1. ASSUME NEW a \in Attempts PROVE RowInv(a)'
    BY <1>1, RowKept DEF IInv
  <1>2. ASSUME NEW x \in Workers PROVE WorkerInv(x)'
    <2>1. CASE x = w
      BY <2>1
    <2>2. CASE x # w /\ at[x] = "idle"
      BY <2>2 DEF SameWorker, WorkerInv
    <2>3. CASE x # w /\ at[x] # "idle"
      <3>1. owner[on[x]] = x /\ owner[b] = w /\ on[x] \in Attempts
        BY <2>3 DEF IInv, WorkerInv, TypeOK
      <3>2. SameRow(on[x]) /\ SameWorker(x) /\ WorkerInv(x)
        BY <2>3, <3>1 DEF IInv
      <3> QED BY <3>2, WorkerKept
    <2> QED BY <2>1, <2>2, <2>3
  <1> QED BY <1>1, <1>2 DEF IInv

\* A step that moves no worker.
LEMMA RowsFrame ==
  ASSUME IInv, TypeOK', local' = local,
         \A a \in Attempts : RowInv(a)',
         \A w \in Workers : at[w] # "idle" => SameRow(on[w]) \/ WorkerInv(w)'
  PROVE  IInv'
  <1>1. ASSUME NEW w \in Workers PROVE WorkerInv(w)'
    <2>1. SameWorker(w) /\ WorkerInv(w)
      BY DEF local, SameWorker, IInv
    <2>2. CASE at[w] = "idle"
      BY <2>1, <2>2 DEF SameWorker, WorkerInv
    <2>3. CASE at[w] # "idle"
      BY <2>1, <2>3, WorkerKept
    <2> QED BY <2>2, <2>3
  <1> QED BY <1>1 DEF IInv

-----------------------------------------------------------------------------
(* The browser, the clock and the scheduler.                               *)

LEMMA LinkExpiresInv ==
  ASSUME IInv, NEW b \in Attempts, LinkExpires(b)
  PROVE  IInv'
  <1> USE DEF LinkExpires, rows, local
  <1>1. TypeOK'
    BY DEF IInv, TypeOK, Active, Answered, Busy, Outcomes, Working, Ending
  <1>2. ASSUME NEW a \in Attempts PROVE SameRow(a) \/ (a = b /\ RowInv(a)')
    BY DEF IInv, TypeOK, SameRow, RowInv
  <1>3. ASSUME NEW w \in Workers, at[w] # "idle" PROVE SameRow(on[w])
    BY <1>3 DEF IInv, TypeOK, SameRow, RowInv, WorkerInv
  <1> QED BY <1>1, <1>2, <1>3, RowKept, RowsFrame DEF IInv

LEMMA StartTransferInv ==
  ASSUME IInv, NEW b \in Attempts, StartTransfer(b)
  PROVE  IInv'
  <1> USE DEF StartTransfer, rows, local
  <1>1. TypeOK'
    BY DEF IInv, TypeOK, Active, Answered, Busy, Outcomes, Working, Ending
  <1>2. ASSUME NEW a \in Attempts PROVE SameRow(a) \/ (a = b /\ RowInv(a)')
    BY DEF IInv, TypeOK, SameRow, RowInv
  <1>3. ASSUME NEW w \in Workers, at[w] # "idle" PROVE SameRow(on[w])
    BY <1>3 DEF IInv, TypeOK, SameRow, RowInv, WorkerInv
  <1> QED BY <1>1, <1>2, <1>3, RowKept, RowsFrame DEF IInv

LEMMA EndTransferInv ==
  ASSUME IInv, NEW b \in Attempts, EndTransfer(b)
  PROVE  IInv'
  <1> USE DEF EndTransfer, rows, local
  <1>1. TypeOK'
    <2>1. status' = status \/ status' = [status EXCEPT ![b] = "queued"]
      OBVIOUS
    <2>2. status' \in [Attempts -> Active \union Answered \union {"new"}]
      BY <2>1 DEF IInv, TypeOK, Active
    <2>3. sending' \subseteq Attempts
      BY DEF IInv, TypeOK
    <2> QED BY <2>2, <2>3 DEF IInv, TypeOK
  <1>2. ASSUME NEW a \in Attempts PROVE SameRow(a) \/ (a = b /\ RowInv(a)')
    BY DEF IInv, TypeOK, SameRow, RowInv
  <1>3. ASSUME NEW w \in Workers, at[w] # "idle" PROVE SameRow(on[w])
    BY <1>3 DEF IInv, TypeOK, SameRow, RowInv, WorkerInv
  <1> QED BY <1>1, <1>2, <1>3, RowKept, RowsFrame DEF IInv

LEMMA CleanUpInv ==
  ASSUME IInv, NEW b \in Attempts, CleanUp(b)
  PROVE  IInv'
  <1> USE DEF CleanUp, rows, local
  <1>1. TypeOK'
    BY DEF IInv, TypeOK, Active, Answered, Busy, Outcomes, Working, Ending
  <1>2. ASSUME NEW a \in Attempts PROVE SameRow(a) \/ (a = b /\ RowInv(a)')
    BY DEF IInv, TypeOK, SameRow, RowInv
  <1>3. ASSUME NEW w \in Workers, at[w] # "idle" PROVE SameRow(on[w])
    BY <1>3 DEF IInv, TypeOK, SameRow, RowInv, WorkerInv
  <1> QED BY <1>1, <1>2, <1>3, RowKept, RowsFrame DEF IInv

LEMMA LapseInv ==
  ASSUME IInv, NEW b \in Attempts, Lapse(b)
  PROVE  IInv'
  <1> USE DEF Lapse, rows, local
  <1>1. TypeOK'
    BY DEF IInv, TypeOK, Active, Answered, Busy, Outcomes, Working, Ending
  <1>2. ASSUME NEW a \in Attempts PROVE SameRow(a) \/ (a = b /\ RowInv(a)')
    BY DEF IInv, TypeOK, SameRow, RowInv
  <1>3. ASSUME NEW w \in Workers, at[w] # "idle" PROVE SameRow(on[w])
    BY <1>3 DEF IInv, TypeOK, SameRow, RowInv, WorkerInv
  <1> QED BY <1>1, <1>2, <1>3, RowKept, RowsFrame DEF IInv

LEMMA BeginUploadInv ==
  ASSUME IInv, NEW b \in Attempts, BeginUpload(b)
  PROVE  IInv'
  <1> DEFINE left == Replaced(b)
  <1>0. left \subseteq Attempts /\ \A a \in left : status[a] = "pending"
    BY DEF Replaced
  <1>1. /\ status[b] = "new"
        /\ status' = [a \in Attempts |-> IF a = b THEN "pending"
                                        ELSE IF a \in left THEN "expired" ELSE status[a]]
        /\ link' = [a \in Attempts |-> IF a \in left THEN "closed" ELSE link[a]]
        /\ staged' = [staged EXCEPT ![b] = TRUE]
        /\ UNCHANGED <<owner, leased, record, started, said, sending, at, on, outcome,
                       faults>>
    BY DEF BeginUpload, local
  <1> HIDE DEF left
  <1>2. TypeOK'
    BY <1>1 DEF IInv, TypeOK, Active, Answered
  <1>3. ASSUME NEW a \in Attempts PROVE RowInv(a)'
    BY <1>0, <1>1 DEF IInv, TypeOK, RowInv, CheckFits
  <1>4. ASSUME NEW w \in Workers, at[w] # "idle" PROVE SameRow(on[w])
    BY <1>0, <1>1, <1>4 DEF IInv, TypeOK, SameRow, WorkerInv
  <1> QED BY <1>1, <1>2, <1>3, <1>4, RowsFrame DEF local

LEMMA RetireInterruptedInv ==
  ASSUME IInv, RetireInterrupted
  PROVE  IInv'
  <1> USE DEF RetireInterrupted, Lapsed, local
  <1>1. TypeOK'
    BY DEF IInv, TypeOK, Active, Answered, Busy
  <1>2. ASSUME NEW a \in Attempts PROVE RowInv(a)'
    BY DEF IInv, TypeOK, RowInv, CheckFits, Busy
  <1>3. ASSUME NEW w \in Workers, at[w] # "idle" PROVE SameRow(on[w]) \/ WorkerInv(w)'
    <2>1. on[w] \in Attempts /\ WorkerInv(w)
      BY <1>3 DEF IInv, TypeOK
    <2>2. CASE on[w] \in Lapsed
      <3>1. status'[on[w]] = "failed"
        BY <2>1, <2>2
      <3> QED BY <2>1, <3>1 DEF WorkerInv, CheckFits, Held
    <2>3. CASE on[w] \notin Lapsed
      BY <2>1, <2>3 DEF SameRow, IInv, TypeOK
    <2> QED BY <2>2, <2>3
  <1> QED BY <1>1, <1>2, <1>3, RowsFrame

LEMMA ClaimInv ==
  ASSUME IInv, NEW b \in Attempts, NEW w \in Workers, Claim(w, b)
  PROVE  IInv'
  <1> USE DEF Claim
  <1>1. TypeOK'
    BY DEF IInv, TypeOK, Active, Working, Outcomes
  <1>2. ASSUME NEW a \in Attempts PROVE RowInv(a)'
    BY DEF IInv, TypeOK, RowInv, CheckFits
  <1>3. WorkerInv(w)'
    BY DEF IInv, TypeOK, RowInv, WorkerInv, Working
  <1>4. ASSUME NEW x \in Workers \ {w} PROVE WorkerInv(x)'
    <2>1. SameWorker(x) /\ WorkerInv(x)
      BY DEF SameWorker, IInv, TypeOK
    <2>2. CASE at[x] = "idle"
      BY <2>1, <2>2 DEF SameWorker, WorkerInv
    <2>3. CASE at[x] # "idle"
      <3>1. on[x] \in Attempts /\ on[x] # b
        BY <2>1, <2>3 DEF IInv, TypeOK, WorkerInv
      <3>2. SameRow(on[x])
        BY <3>1 DEF SameRow, IInv, TypeOK
      <3> QED BY <2>1, <3>2, WorkerKept
    <2> QED BY <2>2, <2>3
  <1> QED BY <1>1, <1>2, <1>3, <1>4 DEF IInv

-----------------------------------------------------------------------------
(* The worker.                                                             *)

LEMMA LinkRecordInv ==
  ASSUME IInv, NEW w \in Workers, NEW b, b = on[w], LinkRecord(w)
  PROVE  IInv'
  <1> USE DEF LinkRecord, Goto, rows, local
  <1>0. at[w] # "idle" /\ b \in Attempts /\ WorkerInv(w) /\ RowInv(b)
    BY DEF IInv, TypeOK, Working
  <1>1. TypeOK'
    BY <1>0 DEF IInv, TypeOK, Active, Answered, Busy, Outcomes, Working, Ending
  <1>2. /\ \A a \in Attempts \ {b} : SameRow(a)
        /\ \A x \in Workers \ {w} : SameWorker(x)
    BY <1>0 DEF SameRow, SameWorker, IInv, TypeOK
  <1>3. /\ at'[w] = "linked"
        /\ on'[w] = b
        /\ owner'[b] = owner[b]
        /\ started'[b] = started[b]
        /\ said'[b] = said[b]
        /\ outcome'[w] = outcome[w]
        /\ record'[b] = "pending"
        /\ status'[b] = status[b]
    BY <1>0 DEF IInv, TypeOK, Held
  <1>4. WorkerInv(w)'
    BY <1>0, <1>3 DEF WorkerInv, Held, CheckFits, Working
  <1>5. RowInv(b)'
    BY <1>0, <1>3 DEF WorkerInv, RowInv, CheckFits
  <1> QED BY <1>0, <1>1, <1>2, <1>4, <1>5, Frame

LEMMA MarkProcessingInv ==
  ASSUME IInv, NEW w \in Workers, NEW b, b = on[w], MarkProcessing(w)
  PROVE  IInv'
  <1> USE DEF MarkProcessing, Goto, rows, local
  <1>0. at[w] # "idle" /\ b \in Attempts /\ WorkerInv(w) /\ RowInv(b)
    BY DEF IInv, TypeOK, Working
  <1>1. TypeOK'
    BY <1>0 DEF IInv, TypeOK, Active, Answered, Busy, Outcomes, Working, Ending
  <1>2. /\ \A a \in Attempts \ {b} : SameRow(a)
        /\ \A x \in Workers \ {w} : SameWorker(x)
    BY <1>0 DEF SameRow, SameWorker, IInv, TypeOK
  <1>3. /\ at'[w] = "preparing"
        /\ on'[w] = b
        /\ owner'[b] = owner[b]
        /\ started'[b] = started[b]
        /\ said'[b] = said[b]
        /\ outcome'[w] = outcome[w]
        /\ record'[b] = "processing"
        /\ status'[b] = status[b]
    BY <1>0 DEF IInv, TypeOK, Held
  <1>4. WorkerInv(w)'
    BY <1>0, <1>3 DEF WorkerInv, Held, CheckFits, Working
  <1>5. RowInv(b)'
    BY <1>0, <1>3 DEF WorkerInv, RowInv, CheckFits
  <1> QED BY <1>0, <1>1, <1>2, <1>4, <1>5, Frame

LEMMA FinalizeInv ==
  ASSUME IInv, NEW w \in Workers, NEW b, b = on[w], Finalize(w)
  PROVE  IInv'
  <1> USE DEF Finalize, Goto, rows, local
  <1>0. at[w] # "idle" /\ b \in Attempts /\ WorkerInv(w) /\ RowInv(b)
    BY DEF IInv, TypeOK, Working
  <1>1. TypeOK'
    <2>0. \E p \in Working \union Ending : at' = [at EXCEPT ![w] = p]
      BY DEF Working, Ending
    <2>1. at' \in [Workers -> Working \union Ending \union {"idle"}]
      BY <2>0 DEF IInv, TypeOK
    <2>2. outcome' \in [Workers -> Outcomes]
      BY DEF IInv, TypeOK, Outcomes
    <2>3. at'[w] # "idle" /\ on' = on /\ \A x \in Workers : x # w => at'[x] = at[x]
      BY <1>0 DEF IInv, TypeOK
    <2>4. record' \in [Attempts -> Busy \union {"none", "done", "failed"}]
      BY <1>0 DEF IInv, TypeOK
    <2> QED BY <1>0, <2>1, <2>2, <2>3, <2>4 DEF IInv, TypeOK
  <1>2. /\ \A a \in Attempts \ {b} : SameRow(a)
        /\ \A x \in Workers \ {w} : SameWorker(x)
    BY <1>0 DEF SameRow, SameWorker, IInv, TypeOK
  <1>3. /\ at'[w] \in {"ready", "recording"}
        /\ on'[w] = b
        /\ owner'[b] = owner[b]
        /\ started'[b] = started[b]
        /\ said'[b] = said[b]
        /\ outcome'[w] = outcome[w]
        /\ record'[b] = "done"
        /\ status'[b] = "processing"
    BY <1>0 DEF IInv, TypeOK, Held
  <1>4. WorkerInv(w)'
    BY <1>0, <1>3 DEF WorkerInv, Held, CheckFits, Working
  <1>5. RowInv(b)'
    BY <1>0, <1>3 DEF WorkerInv, RowInv, CheckFits
  <1> QED BY <1>0, <1>1, <1>2, <1>4, <1>5, Frame

LEMMA RefuseStepInv ==
  ASSUME IInv, NEW w \in Workers, NEW b, b = on[w], RefuseStep(w)
  PROVE  IInv'
  <1> USE DEF RefuseStep, Goto, rows, local
  <1>0. at[w] # "idle" /\ b \in Attempts /\ WorkerInv(w) /\ RowInv(b)
    BY DEF IInv, TypeOK, Working
  <1>1. TypeOK'
    BY <1>0 DEF IInv, TypeOK, Active, Answered, Busy, Outcomes, Working, Ending
  <1>2. /\ \A a \in Attempts \ {b} : SameRow(a)
        /\ \A x \in Workers \ {w} : SameWorker(x)
    BY <1>0 DEF SameRow, SameWorker, IInv, TypeOK
  <1>3. /\ at'[w] = "handed off"
        /\ on'[w] = b
        /\ owner'[b] = owner[b]
        /\ started'[b] = started[b]
        /\ said'[b] = said[b]
        /\ outcome'[w] = outcome[w]
        /\ record'[b] = record[b]
        /\ status'[b] = status[b]
    BY <1>0 DEF IInv, TypeOK, Held
  <1>4. WorkerInv(w)'
    BY <1>0, <1>3 DEF WorkerInv, Held, CheckFits, Working
  <1>5. RowInv(b)'
    BY <1>0, <1>3 DEF WorkerInv, RowInv, CheckFits
  <1> QED BY <1>0, <1>1, <1>2, <1>4, <1>5, Frame

LEMMA FailStepInv ==
  ASSUME IInv, NEW w \in Workers, NEW b, b = on[w], FailStep(w)
  PROVE  IInv'
  <1> USE DEF FailStep, Goto, rows, local
  <1>0. at[w] # "idle" /\ b \in Attempts /\ WorkerInv(w) /\ RowInv(b)
    BY DEF IInv, TypeOK, Working
  <1>1. TypeOK'
    BY <1>0 DEF IInv, TypeOK, Active, Answered, Busy, Outcomes, Working, Ending
  <1>2. /\ \A a \in Attempts \ {b} : SameRow(a)
        /\ \A x \in Workers \ {w} : SameWorker(x)
    BY <1>0 DEF SameRow, SameWorker, IInv, TypeOK
  <1>3. /\ at'[w] \in {"recording", "failing"}
        /\ on'[w] = b
        /\ owner'[b] = owner[b]
        /\ started'[b] = started[b]
        /\ said'[b] = said[b]
        /\ outcome'[w] = outcome[w]
        /\ record'[b] = record[b]
        /\ status'[b] = status[b]
    BY <1>0 DEF IInv, TypeOK, Held
  <1>4. WorkerInv(w)'
    BY <1>0, <1>3 DEF WorkerInv, Held, CheckFits, Working
  <1>5. RowInv(b)'
    BY <1>0, <1>3 DEF WorkerInv, RowInv, CheckFits
  <1> QED BY <1>0, <1>1, <1>2, <1>4, <1>5, Frame

LEMMA RecordIngestFailureInv ==
  ASSUME IInv, NEW w \in Workers, NEW b, b = on[w], RecordIngestFailure(w)
  PROVE  IInv'
  <1> USE DEF RecordIngestFailure, Goto, rows, local
  <1>0. at[w] # "idle" /\ b \in Attempts /\ WorkerInv(w) /\ RowInv(b)
    BY DEF IInv, TypeOK, Working
  <1>1. TypeOK'
    BY <1>0 DEF IInv, TypeOK, Active, Answered, Busy, Outcomes, Working, Ending
  <1>2. /\ \A a \in Attempts \ {b} : SameRow(a)
        /\ \A x \in Workers \ {w} : SameWorker(x)
    BY <1>0 DEF SameRow, SameWorker, IInv, TypeOK
  <1>3. /\ at'[w] = "failing"
        /\ on'[w] = b
        /\ owner'[b] = owner[b]
        /\ started'[b] = started[b]
        /\ said'[b] = said[b]
        /\ outcome'[w] = outcome[w]
        /\ record'[b] \in {record[b], "failed"}
        /\ status'[b] = status[b]
    BY <1>0 DEF IInv, TypeOK, Held
  <1>4. WorkerInv(w)'
    BY <1>0, <1>3 DEF WorkerInv, Held, CheckFits, Working
  <1>5. RowInv(b)'
    BY <1>0, <1>3 DEF WorkerInv, RowInv, CheckFits
  <1> QED BY <1>0, <1>1, <1>2, <1>4, <1>5, Frame

LEMMA BuildReceiptInv ==
  ASSUME IInv, NEW w \in Workers, NEW b, b = on[w], BuildReceipt(w)
  PROVE  IInv'
  <1> USE DEF BuildReceipt, Goto, rows, local
  <1>0. at[w] # "idle" /\ b \in Attempts /\ WorkerInv(w) /\ RowInv(b)
    BY DEF IInv, TypeOK, Working
  <1>1. TypeOK'
    BY <1>0 DEF IInv, TypeOK, Active, Answered, Busy, Outcomes, Working, Ending
  <1>2. /\ \A a \in Attempts \ {b} : SameRow(a)
        /\ \A x \in Workers \ {w} : SameWorker(x)
    BY <1>0 DEF SameRow, SameWorker, IInv, TypeOK
  <1>3. /\ at'[w] \in {"receipt", "checked"}
        /\ on'[w] = b
        /\ owner'[b] = owner[b]
        /\ started'[b] = started[b]
        /\ said'[b] = said[b]
        /\ outcome'[w] = outcome[w]
        /\ record'[b] = record[b]
        /\ status'[b] = status[b]
    BY <1>0 DEF IInv, TypeOK, Held
  <1>4. WorkerInv(w)'
    BY <1>0, <1>3 DEF WorkerInv, Held, CheckFits, Working
  <1>5. RowInv(b)'
    BY <1>0, <1>3 DEF WorkerInv, RowInv, CheckFits
  <1> QED BY <1>0, <1>1, <1>2, <1>4, <1>5, Frame

LEMMA StopWorkInv ==
  ASSUME IInv, NEW w \in Workers, NEW b, b = on[w], StopWork(w)
  PROVE  IInv'
  <1> USE DEF StopWork, Goto, rows, local
  <1>0. at[w] # "idle" /\ b \in Attempts /\ WorkerInv(w) /\ RowInv(b)
    BY DEF IInv, TypeOK, Working
  <1>1. TypeOK'
    BY <1>0 DEF IInv, TypeOK, Active, Answered, Busy, Outcomes, Working, Ending
  <1>2. /\ \A a \in Attempts \ {b} : SameRow(a)
        /\ \A x \in Workers \ {w} : SameWorker(x)
    BY <1>0 DEF SameRow, SameWorker, IInv, TypeOK
  <1>3. /\ at'[w] = "handed off"
        /\ on'[w] = b
        /\ owner'[b] = owner[b]
        /\ started'[b] = started[b]
        /\ said'[b] = said[b]
        /\ outcome'[w] = outcome[w]
        /\ record'[b] = record[b]
        /\ status'[b] = status[b]
    BY <1>0 DEF IInv, TypeOK, Held
  <1>4. WorkerInv(w)'
    BY <1>0, <1>3 DEF WorkerInv, Held, CheckFits, Working
  <1>5. RowInv(b)'
    BY <1>0, <1>3 DEF WorkerInv, RowInv, CheckFits
  <1> QED BY <1>0, <1>1, <1>2, <1>4, <1>5, Frame

LEMMA SkipRequestedCheckInv ==
  ASSUME IInv, NEW w \in Workers, NEW b, b = on[w], SkipRequestedCheck(w)
  PROVE  IInv'
  <1> USE DEF SkipRequestedCheck, Goto, rows, local
  <1>0. at[w] # "idle" /\ b \in Attempts /\ WorkerInv(w) /\ RowInv(b)
    BY DEF IInv, TypeOK, Working
  <1>1. TypeOK'
    <2>0. \E p \in Working \union Ending : at' = [at EXCEPT ![w] = p]
      BY DEF Working, Ending
    <2>1. at' \in [Workers -> Working \union Ending \union {"idle"}]
      BY <2>0 DEF IInv, TypeOK
    <2>2. outcome' \in [Workers -> Outcomes]
      BY DEF IInv, TypeOK, Outcomes
    <2>3. at'[w] # "idle" /\ on' = on /\ \A x \in Workers : x # w => at'[x] = at[x]
      BY <1>0 DEF IInv, TypeOK
    <2>4. record' \in [Attempts -> Busy \union {"none", "done", "failed"}]
      BY <1>0 DEF IInv, TypeOK
    <2> QED BY <1>0, <2>1, <2>2, <2>3, <2>4 DEF IInv, TypeOK
  <1>2. /\ \A a \in Attempts \ {b} : SameRow(a)
        /\ \A x \in Workers \ {w} : SameWorker(x)
    BY <1>0 DEF SameRow, SameWorker, IInv, TypeOK
  <1>3. /\ at'[w] = "rewriting"
        /\ on'[w] = b
        /\ owner'[b] = owner[b]
        /\ started'[b] = started[b]
        /\ said'[b] = said[b]
        /\ record'[b] = record[b]
        /\ status'[b] = status[b]
        /\ outcome'[w] \in {"unstarted", "unknown"}
    BY <1>0 DEF IInv, TypeOK, Held
  <1>4. WorkerInv(w)'
    BY <1>0, <1>3 DEF WorkerInv, Held, CheckFits, Working
  <1>5. RowInv(b)'
    BY <1>0, <1>3 DEF WorkerInv, RowInv, CheckFits
  <1> QED BY <1>0, <1>1, <1>2, <1>4, <1>5, Frame

LEMMA StartRequestedCheckInv ==
  ASSUME IInv, NEW w \in Workers, NEW b, b = on[w], StartRequestedCheck(w)
  PROVE  IInv'
  <1> USE DEF StartRequestedCheck, Goto
  <1>0. at[w] = "receipt" /\ b \in Attempts /\ Held(w) /\ WorkerInv(w) /\ RowInv(b)
    BY DEF IInv, TypeOK
  <1>1. PICK created \in BOOLEAN, o \in Outcomes \ {"unasked"} :
          /\ o = "started" => created
          /\ o \in {"refused", "unstarted"} => ~created
          /\ started' = [started EXCEPT ![b] = created]
          /\ outcome' = [outcome EXCEPT ![w] = o]
    OBVIOUS
  <1>2. /\ leased' = [leased EXCEPT ![b] = TRUE]
        /\ at' = [at EXCEPT ![w] = "checked"]
        /\ UNCHANGED <<on, status, link, staged, owner, record, said, sending, faults>>
    OBVIOUS
  <1>3. TypeOK'
    <2>1. started' \in [Attempts -> BOOLEAN] /\ leased' \in [Attempts -> BOOLEAN]
      BY <1>0, <1>1, <1>2 DEF IInv, TypeOK
    <2>2. outcome' \in [Workers -> Outcomes]
      BY <1>1 DEF IInv, TypeOK
    <2>3. /\ at' \in [Workers -> Working \union Ending \union {"idle"}]
          /\ \A x \in Workers : at'[x] # "idle" <=> on'[x] \in Attempts
      <3>1. at' \in [Workers -> Working \union Ending \union {"idle"}]
        BY <1>0, <1>2 DEF IInv, TypeOK, Ending
      <3>2. \A x \in Workers : at'[x] # "idle" <=> on'[x] \in Attempts
        BY <1>0, <1>2 DEF IInv, TypeOK
      <3> QED BY <3>1, <3>2
    <2> QED BY <1>2, <2>1, <2>2, <2>3 DEF IInv, TypeOK
  <1>4. /\ \A a \in Attempts \ {b} : SameRow(a)
        /\ \A x \in Workers \ {w} : SameWorker(x)
    BY <1>0, <1>1, <1>2 DEF SameRow, SameWorker, IInv, TypeOK
  <1>5. /\ at'[w] = "checked" /\ on'[w] = b /\ owner'[b] = owner[b]
        /\ status'[b] = "processing" /\ record'[b] = record[b] /\ said'[b] = said[b]
        /\ started'[b] = created /\ outcome'[w] = o
    BY <1>0, <1>1, <1>2 DEF IInv, TypeOK, Held
  <1>6. WorkerInv(w)'
    BY <1>0, <1>1, <1>5 DEF WorkerInv, Held, CheckFits, Working
  <1>7. RowInv(b)'
    BY <1>5 DEF RowInv
  <1> QED BY <1>0, <1>3, <1>4, <1>6, <1>7, Frame

LEMMA FinishDoneInv ==
  ASSUME IInv, NEW w \in Workers, NEW b, b = on[w], FinishDone(w)
  PROVE  IInv'
  <1>0. /\ at[w] \in {"checked", "rewriting"} /\ b \in Attempts
        /\ WorkerInv(w) /\ RowInv(b) /\ TypeOK
    BY DEF FinishDone, IInv, TypeOK
  <1>1. \/ /\ Held(w)
           /\ status' = [status EXCEPT ![b] = "done"]
           /\ said' = [said EXCEPT ![b] = outcome[w]]
        \/ status' = status /\ said' = said
    BY DEF FinishDone
  <1>2. \/ /\ at' = [at EXCEPT ![w] = "idle"]
           /\ on' = [on EXCEPT ![w] = NoAttempt]
        \/ at' = [at EXCEPT ![w] = "rewriting"] /\ on' = on
    BY DEF FinishDone, Free, Goto
  <1>3. UNCHANGED <<link, staged, owner, leased, record, started, sending, faults, outcome>>
    BY DEF FinishDone, Free
  <1>4. TypeOK'
    <2>1. /\ status' \in [Attempts -> Active \union Answered \union {"new"}]
          /\ said' \in [Attempts -> Outcomes]
      BY <1>0, <1>1 DEF TypeOK, Answered
    <2>2. /\ at' \in [Workers -> Working \union Ending \union {"idle"}]
          /\ on' \in [Workers -> Attempts \union {NoAttempt}]
          /\ \A x \in Workers : at'[x] # "idle" <=> on'[x] \in Attempts
      <3>0. /\ at \in [Workers -> Working \union Ending \union {"idle"}]
            /\ on \in [Workers -> Attempts \union {NoAttempt}]
        BY <1>0 DEF TypeOK
      <3>1. at' \in [Workers -> Working \union Ending \union {"idle"}]
        <4>1. "rewriting" \in Ending
          BY DEF Ending
        <4> QED BY <1>2, <3>0, <4>1
      <3>2. on' \in [Workers -> Attempts \union {NoAttempt}]
        BY <1>2, <3>0
      <3>3. \A x \in Workers : at'[x] # "idle" <=> on'[x] \in Attempts
        BY <1>0, <1>2 DEF TypeOK
      <3> QED BY <3>1, <3>2, <3>3
    <2> QED BY <1>0, <1>3, <2>1, <2>2 DEF TypeOK
  <1>5. /\ \A a \in Attempts \ {b} : SameRow(a)
        /\ \A x \in Workers \ {w} : SameWorker(x)
    BY <1>0, <1>1, <1>2, <1>3 DEF SameRow, SameWorker, TypeOK
  <1>6. \/ status'[b] = "done" /\ said'[b] = outcome[w] /\ Held(w)
        \/ status'[b] = status[b] /\ said'[b] = said[b]
    BY <1>0, <1>1 DEF TypeOK
  <1>7. \/ at'[w] = "idle"
        \/ at'[w] = "rewriting" /\ on'[w] = b
    BY <1>0, <1>2 DEF TypeOK
  <1>8. WorkerInv(w)'
    BY <1>0, <1>3, <1>6, <1>7 DEF WorkerInv, Held, CheckFits, Working
  <1>9. RowInv(b)'
    BY <1>0, <1>3, <1>6 DEF RowInv, WorkerInv, CheckFits
  <1> QED BY <1>0, <1>4, <1>5, <1>8, <1>9, Frame

LEMMA FailAttemptInv ==
  ASSUME IInv, NEW w \in Workers, NEW b, b = on[w], FailAttempt(w)
  PROVE  IInv'
  <1> USE DEF FailAttempt, Free
  <1>0. /\ at[w] \in {"failing", "handed off"} /\ b \in Attempts
        /\ WorkerInv(w) /\ RowInv(b)
    BY DEF IInv, TypeOK
  <1>1. TypeOK'
    BY <1>0 DEF IInv, TypeOK, Active, Answered, Busy, Outcomes, Working, Ending
  <1>2. /\ \A a \in Attempts \ {b} : SameRow(a)
        /\ \A x \in Workers \ {w} : SameWorker(x)
    BY <1>0 DEF SameRow, SameWorker, IInv, TypeOK
  <1>3. /\ at'[w] = "idle"
        /\ status'[b] \in {status[b], "failed"} /\ owner'[b] = owner[b]
        /\ started'[b] = started[b] /\ said'[b] = said[b]
    BY <1>0 DEF IInv, TypeOK
  <1>4. WorkerInv(w)'
    BY <1>3 DEF WorkerInv
  <1>5. RowInv(b)'
    BY <1>0, <1>3 DEF WorkerInv, RowInv
  <1> QED BY <1>0, <1>1, <1>2, <1>4, <1>5, Frame

LEMMA RecordHandedOffInv ==
  ASSUME IInv, NEW w \in Workers, NEW b, b = on[w], RecordHandedOff(w)
  PROVE  IInv'
  <1> USE DEF RecordHandedOff, Free
  <1>0. /\ at[w] \in {"failing", "handed off"} /\ b \in Attempts
        /\ WorkerInv(w) /\ RowInv(b)
    BY DEF IInv, TypeOK
  <1>1. TypeOK'
    BY <1>0 DEF IInv, TypeOK, Active, Answered, Busy, Outcomes, Working, Ending
  <1>2. /\ \A a \in Attempts \ {b} : SameRow(a)
        /\ \A x \in Workers \ {w} : SameWorker(x)
    BY <1>0 DEF SameRow, SameWorker, IInv, TypeOK
  <1>3. /\ at'[w] = "idle"
        /\ status'[b] \in {status[b], "failed"} /\ owner'[b] = owner[b]
        /\ started'[b] = started[b] /\ said'[b] = said[b]
    BY <1>0 DEF IInv, TypeOK
  <1>4. WorkerInv(w)'
    BY <1>3 DEF WorkerInv
  <1>5. RowInv(b)'
    BY <1>0, <1>3 DEF WorkerInv, RowInv
  <1> QED BY <1>0, <1>1, <1>2, <1>4, <1>5, Frame

LEMMA BeatInv ==
  ASSUME IInv, NEW w \in Workers, NEW b, b = on[w], Beat(w)
  PROVE  IInv'
  <1> USE DEF Beat, local
  <1>0. b \in Attempts
    BY DEF IInv, TypeOK, Working, Ending
  <1>1. TypeOK'
    BY <1>0 DEF IInv, TypeOK
  <1>2. \A a \in Attempts : SameRow(a)
    BY DEF SameRow
  <1>3. \A x \in Workers : at[x] # "idle" => SameRow(on[x])
    BY DEF SameRow
  <1> QED BY <1>1, <1>2, <1>3, RowKept, RowsFrame DEF IInv

LEMMA StallInv ==
  ASSUME IInv, NEW w \in Workers, NEW b, b = on[w], Stall(w)
  PROVE  IInv'
  <1> USE DEF Stall, local
  <1>0. b \in Attempts
    BY DEF IInv, TypeOK, Working, Ending
  <1>1. TypeOK'
    <2>1. faults' \in [crashes : 0..MaxCrashes, stalls : 0..MaxStalls]
      BY DEF IInv, TypeOK
    <2>2. leased' \in [Attempts -> BOOLEAN]
      BY <1>0 DEF IInv, TypeOK
    <2> QED BY <2>1, <2>2 DEF IInv, TypeOK
  <1>2. \A a \in Attempts : SameRow(a)
    BY DEF SameRow
  <1>3. \A x \in Workers : at[x] # "idle" => SameRow(on[x])
    BY DEF SameRow
  <1> QED BY <1>1, <1>2, <1>3, RowKept, RowsFrame DEF IInv

LEMMA CrashInv ==
  ASSUME IInv, NEW w \in Workers, NEW b, b = on[w], Crash(w)
  PROVE  IInv'
  <1> USE DEF Crash, rows
  <1>0. at[w] # "idle" /\ b \in Attempts /\ RowInv(b)
    BY DEF IInv, TypeOK
  <1>1. TypeOK'
    <2>1. faults' \in [crashes : 0..MaxCrashes, stalls : 0..MaxStalls]
      BY DEF IInv, TypeOK
    <2>2. /\ at' \in [Workers -> Working \union Ending \union {"idle"}]
          /\ on' \in [Workers -> Attempts \union {NoAttempt}]
          /\ \A x \in Workers : at'[x] # "idle" <=> on'[x] \in Attempts
      BY DEF IInv, TypeOK
    <2> QED BY <2>1, <2>2 DEF IInv, TypeOK
  <1>2. /\ \A a \in Attempts : SameRow(a)
        /\ \A x \in Workers \ {w} : SameWorker(x)
    BY DEF SameRow, SameWorker, IInv, TypeOK
  <1>3. WorkerInv(w)'
    BY DEF WorkerInv, IInv, TypeOK
  <1>4. RowInv(b)'
    BY <1>0, <1>2, RowKept
  <1> QED BY <1>0, <1>1, <1>2, <1>3, <1>4, Frame

-----------------------------------------------------------------------------
(* The theorems.                                                           *)

LEMMA NextInv == IInv /\ [Next]_vars => IInv'
  <1> SUFFICES ASSUME IInv, [Next]_vars PROVE IInv'
    OBVIOUS
  <1>1. ASSUME NEW w \in Workers, Step(w) PROVE IInv'
    BY <1>1, LinkRecordInv, MarkProcessingInv, FinalizeInv, RefuseStepInv, FailStepInv,
       RecordIngestFailureInv, BuildReceiptInv, StartRequestedCheckInv,
       SkipRequestedCheckInv, FinishDoneInv, FailAttemptInv, RecordHandedOffInv DEF Step
  <1>2. ASSUME NEW w \in Workers, Beat(w) \/ StopWork(w) \/ Stall(w) \/ Crash(w)
        PROVE  IInv'
    BY <1>2, BeatInv, StopWorkInv, StallInv, CrashInv
  <1>3. ASSUME NEW a \in Attempts,
               \/ BeginUpload(a) \/ LinkExpires(a) \/ StartTransfer(a) \/ EndTransfer(a)
               \/ CleanUp(a) \/ Lapse(a) \/ \E w \in Workers : Claim(w, a)
        PROVE  IInv'
    BY <1>3, BeginUploadInv, LinkExpiresInv, StartTransferInv, EndTransferInv, CleanUpInv,
       LapseInv, ClaimInv
  <1>4. CASE UNCHANGED vars
    <2>1. TypeOK'
      BY <1>4 DEF IInv, TypeOK, vars, rows, local
    <2>2. /\ \A a \in Attempts : SameRow(a)
          /\ \A w \in Workers : SameRow(on[w])
          /\ local' = local
      BY <1>4 DEF vars, rows, local, SameRow
    <2> QED BY <2>1, <2>2, RowKept, RowsFrame DEF IInv
  <1> QED BY <1>1, <1>2, <1>3, <1>4, RetireInterruptedInv DEF Next

\* The inductive invariant holds.
THEOREM Inductive == Spec => []IInv
  BY InitInv, NextInv, PTL DEF Spec

\* Type correctness, and who has an attempt in hand.
THEOREM TypeCorrect == Spec => []TypeOK
  <1>1. IInv => TypeOK
    BY DEF IInv
  <1> QED BY Inductive, <1>1, PTL

\* A finished upload is what it says of its record and of its check.
THEOREM DoneTrue == Spec => []DoneIsTrue
  <1>1. IInv => DoneIsTrue
    BY DEF IInv, RowInv, DoneIsTrue
  <1> QED BY Inductive, <1>1, PTL

\* What no step does to an attempt that has been answered.
Kept(a) == /\ status'[a] = status[a]
           /\ record'[a] = "done" => record[a] = "done"
           /\ started'[a] = started[a]

LEMMA AnsweredKept ==
  ASSUME IInv, [Next]_vars, NEW a \in Attempts, status[a] \in Answered
  PROVE  Kept(a)
  <1> USE DEF Kept, Answered
  <1>1. TypeOK /\ RowInv(a) /\ \A w \in Workers : WorkerInv(w)
    BY DEF IInv
  <1>2. ASSUME NEW w \in Workers, Step(w) PROVE Kept(a)
    <2>1. CASE LinkRecord(w)
      BY <1>1, <2>1 DEF LinkRecord, TypeOK
    <2>2. CASE MarkProcessing(w)
      BY <1>1, <2>2 DEF MarkProcessing, TypeOK
    <2>3. CASE Finalize(w)
      <3>1. record' = [record EXCEPT ![on[w]] = "done"]
        BY <2>3 DEF Finalize
      <3>2. Held(w) /\ started' = started /\ status' = status
        BY <2>3 DEF Finalize
      <3> QED BY <1>1, <3>1, <3>2 DEF TypeOK, Held
    <2>4. CASE RefuseStep(w)
      BY <1>1, <2>4 DEF RefuseStep, TypeOK, rows
    <2>5. CASE FailStep(w)
      BY <1>1, <2>5 DEF FailStep, TypeOK, rows
    <2>6. CASE RecordIngestFailure(w)
      BY <1>1, <2>6 DEF RecordIngestFailure, TypeOK
    <2>7. CASE BuildReceipt(w)
      BY <1>1, <2>7 DEF BuildReceipt, TypeOK, rows
    <2>8. CASE StartRequestedCheck(w)
      <3>1. PICK created \in BOOLEAN : started' = [started EXCEPT ![on[w]] = created]
        BY <2>8 DEF StartRequestedCheck
      <3>2. Held(w) /\ record' = record /\ status' = status
        BY <2>8 DEF StartRequestedCheck
      <3> QED BY <1>1, <3>1, <3>2 DEF TypeOK, Held
    <2>9. CASE SkipRequestedCheck(w)
      BY <1>1, <2>9 DEF SkipRequestedCheck, TypeOK, rows
    <2>10. CASE FinishDone(w)
      <3>1. status' = status \/ (status' = [status EXCEPT ![on[w]] = "done"] /\ Held(w))
        BY <2>10 DEF FinishDone
      <3>2. record' = record /\ started' = started
        BY <2>10 DEF FinishDone
      <3> QED BY <1>1, <3>1, <3>2 DEF TypeOK, Held
    <2>11. CASE FailAttempt(w)
      BY <1>1, <2>11 DEF FailAttempt, TypeOK, Held
    <2>12. CASE RecordHandedOff(w)
      BY <1>1, <2>12 DEF RecordHandedOff, TypeOK
    <2> QED BY <1>2, <2>1, <2>2, <2>3, <2>4, <2>5, <2>6, <2>7, <2>8, <2>9, <2>10, <2>11, <2>12 DEF Step
  <1>3. ASSUME NEW w \in Workers, Beat(w) \/ StopWork(w) \/ Stall(w) \/ Crash(w)
        PROVE  Kept(a)
    BY <1>3 DEF Beat, StopWork, Stall, Crash, rows
  <1>4. ASSUME NEW b \in Attempts,
               \/ BeginUpload(b) \/ LinkExpires(b) \/ StartTransfer(b) \/ EndTransfer(b)
               \/ CleanUp(b) \/ Lapse(b) \/ \E w \in Workers : Claim(w, b)
        PROVE  Kept(a)
    <2>1. CASE BeginUpload(b)
      BY <1>1, <2>1 DEF BeginUpload, TypeOK, Replaced
    <2>2. CASE LinkExpires(b) \/ StartTransfer(b) \/ Lapse(b)
      BY <2>2 DEF LinkExpires, StartTransfer, Lapse, rows
    <2>3. CASE EndTransfer(b)
      BY <1>1, <2>3 DEF EndTransfer, TypeOK
    <2>4. CASE CleanUp(b)
      BY <1>1, <2>4 DEF CleanUp, TypeOK
    <2>5. ASSUME NEW w \in Workers, Claim(w, b) PROVE Kept(a)
      BY <1>1, <2>5 DEF Claim, TypeOK
    <2> QED BY <1>4, <2>1, <2>2, <2>3, <2>4, <2>5
  <1>5. CASE RetireInterrupted
    BY <1>1, <1>5 DEF RetireInterrupted, Lapsed, TypeOK
  <1>6. CASE UNCHANGED vars
    BY <1>6 DEF vars, rows
  <1> QED BY <1>2, <1>3, <1>4, <1>5, <1>6 DEF Next

\* Answers stay.
THEOREM AnswerKept == Spec => AnswerStays
  <1>1. IInv /\ [Next]_vars =>
          \A a \in Attempts : status[a] \in Answered => status'[a] = status[a]
    BY AnsweredKept DEF Kept
  <1> QED BY Inductive, <1>1, PTL DEF Spec, AnswerStays

\* A worker whose attempt was retired changes neither its record nor its check.
THEOREM RetiredAlone == Spec => RetiredIsLeftAlone
  <1>1. IInv /\ [Next]_vars =>
          \A a \in Attempts : status[a] \in Answered =>
            /\ record'[a] = "done" => record[a] = "done"
            /\ started'[a] = started[a]
    BY AnsweredKept DEF Kept
  <1> QED BY Inductive, <1>1, PTL DEF Spec, RetiredIsLeftAlone

-----------------------------------------------------------------------------
(* The storage that admission promises.  With stalls an attempt can be     *)
(* retired between its claim and its record: the record is then linked     *)
(* although its reservation was given back (BudgetInv).                    *)

\* What is neither added to the copies nor to the originals is paid for.
NothingNew ==
  \A a \in Attempts : /\ staged'[a] => staged[a]
                      /\ HoldsOriginal(a)' => HoldsOriginal(a)

LEMMA BudgetKept ==
  ASSUME BudgetInv, NothingNew
  PROVE  IsFiniteSet(Copies)' /\ IsFiniteSet(Originals)' /\ HasRoom'
  <1>1. Copies' \subseteq Copies /\ Originals' \subseteq Originals
    BY DEF NothingNew, Copies, Originals
  <1>2. /\ IsFiniteSet(Copies') /\ Cardinality(Copies') <= Cardinality(Copies)
        /\ IsFiniteSet(Originals') /\ Cardinality(Originals') <= Cardinality(Originals)
    BY <1>1, FS_Subset DEF BudgetInv
  <1>3. /\ Cardinality(Copies) \in Nat /\ Cardinality(Copies') \in Nat
        /\ Cardinality(Originals) \in Nat /\ Cardinality(Originals') \in Nat
    BY <1>2, FS_CardinalityType DEF BudgetInv
  <1>4. Cardinality(Copies) + Cardinality(Originals) <= Budget
    BY DEF BudgetInv, HasRoom, Reserved, Copies, Originals
  <1>5. Cardinality(Copies') + Cardinality(Originals') <= Budget
    BY <1>2, <1>3, <1>4
  <1> QED BY <1>2, <1>5 DEF HasRoom, Reserved, Copies, Originals

\* An admission counts its copy, its original, and what it replaces no longer.
LEMMA BeginBudget ==
  ASSUME BudgetInv, IInv', NEW a \in Attempts, BeginUpload(a)
  PROVE  IsFiniteSet(Copies)' /\ IsFiniteSet(Originals)' /\ HasRoom'
  <1> DEFINE left == Replaced(a)
  <1>1. left \subseteq Originals /\ a \notin left
    BY SubsetsAssumption DEF Replaced, Originals, HoldsOriginal, Active
  <1>2. Copies' \subseteq Copies \union {a}
    BY DEF BeginUpload, BudgetInv, IInv, TypeOK, Copies
  <1>3. Originals' \subseteq (Originals \ left) \union {a}
    <2> SUFFICES ASSUME NEW b \in Attempts, HoldsOriginal(b)', b # a
                 PROVE  b \in Originals /\ b \notin left
      BY DEF Originals
    <2>1. record' = record
          /\ status'[b] = IF b \in left THEN "expired" ELSE status[b]
      BY DEF BeginUpload
    <2>2. b \notin left
      <3> SUFFICES ASSUME b \in left PROVE FALSE
        OBVIOUS
      <3>1. status[b] = "pending" /\ RowInv(b)
        BY DEF Replaced, BudgetInv, IInv
      <3>2. record[b] = "none"
        BY <3>1 DEF RowInv
      <3> QED BY <2>1, <3>2 DEF HoldsOriginal, Active
    <2> QED BY <2>1, <2>2 DEF HoldsOriginal, Originals
  <1> HIDE DEF left
  <1>4. IsFiniteSet(left)
    BY <1>1, FS_Subset DEF BudgetInv
  <1>5. /\ IsFiniteSet(Originals \ left)
        /\ Cardinality(Originals \ left) = Cardinality(Originals) - Cardinality(left)
    <2>1. Originals \intersect left = left
      BY <1>1
    <2> QED BY <2>1, FS_Difference DEF BudgetInv
  <1>6. /\ IsFiniteSet(Copies \union {a})
        /\ Cardinality(Copies \union {a}) <= Cardinality(Copies) + 1
        /\ IsFiniteSet((Originals \ left) \union {a})
        /\ Cardinality((Originals \ left) \union {a}) <= Cardinality(Originals \ left) + 1
    <2>1. ASSUME NEW S, IsFiniteSet(S)
          PROVE  IsFiniteSet(S \union {a}) /\ Cardinality(S \union {a}) <= Cardinality(S) + 1
      <3>1. Cardinality(S) \in Nat
        BY <2>1, FS_CardinalityType
      <3>2. /\ IsFiniteSet(S \union {a})
            /\ Cardinality(S \union {a}) =
                 IF a \in S THEN Cardinality(S) ELSE Cardinality(S) + 1
        BY <2>1, FS_AddElement, Zenon
      <3> QED BY <3>1, <3>2
    <2> QED BY <2>1, <1>5 DEF BudgetInv
  <1>7. /\ IsFiniteSet(Copies') /\ Cardinality(Copies') <= Cardinality(Copies \union {a})
        /\ IsFiniteSet(Originals')
        /\ Cardinality(Originals') <= Cardinality((Originals \ left) \union {a})
    BY <1>2, <1>3, <1>6, FS_Subset
  <1>8. /\ Cardinality(Copies) \in Nat /\ Cardinality(Copies') \in Nat
        /\ Cardinality(Originals) \in Nat /\ Cardinality(Originals') \in Nat
        /\ Cardinality(left) \in Nat /\ Cardinality(Originals \ left) \in Nat
        /\ Cardinality(Copies \union {a}) \in Nat
        /\ Cardinality((Originals \ left) \union {a}) \in Nat
    BY <1>4, <1>5, <1>6, <1>7, FS_CardinalityType DEF BudgetInv
  <1>9. Cardinality(Copies) + Cardinality(Originals) - Cardinality(left) + 2 <= Budget
    <2>1. Reserved - Cardinality(left) + 2 <= Budget
      BY Zenon DEF BeginUpload, left
    <2>2. Reserved = Cardinality(Copies) + Cardinality(Originals)
      BY DEF Reserved, Copies, Originals
    <2> QED BY <2>1, <2>2, <1>8
  <1>10. Cardinality(Copies') + Cardinality(Originals') <= Budget
    BY <1>5, <1>6, <1>7, <1>8, <1>9
  <1> QED BY <1>7, <1>10 DEF HasRoom, Reserved, Copies, Originals

\* Where a step takes its worker.
LEMMA StepMoves ==
  ASSUME NEW w \in Workers, Step(w)
  PROVE  \E p : /\ at' = [at EXCEPT ![w] = p]
                /\ \/ on' = on /\ at[w] \in Working
                   \/ on' = on /\ p \notin Working
                   \/ on' = [on EXCEPT ![w] = NoAttempt] /\ p = "idle"
  <1> USE DEF Working, Goto
  <1>1. CASE LinkRecord(w)
    BY <1>1 DEF LinkRecord
  <1>2. CASE MarkProcessing(w)
    BY <1>2 DEF MarkProcessing
  <1>3. CASE Finalize(w)
    BY <1>3 DEF Finalize
  <1>4. CASE RefuseStep(w)
    BY <1>4 DEF RefuseStep
  <1>5. CASE FailStep(w)
    BY <1>5 DEF FailStep
  <1>6. CASE RecordIngestFailure(w)
    BY <1>6 DEF RecordIngestFailure
  <1>7. CASE BuildReceipt(w)
    BY <1>7 DEF BuildReceipt
  <1>8. CASE StartRequestedCheck(w)
    BY <1>8 DEF StartRequestedCheck
  <1>9. CASE SkipRequestedCheck(w)
    BY <1>9 DEF SkipRequestedCheck
  <1>10. CASE FinishDone(w)
    <2>1. Free(w) \/ Goto(w, "rewriting")
      BY <1>10 DEF FinishDone
    <2> QED BY <2>1 DEF Free
  <1>11. CASE FailAttempt(w)
    BY <1>11 DEF FailAttempt, Free
  <1>12. CASE RecordHandedOff(w)
    BY <1>12 DEF RecordHandedOff, Free
  <1> QED BY <1>1, <1>2, <1>3, <1>4, <1>5, <1>6, <1>7, <1>8, <1>9, <1>10, <1>11, <1>12 DEF Step

\* No stall has come before, if none has come by the next state.
LEMMA NoStallYet ==
  ASSUME TypeOK, TypeOK', [Next]_vars, NeverStalled'
  PROVE  NeverStalled /\ \A w \in Workers : ~Stall(w)
  <1>1. ASSUME NEW w \in Workers, Stall(w) PROVE FALSE
    <2>1. faults'.stalls = faults.stalls + 1 /\ faults.stalls \in Nat
      BY <1>1, BoundsAssumption DEF Stall, TypeOK
    <2> QED BY <2>1 DEF NeverStalled
  <1>2. (\E w \in Workers : Stall(w) \/ Crash(w)) \/ UNCHANGED faults
    BY DEF Next, Step, BeginUpload, LinkExpires, StartTransfer, EndTransfer, CleanUp, Lapse,
           Claim, RetireInterrupted, Beat, StopWork, LinkRecord, MarkProcessing, Finalize,
           RefuseStep, FailStep, RecordIngestFailure, BuildReceipt, StartRequestedCheck,
           SkipRequestedCheck, FinishDone, FailAttempt, RecordHandedOff, vars
  <1>3. ASSUME NEW w \in Workers, Crash(w) PROVE NeverStalled
    BY <1>3 DEF Crash, TypeOK, NeverStalled
  <1> QED BY <1>1, <1>2, <1>3 DEF NeverStalled

\* Nobody but its worker ends an attempt whose lease runs, and without stalls
\* the leases of the attempts in hand do.
LEMMA HoldsOn ==
  ASSUME BudgetInv, IInv', [Next]_vars, NeverStalled', NEW x \in Workers
  PROVE  StillHolds(x)'
  <1> SUFFICES ASSUME at'[x] \in Working
               PROVE  owner'[on'[x]] = x /\ status'[on'[x]] = "processing" /\ leased'[on'[x]]
    BY DEF StillHolds, Held
  <1>1. IInv /\ TypeOK /\ TypeOK' /\ StillHolds(x)
    BY DEF BudgetInv, IInv
  <1> DEFINE Same == at'[x] \in Working => at[x] \in Working /\ on'[x] = on[x]
             Stays == /\ owner'[on[x]] = owner[on[x]]
                      /\ status[on[x]] = "processing" => status'[on[x]] = "processing"
                      /\ leased[on[x]] => leased'[on[x]]
  <1>2. Same /\ (at[x] \in Working => Stays) =>
          owner'[on'[x]] = x /\ status'[on'[x]] = "processing" /\ leased'[on'[x]]
    BY <1>1 DEF StillHolds, Held
  <1>3. at[x] \in Working => on[x] \in Attempts /\ owner[on[x]] = x
    BY <1>1 DEF IInv, WorkerInv, TypeOK, Working
  <1>4. ASSUME NEW w \in Workers, at[w] # "idle"
        PROVE  on[w] \in Attempts /\ (at[x] \in Working /\ w # x => on[w] # on[x])
    BY <1>1, <1>3, <1>4 DEF IInv, WorkerInv, TypeOK
  <1>5. ASSUME NEW w \in Workers, Step(w) PROVE (Same /\ (at[x] \in Working => Stays))
    <2>0. at[w] # "idle"
      BY <1>5 DEF Step, LinkRecord, MarkProcessing, Finalize, RefuseStep, FailStep,
                  RecordIngestFailure, BuildReceipt, StartRequestedCheck, SkipRequestedCheck,
                  FinishDone, FailAttempt, RecordHandedOff
    <2>1. /\ UNCHANGED leased \/ leased' = [leased EXCEPT ![on[w]] = TRUE]
          /\ UNCHANGED owner
      BY <1>5 DEF Step, LinkRecord, MarkProcessing, Finalize, RefuseStep, FailStep,
                  RecordIngestFailure, BuildReceipt, StartRequestedCheck, SkipRequestedCheck,
                  FinishDone, FailAttempt, RecordHandedOff, rows
    <2>2. UNCHANGED status \/ FinishDone(w) \/ FailAttempt(w)
      BY <1>5 DEF Step, LinkRecord, MarkProcessing, Finalize, RefuseStep, FailStep,
                  RecordIngestFailure, BuildReceipt, StartRequestedCheck, SkipRequestedCheck,
                  RecordHandedOff, rows
    <2>3. FinishDone(w) \/ FailAttempt(w) =>
            /\ w # x
            /\ \A a \in Attempts : a # on[w] => status'[a] = status[a]
      <3>1. CASE FinishDone(w)
        <4>1. at' = [at EXCEPT ![w] = "idle"] \/ at' = [at EXCEPT ![w] = "rewriting"]
          BY <3>1 DEF FinishDone, Free, Goto
        <4>2. UNCHANGED status \/ status' = [status EXCEPT ![on[w]] = "done"]
          BY <3>1 DEF FinishDone
        <4> QED BY <1>1, <4>1, <4>2 DEF TypeOK, Working
      <3>2. CASE FailAttempt(w)
        BY <1>1, <3>2 DEF FailAttempt, Free, TypeOK, Working
      <3> QED BY <3>1, <3>2
    <2>4. at[x] \in Working => Stays
      BY <1>1, <1>3, <1>4, <2>0, <2>1, <2>2, <2>3 DEF Stays, TypeOK
    <2>5. Same
      <3>1. PICK p : /\ at' = [at EXCEPT ![w] = p]
                     /\ \/ on' = on /\ at[w] \in Working
                        \/ on' = on /\ p \notin Working
                        \/ on' = [on EXCEPT ![w] = NoAttempt] /\ p = "idle"
        BY <1>5, StepMoves
      <3> QED BY <1>1, <3>1 DEF Same, TypeOK, Working
    <2> QED BY <2>4, <2>5
  <1>6. ASSUME NEW w \in Workers, Beat(w) \/ StopWork(w) \/ Stall(w) \/ Crash(w)
        PROVE  Same /\ (at[x] \in Working => Stays)
    <2>1. ~Stall(w)
      BY <1>1, NoStallYet
    <2>2. /\ UNCHANGED <<status, owner>>
          /\ \/ UNCHANGED leased
             \/ leased' = [leased EXCEPT ![on[w]] = TRUE]
      BY <1>6, <2>1 DEF Beat, StopWork, Crash, rows
    <2>3. at[x] \in Working => Stays
      BY <1>1, <1>3, <2>2 DEF Stays, TypeOK
    <2>4. Same
      <3>1. CASE Beat(w)
        BY <3>1 DEF Same, Beat, local
      <3>2. CASE StopWork(w)
        <4>1. on' = on /\ at' = [at EXCEPT ![w] = "handed off"]
          BY <3>2 DEF StopWork
        <4>2. at'[x] = at[x] \/ at'[x] = "handed off"
          <5>1. at \in [Workers -> Working \union Ending \union {"idle"}]
            BY <1>1 DEF TypeOK
          <5> QED BY <4>1, <5>1
        <4>3. "handed off" \notin Working
          BY DEF Working
        <4> QED BY <4>1, <4>2, <4>3 DEF Same
      <3>3. CASE Crash(w)
        <4>1. at'[x] = "idle" \/ (at'[x] = at[x] /\ on'[x] = on[x])
          <5>1. /\ at \in [Workers -> Working \union Ending \union {"idle"}]
                /\ on \in [Workers -> Attempts \union {NoAttempt}]
            BY <1>1 DEF TypeOK
          <5> QED BY <3>3, <5>1 DEF Crash
        <4>2. "idle" \notin Working
          BY DEF Working
        <4> QED BY <4>1, <4>2 DEF Same
      <3> QED BY <1>6, <2>1, <3>1, <3>2, <3>3
    <2> QED BY <2>3, <2>4
  <1>7. ASSUME NEW b \in Attempts,
               \/ BeginUpload(b) \/ LinkExpires(b) \/ StartTransfer(b) \/ EndTransfer(b)
               \/ CleanUp(b) \/ Lapse(b)
        PROVE  Same /\ (at[x] \in Working => Stays)
    <2>1. UNCHANGED <<local, owner>>
      BY <1>7 DEF BeginUpload, LinkExpires, StartTransfer, EndTransfer, CleanUp, Lapse, rows
    <2>2. ASSUME NEW a \in Attempts, status[a] = "processing" PROVE status'[a] = "processing"
      BY <1>1, <1>7, <2>2 DEF BeginUpload, LinkExpires, StartTransfer, EndTransfer, CleanUp,
                              Lapse, rows, TypeOK, Replaced
    <2>3. at[x] \in Working /\ leased[on[x]] => leased'[on[x]]
      <3>1. CASE Lapse(b)
        <4>1. on[x] # b /\ leased' = [leased EXCEPT ![b] = FALSE]
          BY <3>1 DEF Lapse
        <4> QED BY <1>1, <1>3, <4>1 DEF TypeOK
      <3>2. CASE ~Lapse(b)
        BY <1>7, <3>2 DEF BeginUpload, LinkExpires, StartTransfer, EndTransfer, CleanUp, rows
      <3> QED BY <3>1, <3>2
    <2> QED BY <1>3, <2>1, <2>2, <2>3 DEF Same, Stays, local
  <1>8. ASSUME NEW w \in Workers, NEW b \in Attempts, Claim(w, b)
        PROVE  owner'[on'[x]] = x /\ status'[on'[x]] = "processing" /\ leased'[on'[x]]
    <2>1. CASE w = x
      BY <1>1, <1>8, <2>1 DEF Claim, TypeOK
    <2>2. CASE w # x
      <3>1. at'[x] = at[x] /\ on'[x] = on[x]
        BY <1>1, <1>8, <2>2 DEF Claim, TypeOK
      <3>2. status[on[x]] = "processing" /\ leased[on[x]] /\ owner[on[x]] = x /\ on[x] # b
        BY <1>1, <1>8, <3>1 DEF StillHolds, Held, Claim
      <3> QED BY <1>1, <1>3, <1>8, <3>1, <3>2 DEF Claim, TypeOK
    <2> QED BY <2>1, <2>2
  <1>9. CASE RetireInterrupted
    <2>1. UNCHANGED <<local, owner, leased>>
      BY <1>9 DEF RetireInterrupted
    <2>2. at[x] \in Working => status'[on[x]] = status[on[x]]
      BY <1>1, <1>3, <1>9 DEF RetireInterrupted, Lapsed, StillHolds
    <2> QED BY <1>2, <2>1, <2>2 DEF Same, Stays, local
  <1>10. CASE UNCHANGED vars
    BY <1>2, <1>10 DEF Same, Stays, vars, rows, local
  <1> QED
    BY <1>2, <1>5, <1>6, <1>7, <1>8, <1>9, <1>10 DEF Next

\* No step but an admission adds a copy or an original.
LEMMA OthersAddNothing ==
  ASSUME BudgetInv, IInv', [Next]_vars, \A a \in Attempts : ~BeginUpload(a)
  PROVE  NothingNew
  <1>1. IInv /\ TypeOK
    BY DEF BudgetInv, IInv
  <1>2. ASSUME NEW w \in Workers, Step(w) PROVE NothingNew
    <2>0. at[w] # "idle"
      BY <1>2 DEF Step, LinkRecord, MarkProcessing, Finalize, RefuseStep, FailStep,
                  RecordIngestFailure, BuildReceipt, StartRequestedCheck, SkipRequestedCheck,
                  FinishDone, FailAttempt, RecordHandedOff
    <2>1. PICK b \in Attempts : b = on[w]
      BY <1>1, <2>0 DEF TypeOK
    <2>2. UNCHANGED staged
      BY <1>2 DEF Step, LinkRecord, MarkProcessing, Finalize, RefuseStep, FailStep,
                  RecordIngestFailure, BuildReceipt, StartRequestedCheck, SkipRequestedCheck,
                  FinishDone, FailAttempt, RecordHandedOff, rows
    <2>3. HoldsOriginal(b)' => HoldsOriginal(b)
      <3>1. at[w] \in Working => HoldsOriginal(b)
        BY <2>1 DEF BudgetInv, StillHolds, Held, HoldsOriginal, Active
      <3>2. at[w] \notin Working => FinishDone(w) \/ FailAttempt(w) \/ RecordHandedOff(w)
        BY <1>2 DEF Step, LinkRecord, MarkProcessing, Finalize, RefuseStep, FailStep,
                    RecordIngestFailure, BuildReceipt, StartRequestedCheck, SkipRequestedCheck,
                    Working
      <3>3. CASE FinishDone(w)
        <4>1. record' = record /\ (status' = status \/ status' = [status EXCEPT ![b] = "done"])
          BY <2>1, <3>3 DEF FinishDone
        <4>2. status'[b] = status[b] \/ status'[b] = "done"
          BY <1>1, <2>1, <4>1 DEF TypeOK
        <4> QED BY <4>1, <4>2 DEF HoldsOriginal, Active
      <3>4. CASE FailAttempt(w)
        <4>1. /\ record'[b] = IF record[b] \in Busy THEN "failed" ELSE record[b]
              /\ status'[b] = status[b] \/ status'[b] = "failed"
          BY <1>1, <2>1, <3>4 DEF FailAttempt, TypeOK
        <4> QED BY <4>1 DEF HoldsOriginal, Active, Busy
      <3>5. CASE RecordHandedOff(w)
        <4>1. /\ record'[b] = IF record[b] \in Busy THEN "failed" ELSE record[b]
              /\ status' = status
          BY <1>1, <2>1, <3>5 DEF RecordHandedOff, TypeOK
        <4> QED BY <4>1 DEF HoldsOriginal, Active, Busy
      <3> QED BY <3>1, <3>2, <3>3, <3>4, <3>5
    <2>4. ASSUME NEW a \in Attempts, a # b PROVE status'[a] = status[a] /\ record'[a] = record[a]
      <3>1. \/ UNCHANGED status \/ FinishDone(w) \/ FailAttempt(w)
        BY <1>2 DEF Step, LinkRecord, MarkProcessing, Finalize, RefuseStep, FailStep,
                    RecordIngestFailure, BuildReceipt, StartRequestedCheck, SkipRequestedCheck,
                    RecordHandedOff, rows
      <3>2. FinishDone(w) => UNCHANGED status \/ status' = [status EXCEPT ![b] = "done"]
        BY <2>1 DEF FinishDone
      <3>3. status'[a] = status[a]
        BY <1>1, <2>1, <2>4, <3>1, <3>2 DEF FailAttempt, TypeOK
      <3>4. record'[a] = record[a]
        <4>1. record' = record \/ \E x : record' = [record EXCEPT ![b] = x]
          BY <1>2, <2>1
             DEF Step, LinkRecord, MarkProcessing, Finalize, RefuseStep, FailStep,
                 RecordIngestFailure, BuildReceipt, StartRequestedCheck, SkipRequestedCheck,
                 FinishDone, FailAttempt, RecordHandedOff, rows
        <4> QED BY <1>1, <2>4, <4>1 DEF TypeOK
      <3> QED BY <3>3, <3>4
    <2> QED BY <2>2, <2>3, <2>4 DEF NothingNew, HoldsOriginal
  <1>3. ASSUME NEW w \in Workers, Beat(w) \/ StopWork(w) \/ Stall(w) \/ Crash(w)
        PROVE  NothingNew
    BY <1>3 DEF Beat, StopWork, Stall, Crash, rows, NothingNew, HoldsOriginal
  <1>4. ASSUME NEW b \in Attempts,
               \/ LinkExpires(b) \/ StartTransfer(b) \/ EndTransfer(b)
               \/ CleanUp(b) \/ Lapse(b) \/ \E w \in Workers : Claim(w, b)
        PROVE  NothingNew
    <2>1. /\ record' = record
          /\ staged' = staged \/ staged' = [staged EXCEPT ![b] = FALSE]
      BY <1>4 DEF LinkExpires, StartTransfer, EndTransfer, CleanUp, Lapse, Claim, rows
    <2>2. ASSUME NEW a \in Attempts, status'[a] \in Active PROVE status[a] \in Active
      <3>1. CASE LinkExpires(b) \/ StartTransfer(b) \/ Lapse(b)
        BY <2>2, <3>1 DEF LinkExpires, StartTransfer, Lapse, rows
      <3>2. CASE EndTransfer(b)
        BY <1>1, <2>2, <3>2 DEF EndTransfer, TypeOK, Active
      <3>3. CASE CleanUp(b)
        BY <1>1, <2>2, <3>3 DEF CleanUp, TypeOK, Active
      <3>4. ASSUME NEW w \in Workers, Claim(w, b) PROVE status[a] \in Active
        BY <1>1, <2>2, <3>4 DEF Claim, TypeOK, Active
      <3> QED BY <1>4, <3>1, <3>2, <3>3, <3>4
    <2> QED BY <1>1, <2>1, <2>2 DEF NothingNew, HoldsOriginal, TypeOK
  <1>5. CASE RetireInterrupted
    BY <1>1, <1>5 DEF RetireInterrupted, Lapsed, NothingNew, HoldsOriginal, Active, TypeOK, Busy
  <1>6. CASE UNCHANGED vars
    BY <1>6 DEF vars, rows, NothingNew, HoldsOriginal
  <1> QED BY <1>2, <1>3, <1>4, <1>5, <1>6 DEF Next

\* What the reservation rests on is inductive without stalls.
THEOREM BudgetInductive == Spec => [](NeverStalled => BudgetInv)
  <1>1. Init => BudgetInv
    <2> SUFFICES ASSUME Init PROVE BudgetInv
      OBVIOUS
    <2>1. Copies = {} /\ Originals = {}
      BY DEF Init, Copies, Originals, HoldsOriginal, Active
    <2>2. IsFiniteSet({}) /\ Cardinality({}) = 0
      BY FS_EmptySet
    <2>3. \A w \in Workers : StillHolds(w)
      BY DEF Init, StillHolds, Working
    <2>4. HasRoom
      BY <2>1, <2>2, BoundsAssumption DEF HasRoom, Reserved, Copies, Originals
    <2> QED BY <2>1, <2>2, <2>3, <2>4, InitInv DEF BudgetInv
  <1>2. IInv /\ (NeverStalled => BudgetInv) /\ [Next]_vars => (NeverStalled => BudgetInv)'
    <2> SUFFICES ASSUME IInv, NeverStalled => BudgetInv, [Next]_vars, NeverStalled'
                 PROVE  BudgetInv'
      OBVIOUS
    <2>1. IInv'
      BY NextInv
    <2>2. BudgetInv /\ NeverStalled
      BY <2>1, NoStallYet DEF IInv
    <2>3. \A w \in Workers : StillHolds(w)'
      BY <2>1, <2>2, HoldsOn
    <2>4. IsFiniteSet(Copies)' /\ IsFiniteSet(Originals)' /\ HasRoom'
      BY <2>1, <2>2, BeginBudget, OthersAddNothing, BudgetKept
    <2> QED BY <2>1, <2>3, <2>4 DEF BudgetInv
  <1> QED BY <1>1, <1>2, Inductive, PTL DEF Spec

\* As long as no lease has run out under a live worker, storage has room for every
\* copy and original that admission has promised, for any number of attempts,
\* replacements and crashes.
THEOREM WithinBudget == Spec => []ReservedInBudget
  <1>1. (NeverStalled => BudgetInv) => ReservedInBudget
    BY DEF BudgetInv, ReservedInBudget
  <1> QED BY <1>1, BudgetInductive, PTL
=============================================================================
