--------------------------- MODULE PipelineClaims ---------------------------
(***************************************************************************)
(* The claim protocol of app/pipeline: coordination.py, lease.py and the   *)
(* scheduling half of worker.py, with the ownership test of machine.py.    *)
(*                                                                         *)
(* A claim is the timestamp in check_run.claimed_at.  It is written only   *)
(* by transactions that hold the global advisory lock of guards.py until   *)
(* they commit or abort, so at most one such transaction is in flight      *)
(* ("tx").  A driver whose call timed out does not know whether its commit *)
(* landed: the transaction may still land, or abort, at any later moment.  *)
(*                                                                         *)
(* Time is one discrete clock, read as clock_timestamp() by the database   *)
(* and as loop.time() by the drivers; only differences are ever compared.  *)
(* 0 is NULL.  Each token written is later than every token before it.     *)
(***************************************************************************)
EXTENDS Integers

CONSTANTS
  Drivers,   \* worker tasks, of one process or of several
  Runs,      \* check_run rows
  Nobody,    \* no driver, no run
  Stale,     \* pipeline_claim_stale_seconds
  MaxClock   \* bound of the model: the clock stops there

ASSUME StaleAssumption == Stale \in Nat \ {0}
ASSUME MaxClockAssumption == MaxClock \in Nat
ASSUME NobodyAssumption == Nobody \notin Drivers \union Runs

VARIABLES
  clock,     \* the current time
  claimed,   \* run -> check_run.claimed_at
  writer,    \* run -> driver of its last fenced lifecycle commit
  tx,        \* the transaction holding the guard, its commit sent
  pc,        \* driver -> where its worker_step is
  lease      \* driver -> its ClaimLease, or its admission in progress

vars == <<clock, claimed, writer, tx, pc, lease>>

Steps == {"idle", "admitting", "claiming", "withdrawing",
          "running", "stopping", "releasing"}

NoTx == [driver |-> Nobody, run |-> Nobody, token |-> 0]
Tx == [driver : Drivers, run : Runs, token : Nat \ {0}]

NoLease == [run |-> Nobody, token |-> 0, expires |-> 0, pending |-> 0,
            sentAt |-> 0, attempt |-> 0, renewal |-> "none", lost |-> FALSE]
Lease == [run : Runs \union {Nobody}, token : Nat, expires : Nat,
          pending : Nat,       \* token of a renewal not settled yet, or 0
          sentAt : Nat,        \* start of the attempt that wrote "pending"
          attempt : Nat,       \* start of the attempt in progress
          renewal : {"none", "begun", "sent"},
          lost : BOOLEAN]

Later(s, t) == IF s >= t THEN s ELSE t

\* claimed_at >= clock_timestamp() - stale
Fresh(stored) == stored # 0 /\ stored + Stale >= clock

\* No row anywhere carries a fresh claim.
SlotFree == \A r \in Runs : ~Fresh(claimed[r])

\* ClaimLease._owns: the stored claim is one this lease wrote ...
Owns(l, stored) == stored # 0 /\ stored \in {l.token, l.pending}

\* ... and finding the unsettled renewal in the row settles it.
Adopted(l, stored) ==
  IF Owns(l, stored) /\ stored # l.token
  THEN [l EXCEPT !.token = l.pending, !.pending = 0, !.sentAt = 0,
                 !.expires = Later(@, l.sentAt + Stale)]
  ELSE l

\* Faulty variant of Tokens: the unsettled renewal is forgotten.
TokensSettledOnly(l) == {l.token} \ {0}

\* ClaimLease.tokens
Tokens(l) == {l.token, l.pending} \ {0}

\* No transaction in flight holds the row lock of r.
Unlocked(r) == tx.run # r

TypeOK ==
  /\ clock \in Nat \ {0}
  /\ claimed \in [Runs -> Nat]
  /\ writer \in [Runs -> Drivers \union {Nobody}]
  /\ tx \in Tx \union {NoTx}
  /\ pc \in [Drivers -> Steps]
  /\ lease \in [Drivers -> Lease]

Init ==
  /\ clock = 1
  /\ claimed = [r \in Runs |-> 0]
  /\ writer = [r \in Runs |-> Nobody]
  /\ tx = NoTx
  /\ pc = [d \in Drivers |-> "idle"]
  /\ lease = [d \in Drivers |-> NoLease]

-----------------------------------------------------------------------------
(* Admission: coordination.admit_next, called by worker.worker_step.       *)

\* The local clock is read before anything is sent.
StartAdmission(d) ==
  /\ pc[d] = "idle"
  /\ pc' = [pc EXCEPT ![d] = "admitting"]
  /\ lease' = [lease EXCEPT ![d] = [NoLease EXCEPT !.attempt = clock]]
  /\ UNCHANGED <<clock, claimed, writer, tx>>

\* Guard busy, a fresh claim somewhere, no candidate, or an early timeout.
AdmissionRefused(d) ==
  /\ pc[d] = "admitting"
  /\ pc' = [pc EXCEPT ![d] = "idle"]
  /\ lease' = [lease EXCEPT ![d] = NoLease]
  /\ UNCHANGED <<clock, claimed, writer, tx>>

\* Guard taken, no fresh claim, the candidate locked, the commit sent.
SendClaim(d, r) ==
  /\ pc[d] = "admitting"
  /\ clock < MaxClock
  /\ tx = NoTx
  /\ SlotFree
  /\ tx' = [driver |-> d, run |-> r, token |-> clock]
  /\ clock' = clock + 1
  /\ pc' = [pc EXCEPT ![d] = "claiming"]
  /\ lease' = [lease EXCEPT ![d].run = r, ![d].token = clock,
                            ![d].expires = lease[d].attempt + Stale]
  /\ UNCHANGED <<claimed, writer>>

\* The reply arrives: the claim is stored, and the lease starts, unless the
\* task is cancelled before it enters execution and only releases.
ClaimReply(d) ==
  /\ pc[d] = "claiming"
  /\ claimed' = [claimed EXCEPT ![tx.run] = tx.token]
  /\ tx' = NoTx
  /\ \E next \in {"running", "releasing"} : pc' = [pc EXCEPT ![d] = next]
  /\ UNCHANGED <<clock, writer, lease>>

\* Timed out with the commit sent: the driver tries to take the claim back.
ClaimTimeout(d) ==
  /\ pc[d] = "claiming"
  /\ pc' = [pc EXCEPT ![d] = "withdrawing"]
  /\ UNCHANGED <<clock, claimed, writer, tx, lease>>

\* Any other exception: rolled back and raised, the claim left to expire.
ClaimError(d) ==
  /\ pc[d] = "claiming"
  /\ pc' = [pc EXCEPT ![d] = "idle"]
  /\ lease' = [lease EXCEPT ![d] = NoLease]
  /\ UNCHANGED <<clock, claimed, writer, tx>>

\* coordination.release_claim, from _withdraw_unconfirmed_claim or at the end
\* of a turn: it waits for the row lock and clears only its own tokens.
ReleaseClaim(d) ==
  /\ pc[d] \in {"withdrawing", "releasing"}
  /\ Unlocked(lease[d].run)
  /\ claimed' = [claimed EXCEPT ![lease[d].run] =
                   IF @ \in Tokens(lease[d]) THEN 0 ELSE @]
  /\ pc' = [pc EXCEPT ![d] = "idle"]
  /\ lease' = [lease EXCEPT ![d] = NoLease]
  /\ UNCHANGED <<clock, writer, tx>>

\* It times out or fails: the claim is left to expire.
ReleaseDeferred(d) ==
  /\ pc[d] \in {"withdrawing", "releasing"}
  /\ pc' = [pc EXCEPT ![d] = "idle"]
  /\ lease' = [lease EXCEPT ![d] = NoLease]
  /\ UNCHANGED <<clock, claimed, writer, tx>>

-----------------------------------------------------------------------------
(* Renewal: ClaimLease._renew, under the lease's lock.                     *)

StartRenewal(d) ==
  /\ pc[d] = "running"
  /\ lease[d].renewal = "none"
  /\ ~lease[d].lost
  /\ lease' = [lease EXCEPT ![d].renewal = "begun", ![d].attempt = clock]
  /\ UNCHANGED <<clock, claimed, writer, tx, pc>>

\* What _loop does after every _renew: an expired lease with nothing left to
\* settle is lost.
AfterRenewal(l) ==
  [l EXCEPT !.renewal = "none",
            !.lost = @ \/ (clock >= l.expires /\ l.pending = 0)]

\* Guard and row lock taken: the claim is still ours and fresh, so a new token
\* is written; the attempt stays unsettled until its reply.
SendRenewal(d) ==
  LET l == lease[d]
      stored == claimed[l.run]
  IN
  /\ l.renewal = "begun"
  /\ clock < MaxClock
  /\ tx = NoTx
  /\ Owns(l, stored)
  /\ Fresh(stored)
  /\ tx' = [driver |-> d, run |-> l.run, token |-> clock]
  /\ clock' = clock + 1
  /\ lease' = [lease EXCEPT ![d] = [Adopted(l, stored) EXCEPT
                 !.renewal = "sent", !.pending = clock, !.sentAt = l.attempt]]
  /\ UNCHANGED <<claimed, writer, pc>>

\* Guard and row lock taken: the claim is another's, or stale.
RenewalRefused(d) ==
  LET l == lease[d]
      stored == claimed[l.run]
  IN
  /\ l.renewal = "begun"
  /\ tx = NoTx
  /\ ~(Owns(l, stored) /\ Fresh(stored))
  /\ lease' = [lease EXCEPT ![d] =
                 AfterRenewal([Adopted(l, stored) EXCEPT !.lost = TRUE])]
  /\ UNCHANGED <<clock, claimed, writer, tx, pc>>

\* Faulty variant of RenewalReply: the local expiry runs from the reply, not
\* from the start of the attempt.
RenewalReplyCountedLate(d) ==
  LET l == lease[d] IN
  /\ l.renewal = "sent"
  /\ claimed' = [claimed EXCEPT ![tx.run] = tx.token]
  /\ tx' = NoTx
  /\ lease' = [lease EXCEPT ![d] =
                 AfterRenewal([l EXCEPT !.token = l.pending, !.pending = 0,
                                        !.sentAt = 0,
                                        !.expires = clock + Stale])]
  /\ UNCHANGED <<clock, writer, pc>>

RenewalReply(d) ==
  LET l == lease[d] IN
  /\ l.renewal = "sent"
  /\ claimed' = [claimed EXCEPT ![tx.run] = tx.token]
  /\ tx' = NoTx
  /\ lease' = [lease EXCEPT ![d] =
                 AfterRenewal([l EXCEPT !.token = l.pending, !.pending = 0,
                                        !.sentAt = 0,
                                        !.expires = l.attempt + Stale])]
  /\ UNCHANGED <<clock, writer, pc>>

\* Guard busy, a database error or a timeout; the commit may have been sent.
\* An exception of any other kind ends the renewals.
RenewalDeferred(d) ==
  /\ lease[d].renewal # "none"
  /\ \E raised \in BOOLEAN :
       lease' = [lease EXCEPT ![d] =
                   AfterRenewal([lease[d] EXCEPT !.lost = @ \/ raised])]
  /\ UNCHANGED <<clock, claimed, writer, tx, pc>>

-----------------------------------------------------------------------------
(* The analytical turn: machine.run_check_run, worker._execute.            *)

\* ClaimLease.checkpoint; its read may fail.
Checkpoint(d) ==
  LET l == lease[d]
      stored == claimed[l.run]
  IN
  /\ pc[d] = "running"
  /\ l.renewal = "none"
  /\ ~l.lost
  /\ clock < l.expires \/ l.pending # 0
  /\ \E answered \in BOOLEAN :
       LET seen == IF answered THEN Adopted(l, stored) ELSE l
           refuted == answered /\ ~(Owns(l, stored) /\ Fresh(stored))
       IN IF clock < seen.expires /\ ~refuted
          THEN lease' = [lease EXCEPT ![d] = seen] /\ UNCHANGED pc
          ELSE /\ lease' = [lease EXCEPT ![d] = [seen EXCEPT !.lost = TRUE]]
               /\ pc' = [pc EXCEPT ![d] = "stopping"]
  /\ UNCHANGED <<clock, claimed, writer, tx>>

\* ClaimLease._settle_pending, on the way to current_token.
Settle(d) ==
  /\ pc[d] = "running"
  /\ lease[d].renewal = "none"
  /\ lease[d].pending # 0
  /\ ~lease[d].lost
  /\ lease' = [lease EXCEPT ![d] = Adopted(lease[d], claimed[lease[d].run])]
  /\ UNCHANGED <<clock, claimed, writer, tx, pc>>

\* Faulty variant of FencedCommit: the lease is trusted without its expiry, and
\* the row is not read.
CommitUnfenced(d) ==
  /\ pc[d] = "running"
  /\ tx = NoTx
  /\ lease[d].renewal = "none"
  /\ lease[d].pending = 0
  /\ ~lease[d].lost
  /\ writer' = [writer EXCEPT ![lease[d].run] = d]
  /\ \E next \in {"running", "stopping"} : pc' = [pc EXCEPT ![d] = next]
  /\ UNCHANGED <<clock, claimed, tx, lease>>

\* machine._commit_owned: guard, row lock, _assert_claim_owner with the token
\* of current_token, commit.  Its reply may be lost, which ends the turn.
FencedCommit(d) ==
  LET l == lease[d] IN
  /\ pc[d] = "running"
  /\ tx = NoTx
  /\ l.renewal = "none"
  /\ l.pending = 0
  /\ ~l.lost
  /\ clock < l.expires
  /\ claimed[l.run] = l.token
  /\ Fresh(l.token)
  /\ writer' = [writer EXCEPT ![l.run] = d]
  /\ \E next \in {"running", "stopping"} : pc' = [pc EXCEPT ![d] = next]
  /\ UNCHANGED <<clock, claimed, tx, lease>>

\* The turn ends: the run is over, ClaimLost, ClaimYield, or an error.
EndTurn(d) ==
  /\ pc[d] = "running"
  /\ pc' = [pc EXCEPT ![d] = "stopping"]
  /\ UNCHANGED <<clock, claimed, writer, tx, lease>>

\* ClaimLease.stop waits for the renewal in progress.
StopLease(d) ==
  /\ pc[d] = "stopping"
  /\ lease[d].renewal = "none"
  /\ pc' = [pc EXCEPT ![d] = "releasing"]
  /\ UNCHANGED <<clock, claimed, writer, tx, lease>>

-----------------------------------------------------------------------------
(* The environment.                                                        *)

\* A transaction whose sender no longer waits lands ...
Orphaned ==
  /\ tx # NoTx
  /\ pc[tx.driver] # "claiming"
  /\ lease[tx.driver].renewal # "sent"

Land ==
  /\ Orphaned
  /\ claimed' = [claimed EXCEPT ![tx.run] = tx.token]
  /\ tx' = NoTx
  /\ UNCHANGED <<clock, writer, pc, lease>>

\* ... or aborts.
Abort ==
  /\ Orphaned
  /\ tx' = NoTx
  /\ UNCHANGED <<clock, claimed, writer, pc, lease>>

\* The process dies and restarts.
Crash(d) ==
  /\ pc[d] # "idle"
  /\ pc' = [pc EXCEPT ![d] = "idle"]
  /\ lease' = [lease EXCEPT ![d] = NoLease]
  /\ UNCHANGED <<clock, claimed, writer, tx>>

Tick ==
  /\ clock < MaxClock
  /\ clock' = clock + 1
  /\ UNCHANGED <<claimed, writer, tx, pc, lease>>

Admission(d) ==
  \/ StartAdmission(d)
  \/ AdmissionRefused(d)
  \/ \E r \in Runs : SendClaim(d, r)
  \/ ClaimReply(d)
  \/ ClaimTimeout(d)
  \/ ClaimError(d)

Renewal(d) ==
  \/ StartRenewal(d)
  \/ SendRenewal(d)
  \/ RenewalRefused(d)
  \/ RenewalReply(d)
  \/ RenewalDeferred(d)

Turn(d) ==
  \/ Checkpoint(d)
  \/ Settle(d)
  \/ FencedCommit(d)
  \/ EndTurn(d)
  \/ StopLease(d)
  \/ ReleaseClaim(d)
  \/ ReleaseDeferred(d)

Next ==
  \/ \E d \in Drivers : Admission(d) \/ Renewal(d) \/ Turn(d) \/ Crash(d)
  \/ Land
  \/ Abort
  \/ Tick

Spec == Init /\ [][Next]_vars

-----------------------------------------------------------------------------
(* Correctness.                                                            *)

\* The driver has a lease it has not given up and whose local expiry is ahead:
\* it goes on working, and current_token hands out its token.
Believes(d) ==
  /\ pc[d] \in {"running", "stopping", "releasing"}
  /\ ~lease[d].lost
  /\ clock < lease[d].expires

\* At most one driver believes it holds the slot, whatever calls time out and
\* whenever their commits land (coordination.py: a fresh claim anywhere
\* reserves the slot; lease.py: the local expiry is conservative).
SoleBeliever ==
  \A d1, d2 \in Drivers : Believes(d1) /\ Believes(d2) => d1 = d2

\* The row of a driver that believes it holds the slot carries one of its
\* tokens: no release, withdrawal or late commit of another driver, or of an
\* earlier life of its own, has cleared or replaced its claim.
BelieverHoldsClaim ==
  \A d \in Drivers : Believes(d) => Owns(lease[d], claimed[lease[d].run])

\* An executed release of a live claim frees the slot at once, even when the
\* last renewal was never settled and whatever lands later: ClaimLease.tokens
\* names every value the row may hold, so that the next run does not wait for
\* the stale interval.
ReleaseFreesSlot ==
  [][\A d \in Drivers :
       LET stored == claimed[lease[d].run] IN
       ReleaseClaim(d) /\ Owns(lease[d], stored) /\ Fresh(stored)
         => SlotFree']_vars

-----------------------------------------------------------------------------
(* Why they hold: the inductive invariant of PipelineClaims_proofs.        *)

\* A driver has a lease from the moment it sends its claim.
Leasing(d) == pc[d] \notin {"idle", "admitting"}

\* Tokens grow with the renewals, and the local expiry never outlasts the
\* token it is counted from.
Ordered(l) ==
  /\ l.run \in Runs
  /\ l.token # 0
  /\ l.expires <= l.token + Stale
  /\ l.pending # 0 => l.token < l.pending /\ l.sentAt <= l.pending

\* All that a lease holds comes from the past.
LeaseInOrder(d) ==
  LET l == lease[d] IN
  /\ l.attempt <= clock
  /\ l.token < clock
  /\ l.pending < clock
  /\ IF Leasing(d) THEN Ordered(l) ELSE l.token = 0 /\ l.pending = 0
  /\ l.renewal # "none" => pc[d] \in {"running", "stopping"}

\* A driver that waits for a reply is the sender of the transaction in flight.
AwaitsReply(d) ==
  /\ pc[d] = "claiming" =>
       tx = [driver |-> d, run |-> lease[d].run, token |-> lease[d].token]
  /\ lease[d].renewal = "sent" =>
       /\ tx = [driver |-> d, run |-> lease[d].run, token |-> lease[d].pending]
       /\ lease[d].sentAt = lease[d].attempt

\* The last token a lease has written or tried to write.
LastToken(l) == IF l.pending # 0 THEN l.pending ELSE l.token

\* Whoever sent the transaction in flight has no lease any more, or knows its
\* token as the last one of the lease.
SenderKnows ==
  tx # NoTx /\ Leasing(tx.driver) =>
    lease[tx.driver].run = tx.run /\ LastToken(lease[tx.driver]) = tx.token

\* Two claims are so far apart that the earlier was stale when the later one
\* was written.
ClaimsApart ==
  \A r, s \in Runs :
    r # s /\ claimed[r] # 0 /\ claimed[s] # 0 =>
      claimed[r] + Stale < claimed[s] \/ claimed[s] + Stale < claimed[r]

\* The transaction in flight was sent after the claims of all other rows, and
\* those of all other drivers, had become stale.
SentOverStale ==
  tx # NoTx =>
    /\ tx.token < clock
    /\ \A r \in Runs :
         r # tx.run /\ claimed[r] # 0 => claimed[r] + Stale < tx.token
    /\ \A d \in Drivers \ {tx.driver} :
         Leasing(d) /\ claimed[lease[d].run] \in Tokens(lease[d]) =>
           claimed[lease[d].run] + Stale < tx.token

\* No two drivers count on the same token.
TokensDiffer ==
  \A d1, d2 \in Drivers : d1 # d2 => Tokens(lease[d1]) \cap Tokens(lease[d2]) = {}

\* The conjunction is inductive.  Of the code it says that every token a row or
\* a lease holds was written over claims already stale, in flight or landed:
\* the reason why expiry alone, with no lock held between calls, keeps two
\* drivers apart.
IInv ==
  /\ TypeOK
  /\ \A r \in Runs : claimed[r] < clock
  /\ \A d \in Drivers : LeaseInOrder(d) /\ AwaitsReply(d)
  /\ SenderKnows
  /\ ClaimsApart
  /\ SentOverStale
  /\ TokensDiffer
  /\ BelieverHoldsClaim

-----------------------------------------------------------------------------
(* The claim protocol implements one exclusive slot.                       *)

\* The slot is taken while a claim is fresh or its writing is in flight.
TakenRun ==
  IF tx # NoTx THEN tx.run
  ELSE IF SlotFree THEN Nobody
  ELSE CHOOSE r \in Runs : Fresh(claimed[r])

TakenToken == IF tx # NoTx THEN tx.token ELSE claimed[TakenRun]

Holders ==
  {d \in Drivers : /\ pc[d] # "idle"
                   /\ lease[d].run = TakenRun
                   /\ TakenToken \in Tokens(lease[d])}

Slot == INSTANCE ExclusiveSlot WITH
  slot <- [run |-> TakenRun,
           driver |-> IF TakenRun = Nobody \/ Holders = {} THEN Nobody
                      ELSE CHOOSE d \in Holders : TRUE]

\* Every step of the protocol is a step of the exclusive slot, or none: the
\* slot is never handed over while taken, and only its holder commits.
ImplementsExclusiveSlot == Slot!Spec
=============================================================================
