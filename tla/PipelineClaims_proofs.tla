----------------------- MODULE PipelineClaims_proofs -----------------------
(***************************************************************************)
(* Proofs about PipelineClaims: the inductive invariant IInv, and from it  *)
(* type correctness, the safety invariants and that the protocol           *)
(* implements ExclusiveSlot, for any sets of drivers and runs, any claim   *)
(* lifetime and any bound of the clock.                                    *)
(*                                                                         *)
(* Most steps change nothing but the place and the lease of one driver;    *)
(* LocalStep says once what such a step must respect.  The steps that      *)
(* write a claim, send a transaction or let time pass have lemmas of their *)
(* own.  The end of the module is about drivers that outlive their claim   *)
(* and about the order of turns (RunTurns).                                *)
(***************************************************************************)
EXTENDS
  PipelineClaims, RunTurns, Sequences, FiniteSetTheorems, WellFoundedInduction, TLAPS

USE DEF Steps

LEMMA InitInv == Init => IInv
<1> SUFFICES ASSUME Init PROVE IInv
  OBVIOUS
<1> USE NobodyAssumption, StaleAssumption
<1>1. TypeOK
  BY DEF Init, TypeOK, NoTx, NoLease, Lease
<1>2. \A r \in Runs : claimed[r] < clock
  BY DEF Init
<1>3. \A d \in Drivers : LeaseInOrder(d) /\ AwaitsReply(d)
  <2> SUFFICES ASSUME NEW d \in Drivers
               PROVE  LeaseInOrder(d) /\ AwaitsReply(d)
    OBVIOUS
  <2>1. lease[d] = NoLease /\ pc[d] = "idle" /\ clock = 1
    BY DEF Init
  <2>2. LeaseInOrder(d)
    BY <2>1 DEF LeaseInOrder, Leasing, NoLease
  <2>3. AwaitsReply(d)
    BY <2>1 DEF AwaitsReply, NoLease
  <2> QED
    BY <2>2, <2>3
<1>4. SenderKnows /\ ClaimsApart /\ SentOverStale /\ TokensDiffer
  BY DEF Init, SenderKnows, ClaimsApart, SentOverStale, TokensDiffer, Tokens, NoLease
<1>5. BelieverHoldsClaim
  BY DEF Init, BelieverHoldsClaim, Believes
<1> QED
  BY <1>1, <1>2, <1>3, <1>4, <1>5 DEF IInv

\* A step of one driver that touches no claim and no transaction keeps the
\* invariant if the driver gains no token, keeps its run and its last token as
\* long as it has a lease, and believes only what its row confirms.
LEMMA LocalStep ==
  ASSUME IInv,
         NEW d \in Drivers, NEW l \in Lease, NEW p \in Steps,
         lease' = [lease EXCEPT ![d] = l],
         pc' = [pc EXCEPT ![d] = p],
         UNCHANGED <<clock, claimed, tx>>,
         writer' \in [Runs -> Drivers \union {Nobody}],
         LeaseInOrder(d)',
         AwaitsReply(d)',
         Tokens(l) \subseteq Tokens(lease[d]),
         p \notin {"idle", "admitting"} =>
           Leasing(d) /\ l.run = lease[d].run /\ LastToken(l) = LastToken(lease[d]),
         Believes(d)' => Owns(l, claimed[l.run])
  PROVE  IInv'
<1>1. TypeOK'
  BY DEF IInv, TypeOK
<1>2. (\A r \in Runs : claimed[r] < clock)'
  BY DEF IInv
<1>3. \A e \in Drivers : lease'[e] = IF e = d THEN l ELSE lease[e]
  BY DEF IInv, TypeOK
<1>4. \A e \in Drivers : pc'[e] = IF e = d THEN p ELSE pc[e]
  BY DEF IInv, TypeOK
<1>5. (\A e \in Drivers : LeaseInOrder(e) /\ AwaitsReply(e))'
  BY <1>3, <1>4 DEF IInv, LeaseInOrder, AwaitsReply, Leasing
<1>6. SenderKnows'
  <2> SUFFICES ASSUME tx # NoTx, Leasing(tx.driver)'
               PROVE  /\ lease'[tx.driver].run = tx.run
                      /\ LastToken(lease'[tx.driver]) = tx.token
    BY DEF SenderKnows
  <2>1. tx.driver \in Drivers
    BY DEF IInv, TypeOK, Tx
  <2>2. CASE tx.driver = d
    BY <2>1, <2>2, <1>3, <1>4 DEF IInv, SenderKnows, Leasing
  <2>3. CASE tx.driver # d
    BY <2>1, <2>3, <1>3, <1>4 DEF IInv, SenderKnows, Leasing
  <2> QED
    BY <2>2, <2>3
<1>7. ClaimsApart'
  BY DEF IInv, ClaimsApart
<1>8. SentOverStale'
  <2> SUFFICES ASSUME tx # NoTx
               PROVE  /\ tx.token < clock
                      /\ \A r \in Runs : r # tx.run /\ claimed[r] # 0 =>
                            claimed[r] + Stale < tx.token
                      /\ \A e \in Drivers \ {tx.driver} :
                           Leasing(e)' /\ claimed[lease'[e].run] \in Tokens(lease'[e]) =>
                             claimed[lease'[e].run] + Stale < tx.token
    BY DEF SentOverStale
  <2>1. SentOverStale
    BY DEF IInv
  <2>2. ASSUME NEW e \in Drivers \ {tx.driver}, Leasing(e)',
               claimed[lease'[e].run] \in Tokens(lease'[e])
        PROVE  claimed[lease'[e].run] + Stale < tx.token
    <3>1. /\ Leasing(e)
          /\ lease'[e].run = lease[e].run
          /\ Tokens(lease'[e]) \subseteq Tokens(lease[e])
      BY <2>2, <1>3, <1>4 DEF Leasing
    <3> QED
      BY <3>1, <2>1, <2>2 DEF SentOverStale
  <2> QED
    BY <2>1, <2>2 DEF SentOverStale
<1>9. TokensDiffer'
  <2> SUFFICES ASSUME NEW e \in Drivers, NEW f \in Drivers, e # f
               PROVE  Tokens(lease'[e]) \cap Tokens(lease'[f]) = {}
    BY DEF TokensDiffer
  <2>1. Tokens(lease'[e]) \subseteq Tokens(lease[e])
    BY <1>3
  <2>2. Tokens(lease'[f]) \subseteq Tokens(lease[f])
    BY <1>3
  <2> QED
    BY <2>1, <2>2 DEF IInv, TokensDiffer
<1>10. BelieverHoldsClaim'
  <2> SUFFICES ASSUME NEW e \in Drivers, Believes(e)'
               PROVE  Owns(lease'[e], claimed[lease'[e].run])
    BY DEF BelieverHoldsClaim, Owns
  <2>1. CASE e = d
    BY <2>1, <1>3
  <2>2. CASE e # d
    BY <2>2, <1>3, <1>4 DEF IInv, BelieverHoldsClaim, Believes
  <2> QED
    BY <2>1, <2>2
<1> QED
  BY <1>1, <1>2, <1>5, <1>6, <1>7, <1>8, <1>9, <1>10 DEF IInv

-----------------------------------------------------------------------------
(* What adopting an unsettled renewal does to a lease.                     *)

LEMMA AdoptedFacts ==
  ASSUME NEW l \in Lease, NEW stored \in Nat, Ordered(l)
  PROVE  LET a == Adopted(l, stored) IN
         /\ a \in Lease
         /\ a.run = l.run /\ a.attempt = l.attempt
         /\ a.renewal = l.renewal /\ a.lost = l.lost
         /\ Ordered(a)
         /\ LastToken(a) = LastToken(l)
         /\ Tokens(a) \subseteq Tokens(l)
         /\ a.token \in Tokens(l)
         /\ a.pending \in {0, l.pending}
         /\ a.sentAt \in {0, l.sentAt}
         /\ Owns(l, stored) => stored = a.token
         /\ ~Owns(l, stored) => a = l
<1> DEFINE a == Adopted(l, stored)
<1> USE StaleAssumption
<1>1. CASE ~(Owns(l, stored) /\ stored # l.token)
  <2>1. a = l
    BY <1>1 DEF Adopted
  <2> QED
    BY <1>1, <2>1 DEF Owns, Tokens, Lease, Ordered
<1>2. CASE Owns(l, stored) /\ stored # l.token
  <2>1. stored = l.pending /\ l.pending # 0
    BY <1>2 DEF Owns
  <2> DEFINE expires == Later(l.expires, l.sentAt + Stale)
             token == l.pending
             settled == [l EXCEPT !.token = token, !.pending = 0]
  <2>2. expires \in Nat /\ token \in Nat
    BY DEF Later, Lease
  <2>3. a = [l EXCEPT !.token = l.pending, !.pending = 0, !.sentAt = 0,
                      !.expires = expires]
    BY <1>2 DEF Adopted
  <2>4. a \in Lease
    <3> HIDE DEF expires, token
    <3>1. settled \in Lease
      BY <2>2 DEF Lease
    <3>2. a = [settled EXCEPT !.sentAt = 0, !.expires = expires]
      BY <2>3 DEF token
    <3> HIDE DEF settled, a
    <3>3. [settled EXCEPT !.sentAt = 0, !.expires = expires] \in Lease
      BY <2>2, <3>1 DEF Lease
    <3> QED
      BY <3>2, <3>3
  <2>5. /\ a.run = l.run /\ a.attempt = l.attempt
        /\ a.renewal = l.renewal /\ a.lost = l.lost
        /\ a.token = l.pending /\ a.pending = 0 /\ a.sentAt = 0
        /\ a.expires = Later(l.expires, l.sentAt + Stale)
    BY <2>3 DEF Lease
  <2>6. Later(l.expires, l.sentAt + Stale) <= l.pending + Stale
    BY <2>1 DEF Later, Ordered, Lease
  <2>7. Ordered(a)
    BY <2>1, <2>5, <2>6 DEF Ordered
  <2> QED
    BY <2>1, <2>4, <2>5, <2>7, <1>2 DEF LastToken, Tokens
<1> QED
  BY <1>1, <1>2

\* What _loop adds after a renewal changes no token and no expiry.
LEMMA AfterRenewalFacts ==
  ASSUME NEW l \in Lease
  PROVE  LET a == AfterRenewal(l) IN
         /\ a \in Lease
         /\ a.run = l.run /\ a.attempt = l.attempt
         /\ a.token = l.token /\ a.pending = l.pending
         /\ a.sentAt = l.sentAt /\ a.expires = l.expires
         /\ a.renewal = "none"
         /\ l.lost => a.lost
<1> DEFINE lost == l.lost \/ (clock >= l.expires /\ l.pending = 0)
<1>1. AfterRenewal(l) = [l EXCEPT !.renewal = "none", !.lost = lost]
  BY DEF AfterRenewal
<1>2. lost \in BOOLEAN /\ (l.lost => lost)
  OBVIOUS
<1> HIDE DEF lost
<1> QED
  BY <1>1, <1>2 DEF Lease

-----------------------------------------------------------------------------
(* The steps of one driver that touch no claim and no transaction.         *)

LEMMA IdleInv ==
  ASSUME IInv, NEW d \in Drivers,
         \/ StartAdmission(d) \/ AdmissionRefused(d) \/ ClaimError(d)
         \/ ReleaseDeferred(d) \/ Crash(d)
  PROVE  IInv'
<1> USE NobodyAssumption, StaleAssumption
<1>1. PICK l \in Lease, p \in {"idle", "admitting"} :
        /\ lease' = [lease EXCEPT ![d] = l]
        /\ pc' = [pc EXCEPT ![d] = p]
        /\ l.token = 0 /\ l.pending = 0 /\ l.renewal = "none"
        /\ l.attempt <= clock
  <2>1. CASE StartAdmission(d)
    <3> DEFINE l == [NoLease EXCEPT !.attempt = clock]
    <3>1. clock \in Nat
      BY DEF IInv, TypeOK
    <3>2. /\ NoLease \in Lease
          /\ NoLease.token = 0 /\ NoLease.pending = 0 /\ NoLease.renewal = "none"
      BY DEF NoLease, Lease
    <3>4. l \in Lease
      BY <3>1, <3>2 DEF Lease
    <3>5. /\ l.token = 0 /\ l.pending = 0 /\ l.renewal = "none"
          /\ l.attempt <= clock
      BY <3>1, <3>2 DEF Lease
    <3>3. lease' = [lease EXCEPT ![d] = l] /\ pc' = [pc EXCEPT ![d] = "admitting"]
      BY <2>1 DEF StartAdmission
    <3> QED
      BY <3>3, <3>4, <3>5
  <2>2. CASE AdmissionRefused(d) \/ ClaimError(d) \/ ReleaseDeferred(d) \/ Crash(d)
    <3>1. clock \in Nat
      BY DEF IInv, TypeOK
    <3>2. /\ NoLease.token = 0 /\ NoLease.pending = 0 /\ NoLease.renewal = "none"
          /\ NoLease.attempt <= clock
          /\ NoLease \in Lease
      BY <3>1 DEF NoLease, Lease
    <3>3. lease' = [lease EXCEPT ![d] = NoLease] /\ pc' = [pc EXCEPT ![d] = "idle"]
      BY <2>2 DEF AdmissionRefused, ClaimError, ReleaseDeferred, Crash
    <3> QED
      BY <3>2, <3>3
  <2> QED
    BY <2>1, <2>2
<1>2. UNCHANGED <<clock, claimed, writer, tx>>
  BY DEF StartAdmission, AdmissionRefused, ClaimError, ReleaseDeferred, Crash
<1>3. lease'[d] = l /\ pc'[d] = p
  BY <1>1 DEF IInv, TypeOK
<1>4. LeaseInOrder(d)'
  BY <1>1, <1>2, <1>3 DEF LeaseInOrder, Leasing, IInv, TypeOK
<1>5. AwaitsReply(d)'
  BY <1>1, <1>3 DEF AwaitsReply
<1>6. Tokens(l) = {} /\ ~Believes(d)'
  BY <1>1, <1>3 DEF Tokens, Believes
<1>7. writer' \in [Runs -> Drivers \union {Nobody}]
  BY <1>2 DEF IInv, TypeOK
<1> QED
  BY <1>1, <1>2, <1>4, <1>5, <1>6, <1>7, LocalStep

\* A driver that keeps its lease as it is and only moves on.
LEMMA MoveInv ==
  ASSUME IInv, NEW d \in Drivers,
         ClaimTimeout(d) \/ FencedCommit(d) \/ EndTurn(d) \/ StopLease(d)
  PROVE  IInv'
<1>1. PICK p \in Steps \ {"idle", "admitting", "claiming"} :
        pc' = [pc EXCEPT ![d] = p]
  BY DEF ClaimTimeout, FencedCommit, EndTurn, StopLease
<1>2. UNCHANGED <<clock, claimed, tx, lease>> /\ Leasing(d)
  BY DEF ClaimTimeout, FencedCommit, EndTurn, StopLease, Leasing
<1>3. lease' = [lease EXCEPT ![d] = lease[d]] /\ lease[d] \in Lease
  BY <1>2 DEF IInv, TypeOK
<1>4. pc'[d] = p
  BY <1>1 DEF IInv, TypeOK
<1>5. LeaseInOrder(d)'
  <2>1. LeaseInOrder(d)
    BY DEF IInv
  <2>2. lease[d].renewal # "none" => p \in {"running", "stopping"}
    <3>1. CASE EndTurn(d)
      BY <3>1, <1>4 DEF EndTurn, IInv, TypeOK
    <3>2. CASE ClaimTimeout(d)
      BY <3>2, <2>1 DEF ClaimTimeout, LeaseInOrder
    <3>3. CASE FencedCommit(d) \/ StopLease(d)
      BY <3>3 DEF FencedCommit, StopLease
    <3> QED
      BY <3>1, <3>2, <3>3
  <2> QED
    BY <2>1, <2>2, <1>2, <1>4 DEF LeaseInOrder, Leasing, Ordered
<1>6. AwaitsReply(d)'
  BY <1>1, <1>2, <1>4 DEF AwaitsReply, IInv
<1>7. Believes(d)' => Owns(lease[d], claimed[lease[d].run])
  <2>1. CASE ClaimTimeout(d)
    BY <2>1 DEF ClaimTimeout, Believes, IInv, TypeOK
  <2>2. CASE FencedCommit(d) \/ EndTurn(d) \/ StopLease(d)
    BY <2>2, <1>2 DEF FencedCommit, EndTurn, StopLease, Believes, IInv,
                      BelieverHoldsClaim
  <2> QED
    BY <2>1, <2>2
<1>8. writer' \in [Runs -> Drivers \union {Nobody}]
  BY DEF ClaimTimeout, FencedCommit, EndTurn, StopLease, IInv, TypeOK
<1> QED
  BY <1>1, <1>2, <1>3, <1>5, <1>6, <1>7, <1>8, LocalStep

\* A driver that keeps its claim and changes its lease, with nothing sent that
\* it still waits for.
LEMMA LeaseStep ==
  ASSUME IInv, NEW d \in Drivers, NEW l \in Lease,
         NEW p \in {"running", "stopping", "releasing"},
         pc[d] \in {"running", "stopping"},
         lease' = [lease EXCEPT ![d] = l],
         pc' = [pc EXCEPT ![d] = p],
         UNCHANGED <<clock, claimed, writer, tx>>,
         Ordered(l), l.run = lease[d].run, l.attempt <= clock,
         l.renewal # "sent",
         l.renewal # "none" => p # "releasing",
         Tokens(l) \subseteq Tokens(lease[d]),
         LastToken(l) = LastToken(lease[d]),
         \/ l.lost
         \/ Owns(l, claimed[l.run])
         \/ /\ ~lease[d].lost /\ l.expires = lease[d].expires
            /\ l.token = lease[d].token /\ l.pending = lease[d].pending
  PROVE  IInv'
<1>1. lease'[d] = l /\ pc'[d] = p
  BY DEF IInv, TypeOK
<1>2. LeaseInOrder(d)'
  <2>1. LeaseInOrder(d) /\ Leasing(d)
    BY DEF IInv, Leasing
  <2>2. l.token < clock /\ l.pending < clock
    <3>1. clock \in Nat \ {0} /\ lease[d] \in Lease
      BY DEF IInv, TypeOK
    <3>2. \A t \in Tokens(lease[d]) : t < clock
      BY <2>1, <3>1 DEF LeaseInOrder, Tokens
    <3>3. l.token \in Tokens(lease[d]) \union {0} /\ l.pending \in Tokens(lease[d]) \union {0}
      BY DEF Tokens
    <3> QED
      BY <3>1, <3>2, <3>3
  <2> QED
    BY <1>1, <2>2 DEF LeaseInOrder, Leasing, Ordered
<1>3. AwaitsReply(d)'
  BY <1>1 DEF AwaitsReply
<1>4. ASSUME Believes(d)' PROVE Owns(l, claimed[l.run])
  <2>1. clock < l.expires /\ ~l.lost
    BY <1>1, <1>4 DEF Believes
  <2>2. CASE Owns(l, claimed[l.run])
    BY <2>2
  <2>3. CASE /\ ~lease[d].lost /\ l.expires = lease[d].expires
             /\ l.token = lease[d].token /\ l.pending = lease[d].pending
    <3>1. Believes(d)
      BY <2>1, <2>3 DEF Believes
    <3>2. Owns(lease[d], claimed[lease[d].run])
      BY <3>1 DEF IInv, BelieverHoldsClaim
    <3> QED
      BY <2>3, <3>2 DEF Owns
  <2> QED
    BY <2>1, <2>2, <2>3
<1>5. writer' \in [Runs -> Drivers \union {Nobody}] /\ Leasing(d) /\ p \in Steps
  BY DEF IInv, TypeOK, Leasing
<1> QED
  BY <1>2, <1>3, <1>4, <1>5, LocalStep

LEMMA StartRenewalInv ==
  ASSUME IInv, NEW d \in Drivers, StartRenewal(d)
  PROVE  IInv'
<1> DEFINE old == lease[d]
           l == [old EXCEPT !.renewal = "begun", !.attempt = clock]
<1>1. old \in Lease /\ clock \in Nat /\ Ordered(old) /\ pc[d] = "running"
  BY DEF StartRenewal, IInv, TypeOK, LeaseInOrder, Leasing
<1>2. l \in Lease
  <2> HIDE DEF old
  <2> QED
    BY <1>1 DEF Lease
<1>3. /\ l.run = old.run /\ l.token = old.token /\ l.pending = old.pending
      /\ l.expires = old.expires /\ l.sentAt = old.sentAt /\ l.lost = old.lost
      /\ l.renewal = "begun" /\ l.attempt = clock
  <2> HIDE DEF old
  <2> QED
    BY <1>1 DEF Lease
<1>4. /\ lease' = [lease EXCEPT ![d] = l] /\ pc' = [pc EXCEPT ![d] = "running"]
      /\ UNCHANGED <<clock, claimed, writer, tx>> /\ ~old.lost
  BY <1>1 DEF StartRenewal, IInv, TypeOK
<1> HIDE DEF l
<1>5. Ordered(l) /\ Tokens(l) = Tokens(old) /\ LastToken(l) = LastToken(old)
  BY <1>1, <1>3 DEF Ordered, Tokens, LastToken
<1>6. /\ l.attempt <= clock /\ l.renewal # "sent"
      /\ Tokens(l) \subseteq Tokens(old) /\ ~old.lost /\ "running" # "releasing"
  BY <1>1, <1>3, <1>4, <1>5
<1> QED
  BY <1>1, <1>2, <1>3, <1>4, <1>5, <1>6, LeaseStep

LEMMA RenewalRefusedInv ==
  ASSUME IInv, NEW d \in Drivers, RenewalRefused(d)
  PROVE  IInv'
<1> DEFINE old == lease[d]
           stored == claimed[old.run]
           a == Adopted(old, stored)
           b == [a EXCEPT !.lost = TRUE]
           l == AfterRenewal(b)
<1>1. /\ old \in Lease /\ clock \in Nat /\ Ordered(old)
      /\ old.attempt <= clock /\ pc[d] \in {"running", "stopping"}
  BY DEF RenewalRefused, IInv, TypeOK, LeaseInOrder, Leasing
<1>2. stored \in Nat
  BY <1>1 DEF IInv, TypeOK, Ordered
<1> HIDE DEF old, stored
<1>3. /\ a \in Lease /\ a.run = old.run /\ a.attempt = old.attempt
      /\ Ordered(a) /\ LastToken(a) = LastToken(old)
      /\ Tokens(a) \subseteq Tokens(old)
  BY <1>1, <1>2, AdoptedFacts
<1> HIDE DEF a
<1>4. b \in Lease
  BY <1>3 DEF Lease
<1>5. /\ b.run = a.run /\ b.attempt = a.attempt /\ b.token = a.token
      /\ b.pending = a.pending /\ b.sentAt = a.sentAt
      /\ b.expires = a.expires /\ b.lost = TRUE
  BY <1>3 DEF Lease
<1> HIDE DEF b
<1>6. /\ l \in Lease /\ l.run = b.run /\ l.attempt = b.attempt
      /\ l.token = b.token /\ l.pending = b.pending
      /\ l.sentAt = b.sentAt /\ l.expires = b.expires
      /\ l.renewal = "none" /\ l.lost
  BY <1>4, <1>5, AfterRenewalFacts
<1>7. /\ lease' = [lease EXCEPT ![d] = l]
      /\ pc' = [pc EXCEPT ![d] = pc[d]]
      /\ UNCHANGED <<clock, claimed, writer, tx>>
  BY DEF RenewalRefused, IInv, TypeOK, old, stored, a, b
<1> HIDE DEF l
<1>8. Ordered(l) /\ Tokens(l) = Tokens(a) /\ LastToken(l) = LastToken(a)
  BY <1>3, <1>5, <1>6 DEF Ordered, Tokens, LastToken
<1>9. /\ l.run = lease[d].run /\ l.attempt <= clock /\ l.renewal # "sent"
      /\ Tokens(l) \subseteq Tokens(lease[d])
      /\ LastToken(l) = LastToken(lease[d])
  BY <1>1, <1>3, <1>5, <1>6, <1>8 DEF old
<1>10. pc[d] \in {"running", "stopping", "releasing"}
  BY <1>1
<1> QED
  BY <1>1, <1>6, <1>7, <1>8, <1>9, <1>10, LeaseStep

LEMMA RenewalDeferredInv ==
  ASSUME IInv, NEW d \in Drivers, RenewalDeferred(d)
  PROVE  IInv'
<1>1. PICK raised \in BOOLEAN :
        lease' = [lease EXCEPT ![d] =
                    AfterRenewal([lease[d] EXCEPT !.lost = @ \/ raised])]
  BY DEF RenewalDeferred
<1> DEFINE old == lease[d]
           lost == old.lost \/ raised
           b == [old EXCEPT !.lost = lost]
           l == AfterRenewal(b)
<1>2. /\ old \in Lease /\ clock \in Nat /\ Ordered(old)
      /\ old.attempt <= clock /\ pc[d] \in {"running", "stopping"}
  BY DEF RenewalDeferred, IInv, TypeOK, LeaseInOrder, Leasing
<1>3. /\ lease' = [lease EXCEPT ![d] = l]
      /\ pc' = [pc EXCEPT ![d] = pc[d]]
      /\ UNCHANGED <<clock, claimed, writer, tx>>
  BY <1>1 DEF RenewalDeferred, IInv, TypeOK
<1>4. lost \in BOOLEAN /\ (old.lost => lost)
  OBVIOUS
<1> HIDE DEF lost
<1>5. b \in Lease
  <2> HIDE DEF old
  <2> QED
    BY <1>2, <1>4 DEF Lease
<1>6. /\ b.run = old.run /\ b.attempt = old.attempt /\ b.token = old.token
      /\ b.pending = old.pending /\ b.sentAt = old.sentAt
      /\ b.expires = old.expires /\ b.lost = lost
  <2> HIDE DEF old
  <2> QED
    BY <1>2, <1>4 DEF Lease
<1> HIDE DEF b
<1>7. /\ l \in Lease /\ l.run = b.run /\ l.attempt = b.attempt
      /\ l.token = b.token /\ l.pending = b.pending
      /\ l.sentAt = b.sentAt /\ l.expires = b.expires
      /\ l.renewal = "none" /\ (b.lost => l.lost)
  BY <1>5, AfterRenewalFacts
<1> HIDE DEF l
<1>8. Ordered(l) /\ Tokens(l) = Tokens(old) /\ LastToken(l) = LastToken(old)
  BY <1>2, <1>6, <1>7 DEF Ordered, Tokens, LastToken
<1>9. /\ l.run = lease[d].run /\ l.attempt <= clock /\ l.renewal # "sent"
      /\ l.renewal = "none"
      /\ Tokens(l) \subseteq Tokens(lease[d])
      /\ LastToken(l) = LastToken(lease[d])
      /\ l.expires = lease[d].expires
      /\ l.token = lease[d].token /\ l.pending = lease[d].pending
      /\ pc[d] \in {"running", "stopping", "releasing"}
      /\ l.lost \/ ~lease[d].lost
  BY <1>2, <1>4, <1>6, <1>7, <1>8
<1> QED
  BY <1>2, <1>3, <1>7, <1>8, <1>9, LeaseStep

\* The two reads of the row: what they adopt they have found in it.
LEMMA ReadInv ==
  ASSUME IInv, NEW d \in Drivers, Checkpoint(d) \/ Settle(d)
  PROVE  IInv'
<1> DEFINE old == lease[d]
           stored == claimed[old.run]
<1>1. /\ old \in Lease /\ clock \in Nat /\ Ordered(old)
      /\ old.attempt <= clock /\ old.renewal = "none" /\ ~old.lost
      /\ pc[d] = "running"
  BY DEF Checkpoint, Settle, IInv, TypeOK, LeaseInOrder, Leasing
<1>2. stored \in Nat
  BY <1>1 DEF IInv, TypeOK, Ordered
<1>3. UNCHANGED <<clock, claimed, writer, tx>>
  BY DEF Checkpoint, Settle
<1>4. PICK seen \in {old, Adopted(old, stored)} :
        \/ lease' = [lease EXCEPT ![d] = seen] /\ pc' = pc
        \/ /\ lease' = [lease EXCEPT ![d] = [seen EXCEPT !.lost = TRUE]]
           /\ pc' = [pc EXCEPT ![d] = "stopping"]
  <2>1. CASE Checkpoint(d)
    <3>1. PICK answered \in BOOLEAN :
            LET seen == IF answered THEN Adopted(old, stored) ELSE old
            IN \/ lease' = [lease EXCEPT ![d] = seen] /\ pc' = pc
               \/ /\ lease' = [lease EXCEPT ![d] = [seen EXCEPT !.lost = TRUE]]
                  /\ pc' = [pc EXCEPT ![d] = "stopping"]
      BY <2>1 DEF Checkpoint
    <3> QED
      BY <3>1
  <2>2. CASE Settle(d)
    BY <2>2 DEF Settle
  <2> QED
    BY <2>1, <2>2
<1>5. /\ seen \in Lease /\ seen.run = old.run /\ seen.attempt = old.attempt
      /\ seen.renewal = "none" /\ Ordered(seen)
      /\ LastToken(seen) = LastToken(old)
      /\ Tokens(seen) \subseteq Tokens(old)
      /\ Owns(seen, claimed[seen.run]) \/ seen = old
  <2>1. CASE seen = old
    BY <2>1, <1>1
  <2>2. CASE seen # old
    <3>1. seen = Adopted(old, stored)
      BY <2>2, <1>4
    <3> HIDE DEF old
    <3>2. /\ seen \in Lease /\ seen.run = old.run /\ seen.attempt = old.attempt
          /\ seen.renewal = old.renewal /\ Ordered(seen)
          /\ LastToken(seen) = LastToken(old)
          /\ Tokens(seen) \subseteq Tokens(old)
          /\ Owns(old, stored) => stored = seen.token
          /\ ~Owns(old, stored) => seen = old
      BY <1>1, <1>2, <3>1, AdoptedFacts
    <3>3. stored = seen.token /\ stored # 0
      BY <2>2, <3>2 DEF Owns
    <3> QED
      BY <1>1, <3>2, <3>3 DEF Owns
  <2> QED
    BY <2>1, <2>2
<1>6. CASE lease' = [lease EXCEPT ![d] = seen] /\ pc' = pc
  <2>1. /\ pc' = [pc EXCEPT ![d] = "running"] /\ pc[d] \in {"running", "stopping"}
        /\ "running" \in {"running", "stopping", "releasing"}
        /\ seen.attempt <= clock /\ seen.renewal # "sent"
    BY <1>1, <1>5, <1>6 DEF IInv, TypeOK
  <2>2. \/ Owns(seen, claimed[seen.run])
        \/ /\ ~lease[d].lost /\ seen.expires = lease[d].expires
           /\ seen.token = lease[d].token /\ seen.pending = lease[d].pending
    BY <1>1, <1>5
  <2> QED
    BY <1>3, <1>5, <1>6, <2>1, <2>2, LeaseStep
<1>7. CASE /\ lease' = [lease EXCEPT ![d] = [seen EXCEPT !.lost = TRUE]]
           /\ pc' = [pc EXCEPT ![d] = "stopping"]
  <2> DEFINE l == [seen EXCEPT !.lost = TRUE]
  <2>1. l \in Lease
    BY <1>5 DEF Lease
  <2>2. /\ l.run = seen.run /\ l.attempt = seen.attempt
        /\ l.renewal = seen.renewal /\ l.token = seen.token
        /\ l.pending = seen.pending /\ l.sentAt = seen.sentAt
        /\ l.expires = seen.expires /\ l.lost = TRUE
    BY <1>5 DEF Lease
  <2>3. lease' = [lease EXCEPT ![d] = l]
    BY <1>7
  <2> HIDE DEF l
  <2>4. /\ Ordered(l) /\ Tokens(l) = Tokens(seen) /\ LastToken(l) = LastToken(seen)
    BY <1>5, <2>2 DEF Ordered, Tokens, LastToken
  <2>5. /\ l.run = lease[d].run /\ l.attempt <= clock
        /\ l.renewal # "sent" /\ l.renewal = "none"
        /\ Tokens(l) \subseteq Tokens(lease[d])
        /\ LastToken(l) = LastToken(lease[d])
        /\ pc[d] \in {"running", "stopping"}
        /\ "stopping" \in {"running", "stopping", "releasing"}
        /\ l.lost
    BY <1>1, <1>5, <2>2, <2>4
  <2> QED
    BY <1>3, <1>7, <2>1, <2>3, <2>4, <2>5, LeaseStep
<1> QED
  BY <1>4, <1>6, <1>7

-----------------------------------------------------------------------------
(* The environment.                                                        *)

LEMMA TickInv ==
  ASSUME IInv, Tick
  PROVE  IInv'
<1>1. /\ clock \in Nat \ {0} /\ clock' = clock + 1
      /\ UNCHANGED <<claimed, writer, tx, pc, lease>>
  BY DEF IInv, TypeOK, Tick
<1>2. TypeOK'
  BY <1>1 DEF IInv, TypeOK
<1>3. (\A r \in Runs : claimed[r] < clock)'
  BY <1>1 DEF IInv, TypeOK
<1>4. (\A d \in Drivers : LeaseInOrder(d) /\ AwaitsReply(d))'
  <2> SUFFICES ASSUME NEW d \in Drivers
               PROVE  LeaseInOrder(d)' /\ AwaitsReply(d)'
    OBVIOUS
  <2>1. LeaseInOrder(d) /\ AwaitsReply(d) /\ lease[d] \in Lease
    BY DEF IInv, TypeOK
  <2>2. LeaseInOrder(d)'
    BY <1>1, <2>1 DEF LeaseInOrder, Leasing, Ordered, Lease
  <2>3. AwaitsReply(d)'
    BY <1>1, <2>1 DEF AwaitsReply
  <2> QED
    BY <2>2, <2>3
<1>5. SenderKnows' /\ ClaimsApart' /\ TokensDiffer'
  BY <1>1 DEF IInv, SenderKnows, ClaimsApart, TokensDiffer, Leasing
<1>6. SentOverStale'
  <2>1. tx.token \in Nat
    BY DEF IInv, TypeOK, Tx, NoTx
  <2>2. SentOverStale
    BY DEF IInv
  <2>3. tx # NoTx => tx.token < clock + 1
    BY <1>1, <2>1, <2>2 DEF SentOverStale
  <2> QED
    BY <1>1, <2>2, <2>3 DEF SentOverStale, Leasing
<1>7. BelieverHoldsClaim'
  <2> SUFFICES ASSUME NEW d \in Drivers, Believes(d)'
               PROVE  Owns(lease[d], claimed[lease[d].run])
    BY <1>1 DEF BelieverHoldsClaim, Owns
  <2>1. lease[d] \in Lease
    BY DEF IInv, TypeOK
  <2>2. Believes(d)
    BY <1>1, <2>1 DEF Believes, Lease
  <2> QED
    BY <2>2 DEF IInv, BelieverHoldsClaim
<1> QED
  BY <1>2, <1>3, <1>4, <1>5, <1>6, <1>7 DEF IInv

LEMMA AbortInv ==
  ASSUME IInv, Abort
  PROVE  IInv'
<1>1. /\ tx # NoTx /\ tx' = NoTx
      /\ UNCHANGED <<clock, claimed, writer, pc, lease>>
      /\ pc[tx.driver] # "claiming" /\ lease[tx.driver].renewal # "sent"
  BY DEF Abort, Orphaned
<1>2. TypeOK'
  BY <1>1 DEF IInv, TypeOK
<1>3. (\A r \in Runs : claimed[r] < clock)'
  BY <1>1 DEF IInv
<1>4. (\A d \in Drivers : LeaseInOrder(d) /\ AwaitsReply(d))'
  BY <1>1 DEF IInv, LeaseInOrder, AwaitsReply, Leasing
<1>5. SenderKnows' /\ ClaimsApart' /\ TokensDiffer' /\ SentOverStale'
  BY <1>1 DEF IInv, SenderKnows, ClaimsApart, TokensDiffer, SentOverStale
<1>6. BelieverHoldsClaim'
  BY <1>1 DEF IInv, BelieverHoldsClaim, Believes, Owns
<1> QED
  BY <1>2, <1>3, <1>4, <1>5, <1>6 DEF IInv

\* When a transaction lands, the claims stay apart, and no driver but its
\* sender still believed in a claim it replaces.
LEMMA Landing ==
  ASSUME IInv, tx # NoTx,
         claimed' = [claimed EXCEPT ![tx.run] = tx.token], clock' = clock
  PROVE  /\ tx \in Tx
         /\ claimed' \in [Runs -> Nat]
         /\ claimed'[tx.run] = tx.token
         /\ (\A r \in Runs : claimed[r] < clock)'
         /\ ClaimsApart'
         /\ \A e \in Drivers \ {tx.driver} :
              Believes(e) => Owns(lease[e], claimed'[lease[e].run])
<1> USE StaleAssumption
<1>1. tx \in Tx /\ tx.run \in Runs /\ tx.token \in Nat \ {0} /\ claimed \in [Runs -> Nat]
  BY DEF IInv, TypeOK, Tx
<1>2. SentOverStale
  BY DEF IInv
<1>3. claimed' \in [Runs -> Nat] /\ claimed'[tx.run] = tx.token
  BY <1>1
<1>4. (\A r \in Runs : claimed[r] < clock)'
  BY <1>1, <1>2 DEF IInv, SentOverStale
<1>5. ClaimsApart'
  BY <1>1, <1>2 DEF IInv, ClaimsApart, SentOverStale
<1>6. ASSUME NEW e \in Drivers \ {tx.driver}, Believes(e)
      PROVE  Owns(lease[e], claimed'[lease[e].run])
  <2> DEFINE l == lease[e]
  <2>1. /\ Leasing(e) /\ clock < l.expires /\ Owns(l, claimed[l.run])
        /\ LeaseInOrder(e) /\ l \in Lease /\ clock \in Nat
    BY <1>6 DEF IInv, TypeOK, BelieverHoldsClaim, Believes, Leasing
  <2>2. l.run \in Runs /\ l.expires <= l.token + Stale /\ (l.pending # 0 => l.token < l.pending)
    BY <2>1 DEF LeaseInOrder, Ordered
  <2>3. CASE l.run = tx.run
    <3>1. claimed[l.run] \in Tokens(l)
      BY <2>1 DEF Owns, Tokens
    <3>2. claimed[l.run] + Stale < tx.token /\ tx.token < clock
      BY <1>2, <2>1, <3>1 DEF SentOverStale
    <3>3. claimed[l.run] \in Nat /\ l.token <= claimed[l.run]
      BY <1>1, <2>1, <2>2 DEF Owns, Lease
    <3>4. l.token + Stale < clock
      BY <1>1, <2>1, <3>2, <3>3 DEF Lease
    <3> QED
      BY <2>1, <2>2, <3>4 DEF Lease
  <2>4. CASE l.run # tx.run
    BY <1>1, <2>1, <2>2, <2>4
  <2> QED
    BY <2>3, <2>4
<1> QED
  BY <1>1, <1>3, <1>4, <1>5, <1>6

LEMMA LandInv ==
  ASSUME IInv, Land
  PROVE  IInv'
<1>1. /\ tx # NoTx /\ tx' = NoTx
      /\ claimed' = [claimed EXCEPT ![tx.run] = tx.token]
      /\ UNCHANGED <<clock, writer, pc, lease>>
      /\ pc[tx.driver] # "claiming" /\ lease[tx.driver].renewal # "sent"
  BY DEF Land, Orphaned
<1>2. /\ tx \in Tx
      /\ claimed' \in [Runs -> Nat]
      /\ claimed'[tx.run] = tx.token
      /\ (\A r \in Runs : claimed[r] < clock)'
      /\ ClaimsApart'
      /\ \A e \in Drivers \ {tx.driver} :
           Believes(e) => Owns(lease[e], claimed'[lease[e].run])
  BY <1>1, Landing
<1>3. TypeOK'
  BY <1>1, <1>2 DEF IInv, TypeOK
<1>4. (\A d \in Drivers : LeaseInOrder(d) /\ AwaitsReply(d))'
  BY <1>1 DEF IInv, LeaseInOrder, AwaitsReply, Leasing
<1>5. SenderKnows' /\ TokensDiffer' /\ SentOverStale'
  BY <1>1 DEF IInv, SenderKnows, TokensDiffer, SentOverStale
<1>6. BelieverHoldsClaim'
  <2> SUFFICES ASSUME NEW e \in Drivers, Believes(e)
               PROVE  Owns(lease[e], claimed'[lease[e].run])
    BY <1>1 DEF BelieverHoldsClaim, Believes, Owns
  <2>1. CASE e # tx.driver
    BY <1>2, <2>1
  <2>2. CASE e = tx.driver
    <3>1. Leasing(e)
      BY DEF Believes, Leasing
    <3>2. lease[e].run = tx.run /\ LastToken(lease[e]) = tx.token /\ tx.token # 0
      BY <1>1, <1>2, <2>2, <3>1 DEF IInv, SenderKnows, Tx
    <3> QED
      BY <1>2, <3>2 DEF Owns, LastToken
  <2> QED
    BY <2>1, <2>2
<1> QED
  BY <1>2, <1>3, <1>4, <1>5, <1>6 DEF IInv

\* A driver that waits for a reply is the only one, and its transaction is the
\* one in flight.
LEMMA OneWaits ==
  ASSUME IInv, NEW d \in Drivers, pc[d] = "claiming" \/ lease[d].renewal = "sent"
  PROVE  /\ tx # NoTx /\ tx.driver = d /\ tx.run = lease[d].run
         /\ tx.token = IF pc[d] = "claiming" THEN lease[d].token ELSE lease[d].pending
         /\ \A e \in Drivers \ {d} : pc[e] # "claiming" /\ lease[e].renewal # "sent"
<1> USE NobodyAssumption
<1>1. \A e \in Drivers : AwaitsReply(e)
  BY DEF IInv
<1>2. LeaseInOrder(d)
  BY DEF IInv
<1>3. /\ tx.driver = d /\ tx.run = lease[d].run
      /\ tx.token = IF pc[d] = "claiming" THEN lease[d].token ELSE lease[d].pending
  BY <1>1, <1>2 DEF AwaitsReply, LeaseInOrder
<1>4. tx # NoTx
  BY <1>3 DEF NoTx
<1>5. \A e \in Drivers \ {d} : pc[e] # "claiming" /\ lease[e].renewal # "sent"
  <2> SUFFICES ASSUME NEW e \in Drivers, pc[e] = "claiming" \/ lease[e].renewal = "sent"
               PROVE  e = d
    OBVIOUS
  <2>1. tx.driver = e
    BY <1>1 DEF AwaitsReply
  <2> QED
    BY <1>3, <2>1
<1> QED
  BY <1>3, <1>4, <1>5

LEMMA ClaimReplyInv ==
  ASSUME IInv, NEW d \in Drivers, ClaimReply(d)
  PROVE  IInv'
<1>1. /\ pc[d] = "claiming" /\ tx' = NoTx
      /\ claimed' = [claimed EXCEPT ![tx.run] = tx.token]
      /\ UNCHANGED <<clock, writer, lease>>
  BY DEF ClaimReply
<1>2. PICK p \in {"running", "releasing"} : pc' = [pc EXCEPT ![d] = p]
  BY DEF ClaimReply
<1>3. /\ tx # NoTx /\ tx.driver = d /\ tx.run = lease[d].run
      /\ tx.token = lease[d].token
      /\ \A e \in Drivers \ {d} : pc[e] # "claiming" /\ lease[e].renewal # "sent"
  BY <1>1, OneWaits
<1>4. /\ tx \in Tx
      /\ claimed' \in [Runs -> Nat]
      /\ claimed'[tx.run] = tx.token
      /\ (\A r \in Runs : claimed[r] < clock)'
      /\ ClaimsApart'
      /\ \A e \in Drivers \ {tx.driver} :
           Believes(e) => Owns(lease[e], claimed'[lease[e].run])
  BY <1>1, <1>3, Landing
<1>5. \A e \in Drivers : pc'[e] = IF e = d THEN p ELSE pc[e]
  BY <1>2 DEF IInv, TypeOK
<1>6. TypeOK'
  BY <1>1, <1>2, <1>4 DEF IInv, TypeOK
<1>7. \A e \in Drivers : LeaseInOrder(e)
  BY DEF IInv
<1>8. (\A e \in Drivers : LeaseInOrder(e))'
  BY <1>1, <1>5, <1>7 DEF LeaseInOrder, Leasing
<1>9. (\A e \in Drivers : AwaitsReply(e))'
  <2>1. lease[d].renewal # "sent"
    BY <1>1, <1>7 DEF LeaseInOrder
  <2> QED
    BY <1>1, <1>3, <1>5, <2>1 DEF AwaitsReply
<1>10. SenderKnows' /\ TokensDiffer' /\ SentOverStale'
  BY <1>1 DEF IInv, SenderKnows, TokensDiffer, SentOverStale
<1>11. BelieverHoldsClaim'
  <2> SUFFICES ASSUME NEW e \in Drivers, Believes(e)'
               PROVE  Owns(lease[e], claimed'[lease[e].run])
    BY <1>1 DEF BelieverHoldsClaim, Owns
  <2>1. CASE e # d
    <3>1. Believes(e)
      BY <1>1, <1>5, <2>1 DEF Believes
    <3> QED
      BY <1>3, <1>4, <2>1, <3>1
  <2>2. CASE e = d
    BY <1>3, <1>4, <2>2 DEF Owns, Tx
  <2> QED
    BY <2>1, <2>2
<1> QED
  BY <1>4, <1>6, <1>8, <1>9, <1>10, <1>11 DEF IInv

LEMMA RenewalReplyInv ==
  ASSUME IInv, NEW d \in Drivers, RenewalReply(d)
  PROVE  IInv'
<1> USE StaleAssumption
<1> DEFINE old == lease[d]
           token == old.pending
           expires == old.attempt + Stale
           settled == [old EXCEPT !.token = token, !.pending = 0]
           b == [settled EXCEPT !.sentAt = 0, !.expires = expires]
           l == AfterRenewal(b)
<1>1. /\ old.renewal = "sent" /\ tx' = NoTx
      /\ claimed' = [claimed EXCEPT ![tx.run] = tx.token]
      /\ UNCHANGED <<clock, writer, pc>>
  BY DEF RenewalReply
<1>2. /\ old \in Lease /\ clock \in Nat /\ token \in Nat /\ expires \in Nat
      /\ LeaseInOrder(d) /\ AwaitsReply(d)
  BY DEF IInv, TypeOK, Lease
<1>3. /\ pc[d] \in {"running", "stopping"} /\ Ordered(old)
      /\ token < clock /\ old.attempt <= clock /\ old.sentAt = old.attempt
  BY <1>1, <1>2 DEF LeaseInOrder, AwaitsReply, Leasing
<1>4. /\ tx # NoTx /\ tx.driver = d /\ tx.run = old.run /\ tx.token = token
      /\ \A e \in Drivers \ {d} : pc[e] # "claiming" /\ lease[e].renewal # "sent"
  BY <1>1, <1>3, OneWaits
<1>5. /\ tx \in Tx
      /\ claimed' \in [Runs -> Nat]
      /\ claimed'[tx.run] = tx.token
      /\ (\A r \in Runs : claimed[r] < clock)'
      /\ ClaimsApart'
      /\ \A e \in Drivers \ {tx.driver} :
           Believes(e) => Owns(lease[e], claimed'[lease[e].run])
  BY <1>1, <1>4, Landing
<1>6. token # 0 /\ old.attempt <= token /\ old.run \in Runs
  BY <1>3, <1>4, <1>5 DEF Tx, Ordered
<1>7. lease' = [lease EXCEPT ![d] = l]
  BY DEF RenewalReply
<1> HIDE DEF old, token, expires
<1>8. settled \in Lease /\ settled.run = old.run /\ settled.attempt = old.attempt
      /\ settled.token = token /\ settled.pending = 0
  BY <1>2 DEF Lease
<1> HIDE DEF settled
<1>9. b \in Lease /\ b.run = old.run /\ b.attempt = old.attempt
      /\ b.token = token /\ b.pending = 0 /\ b.expires = expires
  BY <1>2, <1>8 DEF Lease
<1> HIDE DEF b
<1>10. /\ l \in Lease /\ l.run = old.run /\ l.attempt = old.attempt
       /\ l.token = token /\ l.pending = 0 /\ l.expires = expires
       /\ l.renewal = "none"
  BY <1>9, AfterRenewalFacts
<1> HIDE DEF l
<1>11. \A e \in Drivers : lease'[e] = IF e = d THEN l ELSE lease[e]
  BY <1>7 DEF IInv, TypeOK
<1>12. TypeOK'
  BY <1>1, <1>5, <1>7, <1>10 DEF IInv, TypeOK
<1>13. (\A e \in Drivers : LeaseInOrder(e))'
  <2>1. LeaseInOrder(d)'
    <3>1. Ordered(l)
      BY <1>2, <1>6, <1>10 DEF Ordered, expires, Lease, old
    <3> QED
      BY <1>1, <1>2, <1>3, <1>10, <1>11, <3>1 DEF LeaseInOrder, Leasing
  <2>2. \A e \in Drivers \ {d} : LeaseInOrder(e)'
    BY <1>1, <1>11 DEF IInv, LeaseInOrder, Leasing
  <2> QED
    BY <2>1, <2>2
<1>14. (\A e \in Drivers : AwaitsReply(e))'
  BY <1>1, <1>3, <1>4, <1>10, <1>11 DEF AwaitsReply
<1>15. TokensDiffer'
  <2>1. Tokens(l) \subseteq Tokens(old)
    BY <1>6, <1>10 DEF Tokens, token
  <2>2. \A e \in Drivers : Tokens(lease'[e]) \subseteq Tokens(lease[e])
    BY <1>11, <2>1 DEF old
  <2> QED
    BY <2>2 DEF IInv, TokensDiffer
<1>16. SenderKnows' /\ SentOverStale'
  BY <1>1 DEF SenderKnows, SentOverStale
<1>17. BelieverHoldsClaim'
  <2> SUFFICES ASSUME NEW e \in Drivers, Believes(e)'
               PROVE  Owns(lease'[e], claimed'[lease'[e].run])
    BY DEF BelieverHoldsClaim, Owns
  <2>1. CASE e # d
    <3>1. Believes(e)
      BY <1>1, <1>11, <2>1 DEF Believes
    <3> QED
      BY <1>4, <1>5, <1>11, <2>1, <3>1
  <2>2. CASE e = d
    BY <1>4, <1>5, <1>6, <1>10, <1>11, <2>2 DEF Owns
  <2> QED
    BY <2>1, <2>2
<1> QED
  BY <1>5, <1>12, <1>13, <1>14, <1>15, <1>16, <1>17 DEF IInv

\* A claim is cleared only by a driver that counts on it, so nobody else does.
LEMMA ReleaseClaimInv ==
  ASSUME IInv, NEW d \in Drivers, ReleaseClaim(d)
  PROVE  IInv'
<1> USE StaleAssumption, NobodyAssumption
<1> DEFINE run == lease[d].run
           left == IF claimed[run] \in Tokens(lease[d]) THEN 0 ELSE claimed[run]
<1>1. /\ pc[d] \in {"withdrawing", "releasing"}
      /\ claimed' = [claimed EXCEPT ![run] = left]
      /\ pc' = [pc EXCEPT ![d] = "idle"]
      /\ lease' = [lease EXCEPT ![d] = NoLease]
      /\ UNCHANGED <<clock, writer, tx>>
  BY DEF ReleaseClaim
<1>2. /\ claimed \in [Runs -> Nat] /\ clock \in Nat \ {0}
      /\ run \in Runs
  BY <1>1 DEF IInv, TypeOK, LeaseInOrder, Leasing, Ordered
<1>3. /\ NoLease \in Lease /\ NoLease.token = 0 /\ NoLease.pending = 0
      /\ NoLease.attempt = 0 /\ NoLease.renewal = "none"
      /\ Tokens(NoLease) = {}
  BY DEF NoLease, Lease, Tokens
<1>4. left \in Nat /\ (left # 0 => left = claimed[run])
  BY <1>2
<1>5. ASSUME NEW r \in Runs
      PROVE  /\ claimed'[r] \in Nat
             /\ claimed'[r] # 0 => claimed'[r] = claimed[r]
             /\ claimed'[r] # claimed[r] => claimed[r] \in Tokens(lease[d])
  BY <1>1, <1>2, <1>4
<1>6. \A e \in Drivers : /\ lease'[e] = IF e = d THEN NoLease ELSE lease[e]
                         /\ pc'[e] = IF e = d THEN "idle" ELSE pc[e]
  BY <1>1 DEF IInv, TypeOK
<1> HIDE DEF left, run
<1>7. TypeOK'
  BY <1>1, <1>2, <1>3, <1>4 DEF IInv, TypeOK
<1>8. (\A r \in Runs : claimed[r] < clock)'
  BY <1>1, <1>2, <1>5 DEF IInv
<1>9. (\A e \in Drivers : LeaseInOrder(e) /\ AwaitsReply(e))'
  BY <1>1, <1>2, <1>3, <1>6 DEF IInv, LeaseInOrder, AwaitsReply, Leasing
<1>10. SenderKnows'
  BY <1>1, <1>6 DEF IInv, SenderKnows, Leasing, TypeOK, Tx
<1>11. ClaimsApart'
  BY <1>5 DEF IInv, ClaimsApart
<1>12. SentOverStale'
  <2>1. SentOverStale
    BY DEF IInv
  <2>2. ASSUME tx # NoTx, NEW e \in Drivers \ {tx.driver}, Leasing(e)',
               claimed'[lease'[e].run] \in Tokens(lease'[e])
        PROVE  claimed'[lease'[e].run] + Stale < tx.token
    <3>1. Leasing(e) /\ lease'[e] = lease[e]
      BY <2>2, <1>6 DEF Leasing
    <3>2. lease[e].run \in Runs
      BY <3>1 DEF IInv, LeaseInOrder, Ordered
    <3>3. claimed'[lease[e].run] = claimed[lease[e].run]
      BY <2>2, <3>1, <3>2, <1>5 DEF Tokens
    <3> QED
      BY <2>1, <2>2, <3>1, <3>3 DEF SentOverStale
  <2> QED
    BY <1>1, <1>5, <2>1, <2>2 DEF SentOverStale
<1>13. TokensDiffer'
  <2>1. \A e \in Drivers : Tokens(lease'[e]) \subseteq Tokens(lease[e])
    BY <1>3, <1>6
  <2> QED
    BY <2>1 DEF IInv, TokensDiffer
<1>14. BelieverHoldsClaim'
  <2> SUFFICES ASSUME NEW e \in Drivers, Believes(e)'
               PROVE  Owns(lease'[e], claimed'[lease'[e].run])
    BY DEF BelieverHoldsClaim, Owns
  <2>1. e # d /\ Believes(e) /\ lease'[e] = lease[e]
    BY <1>1, <1>6 DEF Believes
  <2>2. Owns(lease[e], claimed[lease[e].run]) /\ lease[e].run \in Runs
    BY <2>1 DEF IInv, BelieverHoldsClaim, LeaseInOrder, Ordered, Leasing, Believes
  <2>3. claimed[lease[e].run] \in Tokens(lease[e])
    BY <2>2 DEF Owns, Tokens
  <2>4. claimed[lease[e].run] \notin Tokens(lease[d])
    BY <2>1, <2>3 DEF IInv, TokensDiffer
  <2> QED
    BY <1>5, <2>1, <2>2, <2>4
<1> QED
  BY <1>7, <1>8, <1>9, <1>10, <1>11, <1>12, <1>13, <1>14 DEF IInv

-----------------------------------------------------------------------------
(* The two steps that send a transaction.                                  *)

\* A transaction may be sent when none is in flight and the claims of all
\* other rows, and all that other drivers count on, are stale.
LEMMA SendStep ==
  ASSUME IInv, NEW d \in Drivers, NEW l \in Lease,
         NEW p \in {"claiming", "running", "stopping"},
         tx = NoTx,
         lease' = [lease EXCEPT ![d] = l],
         pc' = [pc EXCEPT ![d] = p],
         UNCHANGED <<claimed, writer>>,
         clock' = clock + 1,
         tx' = [driver |-> d, run |-> l.run, token |-> clock],
         Ordered(l), l.attempt <= clock, l.token <= clock, l.pending <= clock,
         l.renewal # "none" => p # "claiming",
         p = "claiming" => l.token = clock,
         l.renewal = "sent" => l.pending = clock /\ l.sentAt = l.attempt,
         LastToken(l) = clock,
         Tokens(l) \subseteq Tokens(lease[d]) \union {clock},
         \A r \in Runs :
           r # l.run /\ claimed[r] # 0 => claimed[r] + Stale < clock,
         \A e \in Drivers \ {d} :
           Leasing(e) /\ lease[e].run = l.run /\ claimed[l.run] \in Tokens(lease[e]) =>
             claimed[l.run] + Stale < clock,
         Believes(d)' => Owns(l, claimed[l.run])
  PROVE  IInv'
<1> USE StaleAssumption, NobodyAssumption
<1>1. clock \in Nat \ {0} /\ claimed \in [Runs -> Nat] /\ l.run \in Runs
  BY DEF IInv, TypeOK, Ordered
<1>2. \A e \in Drivers : /\ lease'[e] = IF e = d THEN l ELSE lease[e]
                         /\ pc'[e] = IF e = d THEN p ELSE pc[e]
  BY DEF IInv, TypeOK
<1>3. /\ tx'.driver = d /\ tx'.run = l.run /\ tx'.token = clock
      /\ tx' \in Tx
  BY <1>1 DEF Tx
<1>4. TypeOK'
  BY <1>1, <1>3 DEF IInv, TypeOK
<1>5. (\A r \in Runs : claimed[r] < clock)'
  BY <1>1 DEF IInv
<1>6. \A e \in Drivers : LeaseInOrder(e) /\ lease[e] \in Lease
  BY DEF IInv, TypeOK
<1>7. (\A e \in Drivers : LeaseInOrder(e))'
  <2>1. LeaseInOrder(d)'
    <3>1. l.attempt <= clock + 1 /\ l.token < clock + 1 /\ l.pending < clock + 1
      BY <1>1 DEF Lease
    <3> QED
      BY <1>2, <3>1 DEF LeaseInOrder, Leasing
  <2>2. ASSUME NEW e \in Drivers \ {d} PROVE LeaseInOrder(e)'
    BY <1>1, <1>2, <1>6 DEF LeaseInOrder, Leasing, Lease
  <2> QED
    BY <2>1, <2>2
<1>8. (\A e \in Drivers : AwaitsReply(e))'
  <2>1. \A e \in Drivers \ {d} : pc[e] # "claiming" /\ lease[e].renewal # "sent"
    BY OneWaits
  <2>2. AwaitsReply(d)'
    BY <1>2 DEF AwaitsReply
  <2> QED
    BY <1>2, <2>1, <2>2 DEF AwaitsReply
<1>9. SenderKnows'
  BY <1>2, <1>3 DEF SenderKnows
<1>10. ClaimsApart'
  BY DEF IInv, ClaimsApart
<1>11. SentOverStale'
  <2>1. tx'.token < clock'
    BY <1>1, <1>3
  <2>2. ASSUME NEW e \in Drivers \ {d}, Leasing(e)',
               claimed[lease'[e].run] \in Tokens(lease'[e])
        PROVE  claimed[lease'[e].run] + Stale < clock
    <3>1. Leasing(e) /\ lease'[e] = lease[e]
      BY <1>2, <2>2 DEF Leasing
    <3>2. lease[e].run \in Runs
      BY <1>6, <3>1 DEF LeaseInOrder, Ordered
    <3>3. claimed[lease[e].run] # 0
      BY <2>2, <3>1 DEF Tokens
    <3> QED
      BY <2>2, <3>1, <3>2, <3>3
  <2> QED
    BY <1>3, <2>1, <2>2 DEF SentOverStale
<1>12. TokensDiffer'
  <2>1. ASSUME NEW e \in Drivers PROVE \A t \in Tokens(lease[e]) : t # clock
    BY <1>1, <1>6 DEF Tokens, LeaseInOrder, Lease
  <2>2. \A e, f \in Drivers : e # f => Tokens(lease[e]) \cap Tokens(lease[f]) = {}
    BY DEF IInv, TokensDiffer
  <2> QED
    BY <1>2, <2>1, <2>2 DEF TokensDiffer
<1>13. BelieverHoldsClaim'
  <2> SUFFICES ASSUME NEW e \in Drivers, Believes(e)'
               PROVE  Owns(lease'[e], claimed[lease'[e].run])
    BY DEF BelieverHoldsClaim, Owns
  <2>1. CASE e = d
    BY <1>2, <2>1
  <2>2. CASE e # d
    <3>1. Believes(e)
      BY <1>1, <1>2, <1>6, <2>2 DEF Believes, Lease
    <3> QED
      BY <1>2, <2>2, <3>1 DEF IInv, BelieverHoldsClaim
  <2> QED
    BY <2>1, <2>2
<1> QED
  BY <1>4, <1>5, <1>7, <1>8, <1>9, <1>10, <1>11, <1>12, <1>13 DEF IInv

LEMMA SendClaimInv ==
  ASSUME IInv, NEW d \in Drivers, NEW run \in Runs, SendClaim(d, run)
  PROVE  IInv'
<1> USE StaleAssumption
<1> DEFINE old == lease[d]
           expires == old.attempt + Stale
           named == [old EXCEPT !.run = run, !.token = clock]
           l == [named EXCEPT !.expires = expires]
<1>1. /\ pc[d] = "admitting" /\ tx = NoTx /\ SlotFree
      /\ tx' = [driver |-> d, run |-> run, token |-> clock]
      /\ clock' = clock + 1
      /\ pc' = [pc EXCEPT ![d] = "claiming"]
      /\ UNCHANGED <<claimed, writer>>
  BY DEF SendClaim
<1>2. /\ old \in Lease /\ clock \in Nat \ {0} /\ expires \in Nat
      /\ claimed \in [Runs -> Nat]
  BY DEF IInv, TypeOK, Lease
<1>3. /\ old.pending = 0 /\ old.renewal = "none" /\ old.attempt <= clock
  BY <1>1 DEF IInv, LeaseInOrder, Leasing
<1>4. lease' = [lease EXCEPT ![d] = l]
  BY <1>2 DEF SendClaim, IInv, TypeOK, Lease
<1> HIDE DEF old, expires
<1>5. named \in Lease
  BY <1>2 DEF Lease
<1>6. /\ named.run = run /\ named.token = clock /\ named.pending = 0
      /\ named.renewal = "none" /\ named.attempt = old.attempt
  BY <1>2, <1>3 DEF Lease
<1> HIDE DEF named
<1>7. l \in Lease
  BY <1>2, <1>5 DEF Lease
<1>8. /\ l.run = run /\ l.token = clock /\ l.pending = 0
      /\ l.renewal = "none" /\ l.attempt = old.attempt /\ l.expires = expires
  BY <1>5, <1>6 DEF Lease
<1> HIDE DEF l
<1>9. Ordered(l)
  BY <1>2, <1>3, <1>8 DEF Ordered, expires, Lease
<1>10. LastToken(l) = clock /\ Tokens(l) \subseteq Tokens(lease[d]) \union {clock}
  BY <1>8 DEF LastToken, Tokens
<1>11. ASSUME NEW r \in Runs, claimed[r] # 0
       PROVE  claimed[r] + Stale < clock
  BY <1>1, <1>2, <1>11 DEF SlotFree, Fresh
<1>12. \A r \in Runs :
         r # l.run /\ claimed[r] # 0 => claimed[r] + Stale < clock
  BY <1>11
<1>13. \A e \in Drivers \ {d} :
         Leasing(e) /\ lease[e].run = l.run /\ claimed[l.run] \in Tokens(lease[e]) =>
           claimed[l.run] + Stale < clock
  BY <1>8, <1>11 DEF Tokens
<1>14. ~Believes(d)'
  BY <1>1 DEF Believes, IInv, TypeOK
<1>15. /\ l.attempt <= clock /\ l.token <= clock /\ l.pending <= clock
       /\ tx' = [driver |-> d, run |-> l.run, token |-> clock]
       /\ l.renewal # "sent"
  BY <1>1, <1>2, <1>3, <1>8
<1> QED
  BY <1>1, <1>4, <1>7, <1>8, <1>9, <1>10, <1>12, <1>13, <1>14, <1>15, SendStep

LEMMA SendRenewalInv ==
  ASSUME IInv, NEW d \in Drivers, SendRenewal(d)
  PROVE  IInv'
<1> USE StaleAssumption
<1> DEFINE old == lease[d]
           stored == claimed[old.run]
           a == Adopted(old, stored)
           attempt == old.attempt
           sent == [a EXCEPT !.renewal = "sent", !.pending = clock]
           l == [sent EXCEPT !.sentAt = attempt]
<1>1. /\ old.renewal = "begun" /\ tx = NoTx
      /\ Owns(old, stored) /\ Fresh(stored)
      /\ tx' = [driver |-> d, run |-> old.run, token |-> clock]
      /\ clock' = clock + 1
      /\ UNCHANGED <<claimed, writer, pc>>
  BY DEF SendRenewal
<1>2. /\ old \in Lease /\ clock \in Nat \ {0} /\ attempt \in Nat
      /\ claimed \in [Runs -> Nat] /\ LeaseInOrder(d)
  BY DEF IInv, TypeOK, Lease
<1>3. /\ pc[d] \in {"running", "stopping"} /\ Ordered(old) /\ attempt <= clock
      /\ old.run \in Runs
  BY <1>1, <1>2 DEF LeaseInOrder, Leasing, Ordered
<1>4. stored \in Nat /\ stored < clock /\ stored # 0
  BY <1>1, <1>2, <1>3 DEF IInv, Owns
<1>5. lease' = [lease EXCEPT ![d] = [a EXCEPT !.renewal = "sent", !.pending = clock,
                                              !.sentAt = attempt]]
  BY DEF SendRenewal
<1>6. pc' = [pc EXCEPT ![d] = pc[d]]
  BY <1>1 DEF IInv, TypeOK
<1>7. stored \in Tokens(old)
  BY <1>1 DEF Owns, Tokens
<1>8. \A r \in Runs :
        r # old.run /\ claimed[r] # 0 => claimed[r] + Stale < clock
  <2> SUFFICES ASSUME NEW r \in Runs, r # old.run, claimed[r] # 0
               PROVE  claimed[r] + Stale < clock
    OBVIOUS
  <2>1. claimed[r] + Stale < stored \/ stored + Stale < claimed[r]
    BY <1>3, <1>4 DEF IInv, ClaimsApart
  <2>2. claimed[r] < clock /\ claimed[r] \in Nat /\ stored + Stale >= clock
    BY <1>1, <1>2 DEF IInv, Fresh
  <2> QED
    BY <1>2, <1>4, <2>1, <2>2
<1>9. \A e \in Drivers \ {d} : stored \notin Tokens(lease[e])
  BY <1>7 DEF IInv, TokensDiffer
<1> HIDE DEF old, stored, attempt
<1>10. /\ a \in Lease /\ a.run = old.run /\ a.attempt = old.attempt
       /\ Ordered(a) /\ stored = a.token
  BY <1>1, <1>2, <1>3, <1>4, AdoptedFacts
<1> HIDE DEF a
<1>11. sent \in Lease
  BY <1>2, <1>10 DEF Lease
<1>12. /\ sent.run = a.run /\ sent.token = a.token /\ sent.pending = clock
       /\ sent.expires = a.expires /\ sent.attempt = a.attempt
       /\ sent.renewal = "sent"
  BY <1>10 DEF Lease
<1>13. lease' = [lease EXCEPT ![d] = l]
  BY <1>5 DEF sent
<1> HIDE DEF sent
<1>14. l \in Lease
  BY <1>2, <1>11 DEF Lease
<1>15. /\ l.run = old.run /\ l.token = stored /\ l.pending = clock
       /\ l.expires = a.expires /\ l.attempt = attempt /\ l.sentAt = attempt
       /\ l.renewal = "sent"
  BY <1>10, <1>11, <1>12 DEF Lease, attempt
<1> HIDE DEF l
<1>16. Ordered(l)
  BY <1>2, <1>3, <1>4, <1>10, <1>15 DEF Ordered
<1>17. LastToken(l) = clock /\ Tokens(l) \subseteq Tokens(lease[d]) \union {clock}
  BY <1>2, <1>7, <1>15 DEF LastToken, Tokens, old
<1>18. /\ \A r \in Runs :
            r # l.run /\ claimed[r] # 0 => claimed[r] + Stale < clock
       /\ \A e \in Drivers \ {d} :
            Leasing(e) /\ lease[e].run = l.run /\ claimed[l.run] \in Tokens(lease[e]) =>
              claimed[l.run] + Stale < clock
  BY <1>8, <1>9, <1>15 DEF stored
<1>19. Owns(l, claimed[l.run])
  BY <1>4, <1>15 DEF Owns, stored
<1>20. /\ l.attempt <= clock /\ l.token <= clock /\ l.pending <= clock
       /\ tx' = [driver |-> d, run |-> l.run, token |-> clock]
       /\ pc[d] \in {"claiming", "running", "stopping"} /\ pc[d] # "claiming"
       /\ l.renewal = "sent" => l.pending = clock /\ l.sentAt = l.attempt
  BY <1>1, <1>2, <1>3, <1>4, <1>15
<1> QED
  BY <1>1, <1>6, <1>13, <1>14, <1>16, <1>17, <1>18, <1>19, <1>20, SendStep

-----------------------------------------------------------------------------
(* The invariant and what follows from it.                                 *)

LEMMA NextInv == IInv /\ [Next]_vars => IInv'
<1> SUFFICES ASSUME IInv, [Next]_vars PROVE IInv'
  OBVIOUS
<1>1. ASSUME NEW d \in Drivers, Admission(d) PROVE IInv'
  <2>1. CASE StartAdmission(d) \/ AdmissionRefused(d) \/ ClaimError(d)
    BY <2>1, IdleInv
  <2>2. CASE \E r \in Runs : SendClaim(d, r)
    BY <2>2, SendClaimInv
  <2>3. CASE ClaimReply(d)
    BY <2>3, ClaimReplyInv
  <2>4. CASE ClaimTimeout(d)
    BY <2>4, MoveInv
  <2> QED
    BY <1>1, <2>1, <2>2, <2>3, <2>4 DEF Admission
<1>2. ASSUME NEW d \in Drivers, Renewal(d) PROVE IInv'
  <2>1. CASE StartRenewal(d)
    BY <2>1, StartRenewalInv
  <2>2. CASE SendRenewal(d)
    BY <2>2, SendRenewalInv
  <2>3. CASE RenewalRefused(d)
    BY <2>3, RenewalRefusedInv
  <2>4. CASE RenewalReply(d)
    BY <2>4, RenewalReplyInv
  <2>5. CASE RenewalDeferred(d)
    BY <2>5, RenewalDeferredInv
  <2> QED
    BY <1>2, <2>1, <2>2, <2>3, <2>4, <2>5 DEF Renewal
<1>3. ASSUME NEW d \in Drivers, Turn(d) PROVE IInv'
  <2>1. CASE Checkpoint(d) \/ Settle(d)
    BY <2>1, ReadInv
  <2>2. CASE FencedCommit(d) \/ EndTurn(d) \/ StopLease(d)
    BY <2>2, MoveInv
  <2>3. CASE ReleaseClaim(d)
    BY <2>3, ReleaseClaimInv
  <2>4. CASE ReleaseDeferred(d)
    BY <2>4, IdleInv
  <2> QED
    BY <1>3, <2>1, <2>2, <2>3, <2>4 DEF Turn
<1>4. ASSUME NEW d \in Drivers, Crash(d) PROVE IInv'
  BY <1>4, IdleInv
<1>5. CASE Land
  BY <1>5, LandInv
<1>6. CASE Abort
  BY <1>6, AbortInv
<1>7. CASE Tick
  BY <1>7, TickInv
<1>8. CASE UNCHANGED vars
  <2>1. /\ clock' = clock /\ claimed' = claimed /\ writer' = writer
        /\ tx' = tx /\ pc' = pc /\ lease' = lease
    BY <1>8 DEF vars
  <2>2. TypeOK' /\ (\A r \in Runs : claimed[r] < clock)'
    BY <2>1 DEF IInv, TypeOK
  <2>3. (\A d \in Drivers : LeaseInOrder(d) /\ AwaitsReply(d))'
    BY <2>1 DEF IInv, LeaseInOrder, AwaitsReply, Leasing
  <2>4. SenderKnows' /\ ClaimsApart' /\ SentOverStale' /\ TokensDiffer'
    BY <2>1 DEF IInv, SenderKnows, ClaimsApart, SentOverStale, TokensDiffer, Leasing
  <2>5. BelieverHoldsClaim'
    BY <2>1 DEF IInv, BelieverHoldsClaim, Believes
  <2> QED
    BY <2>2, <2>3, <2>4, <2>5 DEF IInv
<1> QED
  BY <1>1, <1>2, <1>3, <1>4, <1>5, <1>6, <1>7, <1>8 DEF Next

\* The inductive invariant holds in every reachable state: in particular every
\* claim, landed or in flight, was written over claims already stale
\* (coordination.admit_next, ClaimLease._renew).
THEOREM Inductive == Spec => []IInv
<1>1. Init => IInv
  BY InitInv
<1>2. IInv /\ [Next]_vars => IInv'
  BY NextInv
<1> QED
  BY <1>1, <1>2, PTL DEF Spec

\* Every variable keeps its type: in particular a lease never counts with a
\* time before the first.
THEOREM TypeCorrect == Spec => []TypeOK
<1>1. IInv => TypeOK
  BY DEF IInv
<1> QED
  BY <1>1, Inductive, PTL

\* A driver that believes it holds the slot has a token of its own in its row
\* (release_claim and _withdraw_unconfirmed_claim clear only their own).
THEOREM BelieverHolds == Spec => []BelieverHoldsClaim
<1>1. IInv => BelieverHoldsClaim
  BY DEF IInv
<1> QED
  BY <1>1, Inductive, PTL

\* At most one driver believes it holds the analysis slot, for any number of
\* drivers and runs and whatever commits land late (lease.py, coordination.py).
THEOREM SlotExclusive == Spec => []SoleBeliever
<1>1. ASSUME IInv PROVE SoleBeliever
  <2> USE StaleAssumption
  <2> SUFFICES ASSUME NEW d \in Drivers, NEW e \in Drivers,
                      Believes(d), Believes(e), d # e
               PROVE  FALSE
    BY DEF SoleBeliever
  <2>1. ASSUME NEW f \in Drivers, Believes(f)
        PROVE  /\ lease[f].run \in Runs
               /\ claimed[lease[f].run] \in Tokens(lease[f])
               /\ clock < claimed[lease[f].run] + Stale
               /\ claimed[lease[f].run] \in Nat \ {0}
               /\ claimed[lease[f].run] < clock
    <3>1. /\ Leasing(f) /\ clock < lease[f].expires /\ lease[f] \in Lease
          /\ clock \in Nat /\ claimed \in [Runs -> Nat]
          /\ LeaseInOrder(f) /\ Owns(lease[f], claimed[lease[f].run])
      BY <1>1, <2>1 DEF IInv, TypeOK, Believes, Leasing, BelieverHoldsClaim
    <3>2. Ordered(lease[f])
      BY <3>1 DEF LeaseInOrder
    <3>3. lease[f].run \in Runs /\ claimed[lease[f].run] \in Tokens(lease[f])
      BY <3>1, <3>2 DEF Ordered, Owns, Tokens
    <3>4. lease[f].token <= claimed[lease[f].run]
      BY <3>1, <3>2 DEF Ordered, Owns, Lease
    <3>5. clock < claimed[lease[f].run] + Stale
      BY <3>1, <3>2, <3>3, <3>4 DEF Ordered, Lease
    <3> QED
      BY <1>1, <3>1, <3>3, <3>5 DEF IInv, Owns
  <2>2. lease[d].run # lease[e].run
    BY <1>1, <2>1 DEF IInv, TokensDiffer
  <2>3. ClaimsApart /\ clock \in Nat
    BY <1>1 DEF IInv, TypeOK
  <2>4. \/ claimed[lease[d].run] + Stale < claimed[lease[e].run]
        \/ claimed[lease[e].run] + Stale < claimed[lease[d].run]
    BY <2>1, <2>2, <2>3 DEF ClaimsApart
  <2> QED
    BY <2>1, <2>3, <2>4
<1> QED
  BY <1>1, Inductive, PTL

\* A release that finds a live claim of its own leaves no live claim anywhere
\* (release_claim with ClaimLease.tokens).
THEOREM ReleaseFrees == Spec => ReleaseFreesSlot
<1> DEFINE Freed ==
      \A d \in Drivers :
        LET stored == claimed[lease[d].run] IN
        ReleaseClaim(d) /\ Owns(lease[d], stored) /\ Fresh(stored) => SlotFree'
<1>1. ASSUME IInv PROVE Freed
  <2> USE StaleAssumption
  <2> SUFFICES ASSUME NEW d \in Drivers, ReleaseClaim(d),
                      Owns(lease[d], claimed[lease[d].run]),
                      Fresh(claimed[lease[d].run]),
                      NEW r \in Runs, Fresh(claimed[r])'
               PROVE  FALSE
    BY DEF SlotFree
  <2>1. claimed \in [Runs -> Nat] /\ clock \in Nat /\ clock' = clock
    BY <1>1 DEF IInv, TypeOK, ReleaseClaim
  <2>2. lease[d].run \in Runs
    <3>1. Leasing(d)
      BY DEF ReleaseClaim, Leasing
    <3> QED
      BY <1>1, <3>1 DEF IInv, LeaseInOrder, Ordered
  <2>3. claimed[lease[d].run] \in Tokens(lease[d])
    BY DEF Owns, Tokens
  <2>4. claimed' = [claimed EXCEPT ![lease[d].run] = 0]
    BY <2>3 DEF ReleaseClaim
  <2>5. r # lease[d].run /\ claimed'[r] = claimed[r]
    BY <2>1, <2>2, <2>4 DEF Fresh
  <2>6. claimed[r] # 0 /\ claimed[r] + Stale >= clock
    BY <2>1, <2>5 DEF Fresh
  <2>7. /\ claimed[lease[d].run] # 0
        /\ claimed[lease[d].run] + Stale >= clock
    BY DEF Fresh
  <2>8. \/ claimed[r] + Stale < claimed[lease[d].run]
        \/ claimed[lease[d].run] + Stale < claimed[r]
    BY <1>1, <2>2, <2>5, <2>6, <2>7 DEF IInv, ClaimsApart
  <2>9. claimed[r] < clock /\ claimed[lease[d].run] < clock
    BY <1>1, <2>2 DEF IInv
  <2> QED
    BY <2>1, <2>2, <2>6, <2>7, <2>8, <2>9
<1>2. IInv => [Freed]_vars
  BY <1>1
<1> QED
  BY <1>2, Inductive, PTL DEF ReleaseFreesSlot

-----------------------------------------------------------------------------
(* The claim protocol implements the exclusive slot.                       *)

\* Who holds the slot, as the refinement maps it.
Holder == IF TakenRun = Nobody \/ Holders = {} THEN Nobody
          ELSE CHOOSE d \in Holders : TRUE

\* At most one claim is fresh, and none but that of the transaction in flight.
LEMMA OneFresh ==
  ASSUME IInv, NEW r \in Runs, Fresh(claimed[r])
  PROVE  /\ \A s \in Runs : Fresh(claimed[s]) => s = r
         /\ tx # NoTx => tx.run = r
<1> USE StaleAssumption
<1>1. /\ claimed \in [Runs -> Nat] /\ clock \in Nat
      /\ \A s \in Runs : claimed[s] < clock
      /\ tx \in Tx \union {NoTx}
  BY DEF IInv, TypeOK
<1>2. ASSUME NEW s \in Runs, Fresh(claimed[s]), s # r PROVE FALSE
  <2>1. \/ claimed[r] + Stale < claimed[s]
        \/ claimed[s] + Stale < claimed[r]
    BY <1>2 DEF IInv, ClaimsApart, Fresh
  <2> QED
    BY <1>1, <1>2, <2>1 DEF Fresh
<1>3. ASSUME tx # NoTx, tx.run # r PROVE FALSE
  <2>1. tx.token \in Nat /\ tx.token < clock /\ claimed[r] + Stale < tx.token
    BY <1>1, <1>3 DEF IInv, SentOverStale, Fresh, Tx
  <2> QED
    BY <1>1, <2>1 DEF Fresh
<1> QED
  BY <1>2, <1>3

\* What the refinement maps a state to.
Mapped ==
  /\ tx # NoTx => TakenRun = tx.run /\ TakenToken = tx.token
  /\ tx = NoTx /\ SlotFree => TakenRun = Nobody
  /\ \A r \in Runs :
       tx = NoTx /\ Fresh(claimed[r]) => TakenRun = r /\ TakenToken = claimed[r]
  /\ TakenRun # Nobody => TakenRun \in Runs
  /\ \A d, e \in Holders : d = e
  /\ TakenRun # Nobody => \A d \in Holders : Holder = d
  /\ Holders \subseteq Drivers

LEMMA MappedNow == IInv => Mapped
<1> SUFFICES ASSUME IInv PROVE Mapped
  OBVIOUS
<1> USE NobodyAssumption
<1>1. tx # NoTx => TakenRun = tx.run /\ TakenToken = tx.token /\ tx.run \in Runs
  BY DEF TakenRun, TakenToken, IInv, TypeOK, Tx
<1>2. tx = NoTx /\ SlotFree => TakenRun = Nobody
  BY DEF TakenRun
<1>3. ASSUME NEW r \in Runs, tx = NoTx, Fresh(claimed[r])
      PROVE  TakenRun = r /\ TakenToken = claimed[r]
  <2>1. ~SlotFree /\ \A s \in Runs : Fresh(claimed[s]) <=> s = r
    BY <1>3, OneFresh DEF SlotFree
  <2>2. TakenRun = r
    BY <1>3, <2>1 DEF TakenRun
  <2> QED
    BY <1>3, <2>2 DEF TakenToken
<1>4. TakenRun # Nobody => TakenRun \in Runs
  <2>1. CASE tx # NoTx
    BY <1>1, <2>1
  <2>2. CASE tx = NoTx /\ ~SlotFree
    <3>1. PICK r \in Runs : Fresh(claimed[r])
      BY <2>2 DEF SlotFree
    <3> QED
      BY <1>3, <2>2, <3>1
  <2> QED
    BY <1>2, <2>1, <2>2
<1>5. Holders \subseteq Drivers
  BY DEF Holders
<1>6. ASSUME NEW d \in Holders, NEW e \in Holders, d # e PROVE FALSE
  <2>1. TakenToken \in Tokens(lease[d]) \cap Tokens(lease[e])
    BY DEF Holders
  <2> QED
    BY <1>5, <1>6, <2>1 DEF IInv, TokensDiffer
<1>7. TakenRun # Nobody => \A d \in Holders : Holder = d
  BY <1>6 DEF Holder
<1> QED
  BY <1>1, <1>2, <1>3, <1>4, <1>5, <1>6, <1>7 DEF Mapped

LEMMA MappedNext == IInv' => Mapped'
BY MappedNow, PTL

\* A step after which no claim is fresh or in flight frees the slot.
LEMMA Freed ==
  ASSUME IInv, IInv', tx' = NoTx, SlotFree', writer' = writer
  PROVE  [Slot!Next]_(Slot!vars)
<1>1. TakenRun' = Nobody
  BY MappedNext DEF Mapped
<1>2. Holder' = Nobody
  BY <1>1 DEF Holder
<1>3. CASE TakenRun = Nobody
  <2>1. Holder = Nobody
    BY <1>3 DEF Holder
  <2> QED
    BY <1>1, <1>2, <1>3, <2>1 DEF Slot!vars, Holder
<1>4. CASE TakenRun # Nobody
  <2>1. Slot!Drop
    BY <1>1, <1>2, <1>4 DEF Slot!Drop, Slot!FreeSlot, Holder
  <2> QED
    BY <2>1 DEF Slot!Next
<1> QED
  BY <1>3, <1>4

\* A step that keeps the slot taken for its run, by its holder or by nobody.
LEMMA Kept ==
  ASSUME IInv, IInv', TakenRun # Nobody, TakenRun' = TakenRun,
         Holders' \subseteq Holders, writer' = writer
  PROVE  [Slot!Next]_(Slot!vars)
<1> USE NobodyAssumption
<1>1. /\ TakenRun \in Runs /\ Holders \subseteq Drivers
      /\ \A d, e \in Holders : d = e
      /\ \A d \in Holders : Holder = d
      /\ \A d \in Holders' : Holder' = d
  BY MappedNow, MappedNext DEF Mapped
<1>2. CASE Holders' = {} /\ Holders # {}
  <2>1. PICK d \in Holders : Holder = d
    BY <1>1, <1>2
  <2>2. Holder' = Nobody
    BY <1>2 DEF Holder
  <2>3. Slot!Abandon(d, TakenRun)
    BY <1>1, <2>1, <2>2 DEF Slot!Abandon, Slot!HeldBy, Holder
  <2>4. d \in Drivers /\ TakenRun \in Runs
    BY <1>1
  <2> QED
    BY <2>3, <2>4 DEF Slot!Next
<1>3. CASE Holders = {}
  <2>1. Holder = Nobody /\ Holder' = Nobody
    BY <1>3 DEF Holder
  <2> QED
    BY <2>1 DEF Slot!vars, Holder
<1>4. CASE Holders' # {}
  <2>1. Holder' = Holder
    BY <1>1, <1>4
  <2> QED
    BY <2>1 DEF Slot!vars, Holder
<1> QED
  BY <1>2, <1>3, <1>4

\* No driver gains a token: what a step does to the leases, unless it sends one.
Shrunk ==
  \A e \in Drivers :
    pc'[e] # "idle" /\ Tokens(lease'[e]) # {} =>
      /\ pc[e] # "idle" /\ lease'[e].run = lease[e].run
      /\ Tokens(lease'[e]) \subseteq Tokens(lease[e])

LEMMA SameTaken ==
  ASSUME IInv, IInv', Shrunk, writer' = writer,
         TakenRun # Nobody, TakenRun' = TakenRun, TakenToken' = TakenToken
  PROVE  [Slot!Next]_(Slot!vars)
<1>1. Holders' \subseteq Holders
  BY DEF Shrunk, Holders
<1> QED
  BY <1>1, Kept

\* The rows and the transaction in flight stay as they are.
LEMMA LocalSlot ==
  ASSUME IInv, IInv', Shrunk, UNCHANGED <<clock, claimed, writer, tx>>
  PROVE  [Slot!Next]_(Slot!vars)
<1>1. TakenRun' = TakenRun /\ TakenToken' = TakenToken /\ SlotFree' = SlotFree
  BY DEF TakenRun, TakenToken, SlotFree, Fresh
<1>2. CASE TakenRun = Nobody
  <2>1. tx = NoTx /\ SlotFree
    <3>1. TakenRun' \notin Runs /\ Mapped
      BY <1>1, <1>2, MappedNow, NobodyAssumption
    <3>2. tx = NoTx
      BY <3>1, <1>1 DEF Mapped, IInv, TypeOK, Tx
    <3> QED
      BY <3>1, <3>2, <1>1 DEF Mapped, SlotFree
  <2> QED
    BY <1>1, <2>1, Freed
<1>3. CASE TakenRun # Nobody
  BY <1>1, <1>3, SameTaken
<1> QED
  BY <1>2, <1>3

\* A step of one driver that changes its place and its lease.
LEMMA OneShrinks ==
  ASSUME IInv, NEW d \in Drivers, NEW l, NEW p,
         lease' = [lease EXCEPT ![d] = l], pc' = [pc EXCEPT ![d] = p],
         \/ Tokens(l) = {}
         \/ p = "idle"
         \/ /\ pc[d] # "idle" /\ l.run = lease[d].run
            /\ Tokens(l) \subseteq Tokens(lease[d])
  PROVE  Shrunk
<1>1. /\ lease'[d] = l /\ pc'[d] = p
      /\ \A e \in Drivers \ {d} : lease'[e] = lease[e] /\ pc'[e] = pc[e]
  BY DEF IInv, TypeOK
<1> QED
  BY <1>1 DEF Shrunk

LEMMA AdoptedShrinks ==
  ASSUME NEW l \in Lease, NEW stored
  PROVE  /\ Adopted(l, stored).run = l.run
         /\ Tokens(Adopted(l, stored)) \subseteq Tokens(l)
         /\ Adopted(l, stored) \in [run : {l.run}, token : {l.token, l.pending},
              expires : {Adopted(l, stored).expires}, pending : {l.pending, 0},
              sentAt : {l.sentAt, 0}, attempt : {l.attempt},
              renewal : {l.renewal}, lost : {l.lost}]
BY DEF Adopted, Tokens, Lease

\* The steps of a driver that touch no row.
LEMMA QuietSlot ==
  ASSUME IInv, IInv', NEW d \in Drivers,
         \/ StartAdmission(d) \/ AdmissionRefused(d) \/ ClaimTimeout(d)
         \/ ClaimError(d) \/ ReleaseDeferred(d) \/ StartRenewal(d)
         \/ EndTurn(d) \/ StopLease(d) \/ Crash(d)
  PROVE  [Slot!Next]_(Slot!vars)
<1>1. UNCHANGED <<clock, claimed, writer, tx>>
  BY DEF StartAdmission, AdmissionRefused, ClaimTimeout, ClaimError,
         ReleaseDeferred, StartRenewal, EndTurn, StopLease, Crash
<1>2. lease[d] \in Lease /\ lease \in [Drivers -> Lease] /\ pc \in [Drivers -> Steps]
  BY DEF IInv, TypeOK
<1>3. CASE StartAdmission(d) \/ AdmissionRefused(d) \/ ClaimError(d)
             \/ ReleaseDeferred(d) \/ Crash(d)
  <2>1. Tokens(NoLease) = {} /\ Tokens([NoLease EXCEPT !.attempt = clock]) = {}
    BY DEF Tokens, NoLease
  <2>2. PICK l, p : /\ lease' = [lease EXCEPT ![d] = l] /\ Tokens(l) = {}
                    /\ pc' = [pc EXCEPT ![d] = p]
    BY <1>3, <2>1 DEF StartAdmission, AdmissionRefused, ClaimError,
                      ReleaseDeferred, Crash
  <2> QED
    BY <1>1, <2>2, OneShrinks, LocalSlot
<1>4. CASE StartRenewal(d)
  <2> DEFINE l == [lease[d] EXCEPT !.renewal = "begun", !.attempt = clock]
  <2>1. l.run = lease[d].run /\ Tokens(l) = Tokens(lease[d])
    BY <1>2 DEF Tokens, Lease
  <2>2. lease' = [lease EXCEPT ![d] = l] /\ pc' = [pc EXCEPT ![d] = pc[d]]
    BY <1>2, <1>4 DEF StartRenewal
  <2>3. pc[d] # "idle"
    BY <1>4 DEF StartRenewal
  <2> HIDE DEF l
  <2> QED
    BY <1>1, <2>1, <2>2, <2>3, OneShrinks, LocalSlot
<1>5. CASE ClaimTimeout(d) \/ EndTurn(d) \/ StopLease(d)
  <2>1. PICK p : pc' = [pc EXCEPT ![d] = p]
    BY <1>5 DEF ClaimTimeout, EndTurn, StopLease
  <2>2. pc[d] # "idle" /\ lease' = [lease EXCEPT ![d] = lease[d]]
    BY <1>2, <1>5 DEF ClaimTimeout, EndTurn, StopLease
  <2> QED
    BY <1>1, <2>1, <2>2, OneShrinks, LocalSlot
<1> QED
  BY <1>3, <1>4, <1>5

LEMMA DeferredSlot ==
  ASSUME IInv, IInv', NEW d \in Drivers,
         RenewalRefused(d) \/ RenewalDeferred(d) \/ Checkpoint(d) \/ Settle(d)
  PROVE  [Slot!Next]_(Slot!vars)
<1>1. UNCHANGED <<clock, claimed, writer, tx>>
  BY DEF RenewalRefused, RenewalDeferred, Checkpoint, Settle
<1>2. /\ lease[d] \in Lease /\ lease \in [Drivers -> Lease]
      /\ pc \in [Drivers -> Steps]
  BY DEF IInv, TypeOK
<1>3. pc[d] # "idle"
  BY DEF RenewalRefused, RenewalDeferred, Checkpoint, Settle, IInv, LeaseInOrder
<1> DEFINE a == Adopted(lease[d], claimed[lease[d].run])
           lost(l, b) == [l EXCEPT !.lost = b]
           ended(l, b) == [l EXCEPT !.renewal = "none", !.lost = b]
<1>4. PICK l \in {lease[d], a} : \E b, p :
        /\ pc' = [pc EXCEPT ![d] = p]
        /\ \/ lease' = [lease EXCEPT ![d] = l]
           \/ lease' = [lease EXCEPT ![d] = lost(l, b)]
           \/ lease' = [lease EXCEPT ![d] = ended(l, b)]
  <2>1. CASE RenewalRefused(d)
    <3>1. PICK b : AfterRenewal([a EXCEPT !.lost = TRUE]) = ended(a, b)
      BY <1>2, AdoptedShrinks DEF AfterRenewal
    <3>2. pc' = [pc EXCEPT ![d] = pc[d]]
      BY <1>2, <2>1 DEF RenewalRefused
    <3> QED
      BY <2>1, <3>1, <3>2 DEF RenewalRefused
  <2>2. CASE RenewalDeferred(d)
    <3>1. PICK raised \in BOOLEAN :
            lease' = [lease EXCEPT ![d] =
                        AfterRenewal([lease[d] EXCEPT !.lost = @ \/ raised])]
      BY <2>2 DEF RenewalDeferred
    <3>2. PICK b : AfterRenewal([lease[d] EXCEPT !.lost = @ \/ raised]) = ended(lease[d], b)
      BY <1>2 DEF AfterRenewal, Lease
    <3>3. pc' = [pc EXCEPT ![d] = pc[d]]
      BY <1>2, <2>2 DEF RenewalDeferred
    <3> QED
      BY <3>1, <3>2, <3>3
  <2>3. CASE Checkpoint(d)
    <3>1. PICK seen \in {lease[d], a} :
            \/ lease' = [lease EXCEPT ![d] = seen] /\ UNCHANGED pc
            \/ /\ lease' = [lease EXCEPT ![d] = lost(seen, TRUE)]
               /\ pc' = [pc EXCEPT ![d] = "stopping"]
      BY <2>3 DEF Checkpoint
    <3>2. UNCHANGED pc => pc' = [pc EXCEPT ![d] = pc[d]]
      BY <1>2
    <3> QED
      BY <3>1, <3>2
  <2>4. CASE Settle(d)
    <3>1. pc' = [pc EXCEPT ![d] = pc[d]]
      BY <1>2, <2>4 DEF Settle
    <3> QED
      BY <2>4, <3>1 DEF Settle
  <2> QED
    BY <2>1, <2>2, <2>3, <2>4
<1>5. /\ l.run = lease[d].run /\ Tokens(l) \subseteq Tokens(lease[d])
      /\ \A b : /\ lost(l, b).run = l.run /\ Tokens(lost(l, b)) = Tokens(l)
               /\ ended(l, b).run = l.run /\ Tokens(ended(l, b)) = Tokens(l)
  <2>1. a.run = lease[d].run /\ Tokens(a) \subseteq Tokens(lease[d])
    BY <1>2, AdoptedShrinks
  <2>2. PICK run, token, expires, pending, sentAt, attempt, renewal, gone :
          l = [run |-> run, token |-> token, expires |-> expires,
               pending |-> pending, sentAt |-> sentAt, attempt |-> attempt,
               renewal |-> renewal, lost |-> gone]
    BY <1>2, AdoptedShrinks DEF Lease
  <2> QED
    BY <2>1, <2>2 DEF Tokens
<1> HIDE DEF a, lost, ended
<1>6. PICK b, p :
        /\ pc' = [pc EXCEPT ![d] = p]
        /\ \/ lease' = [lease EXCEPT ![d] = l]
           \/ lease' = [lease EXCEPT ![d] = lost(l, b)]
           \/ lease' = [lease EXCEPT ![d] = ended(l, b)]
  BY <1>4
<1>7. /\ lost(l, b).run = l.run /\ Tokens(lost(l, b)) = Tokens(l)
      /\ ended(l, b).run = l.run /\ Tokens(ended(l, b)) = Tokens(l)
  BY <1>5
<1> QED
  BY <1>1, <1>3, <1>5, <1>6, <1>7, OneShrinks, LocalSlot

LEMMA TickSlot ==
  ASSUME IInv, IInv', Tick
  PROVE  [Slot!Next]_(Slot!vars)
<1> USE StaleAssumption
<1>1. /\ clock \in Nat /\ clock' = clock + 1
      /\ UNCHANGED <<claimed, writer, tx, pc, lease>>
      /\ claimed \in [Runs -> Nat]
  BY DEF Tick, IInv, TypeOK
<1>2. Shrunk
  BY <1>1 DEF Shrunk
<1>3. CASE tx # NoTx
  <2>1. TakenRun' = TakenRun /\ TakenToken' = TakenToken /\ TakenRun # Nobody
    BY <1>1, <1>3, NobodyAssumption DEF TakenRun, TakenToken, IInv, TypeOK, Tx
  <2> QED
    BY <1>1, <1>2, <2>1, SameTaken
<1>4. CASE tx = NoTx /\ SlotFree'
  BY <1>1, <1>4, Freed
<1>5. CASE tx = NoTx /\ ~SlotFree'
  <2>1. PICK r \in Runs : Fresh(claimed[r])'
    BY <1>5 DEF SlotFree
  <2>2. Fresh(claimed[r])
    BY <1>1, <2>1 DEF Fresh
  <2>3. TakenRun = r /\ TakenToken = claimed[r] /\ r # Nobody
    BY <1>5, <2>2, MappedNow, NobodyAssumption DEF Mapped
  <2>4. TakenRun' = r /\ TakenToken' = claimed'[r]
    BY <1>1, <1>5, <2>1, MappedNext DEF Mapped
  <2> QED
    BY <1>1, <1>2, <2>3, <2>4, SameTaken
<1> QED
  BY <1>3, <1>4, <1>5

\* The transaction in flight lands, whoever still waits for it.
LEMMA LandSlot ==
  ASSUME IInv, IInv', Shrunk, tx # NoTx, tx' = NoTx,
         claimed' = [claimed EXCEPT ![tx.run] = tx.token],
         UNCHANGED <<clock, writer>>
  PROVE  [Slot!Next]_(Slot!vars)
<1>1. tx.run \in Runs /\ tx.run # Nobody /\ claimed \in [Runs -> Nat]
  BY NobodyAssumption DEF IInv, TypeOK, Tx
<1>2. CASE SlotFree'
  BY <1>2, Freed
<1>3. CASE ~SlotFree'
  <2>1. PICK r \in Runs : Fresh(claimed[r])'
    BY <1>3 DEF SlotFree
  <2>2. r = tx.run
    <3>1. ASSUME r # tx.run PROVE Fresh(claimed[r])
      BY <1>1, <2>1, <3>1 DEF Fresh
    <3> QED
      BY <3>1, OneFresh
  <2>3. TakenRun = tx.run /\ TakenToken = tx.token
    BY MappedNow DEF Mapped
  <2>4. TakenRun' = r /\ TakenToken' = claimed'[r]
    BY <2>1, MappedNext DEF Mapped
  <2> QED
    BY <1>1, <2>2, <2>3, <2>4, SameTaken
<1> QED
  BY <1>2, <1>3

LEMMA AbortSlot ==
  ASSUME IInv, IInv', Abort
  PROVE  [Slot!Next]_(Slot!vars)
<1> USE StaleAssumption
<1>1. /\ tx # NoTx /\ tx' = NoTx
      /\ UNCHANGED <<clock, claimed, writer, pc, lease>>
  BY DEF Abort, Orphaned
<1>2. /\ tx.run \in Runs /\ tx.run # Nobody /\ tx.token \in Nat \ {0}
      /\ claimed \in [Runs -> Nat] /\ clock \in Nat
  BY <1>1, NobodyAssumption DEF IInv, TypeOK, Tx
<1>3. CASE SlotFree'
  BY <1>1, <1>3, Freed
<1>4. CASE ~SlotFree'
  <2>1. PICK r \in Runs : Fresh(claimed[r])
    BY <1>1, <1>4 DEF SlotFree, Fresh
  <2>2. tx.run = r
    BY <1>1, <2>1, OneFresh
  <2>3. TakenRun = r /\ TakenToken = tx.token
    BY <1>1, <2>2, MappedNow DEF Mapped
  <2>4. TakenRun' = r /\ TakenToken' = claimed[r]
    BY <1>1, <2>1, MappedNext DEF Mapped, Fresh
  <2>5. ASSUME NEW d \in Holders' PROVE d \in Holders
    <3>1. /\ d \in Drivers /\ pc[d] # "idle" /\ lease[d].run = r
          /\ claimed[r] \in Tokens(lease[d])
      BY <1>1, <2>4 DEF Holders
    <3>2. Leasing(d)
      BY <3>1 DEF IInv, LeaseInOrder, Tokens
    <3>3. d = tx.driver
      <4>1. ASSUME d # tx.driver PROVE claimed[r] + Stale < tx.token /\ tx.token < clock
        BY <1>1, <3>1, <3>2, <4>1 DEF IInv, SentOverStale
      <4> QED
        BY <1>2, <2>1, <4>1 DEF Fresh
    <3>4. tx.token \in Tokens(lease[d])
      BY <1>1, <1>2, <3>2, <3>3 DEF IInv, SenderKnows, LastToken, Tokens
    <3> QED
      BY <2>3, <3>1, <3>4 DEF Holders
  <2> QED
    BY <1>1, <1>2, <2>2, <2>3, <2>4, <2>5, Kept
<1> QED
  BY <1>3, <1>4

LEMMA ReleaseSlot ==
  ASSUME IInv, IInv', NEW d \in Drivers, ReleaseClaim(d)
  PROVE  [Slot!Next]_(Slot!vars)
<1> DEFINE run == lease[d].run
           left == IF claimed[run] \in Tokens(lease[d]) THEN 0 ELSE claimed[run]
<1>1. /\ claimed' = [claimed EXCEPT ![run] = left]
      /\ pc' = [pc EXCEPT ![d] = "idle"]
      /\ lease' = [lease EXCEPT ![d] = NoLease]
      /\ UNCHANGED <<clock, writer, tx>>
      /\ claimed \in [Runs -> Nat] /\ tx.run # run
  BY DEF ReleaseClaim, Unlocked, IInv, TypeOK
<1>2. Shrunk
  BY <1>1, OneShrinks
<1>3. CASE tx # NoTx
  <2>1. TakenRun' = TakenRun /\ TakenToken' = TakenToken /\ TakenRun # Nobody
    BY <1>1, <1>3, NobodyAssumption DEF TakenRun, TakenToken, IInv, TypeOK, Tx
  <2> QED
    BY <1>1, <1>2, <2>1, SameTaken
<1>4. CASE tx = NoTx /\ SlotFree'
  BY <1>1, <1>4, Freed
<1>5. CASE tx = NoTx /\ ~SlotFree'
  <2>1. PICK r \in Runs : Fresh(claimed[r])'
    BY <1>5 DEF SlotFree
  <2>2. claimed'[r] = claimed[r] /\ Fresh(claimed[r])
    BY <1>1, <2>1 DEF Fresh
  <2>3. TakenRun = r /\ TakenToken = claimed[r] /\ r # Nobody
    BY <1>5, <2>2, MappedNow, NobodyAssumption DEF Mapped
  <2>4. TakenRun' = r /\ TakenToken' = claimed'[r]
    BY <1>1, <1>5, <2>1, MappedNext DEF Mapped
  <2> QED
    BY <1>1, <1>2, <2>2, <2>3, <2>4, SameTaken
<1> QED
  BY <1>3, <1>4, <1>5

LEMMA SendClaimSlot ==
  ASSUME IInv, IInv', NEW d \in Drivers, NEW r \in Runs, SendClaim(d, r)
  PROVE  Slot!Acquire(d, r)
<1>1. /\ tx = NoTx /\ SlotFree /\ writer' = writer
      /\ tx' = [driver |-> d, run |-> r, token |-> clock]
      /\ clock \in Nat \ {0} /\ lease \in [Drivers -> Lease] /\ pc \in [Drivers -> Steps]
      /\ pc' = [pc EXCEPT ![d] = "claiming"]
      /\ lease' = [lease EXCEPT ![d].run = r, ![d].token = clock,
                                ![d].expires = lease[d].attempt + Stale]
  BY DEF SendClaim, IInv, TypeOK
<1>2. TakenRun = Nobody /\ Holder = Nobody
  BY <1>1, MappedNow DEF Mapped, Holder
<1>3. tx' # NoTx
  BY <1>1, NobodyAssumption DEF NoTx
<1>4. TakenRun' = r /\ TakenToken' = clock /\ r # Nobody
  BY <1>1, <1>3, MappedNext, NobodyAssumption DEF Mapped
<1>5. lease'[d].run = r /\ lease'[d].token = clock /\ pc'[d] = "claiming"
  BY <1>1 DEF Lease
<1>6. clock \in Tokens(lease'[d])
  BY <1>1, <1>5 DEF Tokens
<1>7. d \in Holders'
  BY <1>4, <1>5, <1>6 DEF Holders
<1>8. Holder' = d
  BY <1>4, <1>7, MappedNext DEF Mapped
<1> QED
  BY <1>1, <1>2, <1>4, <1>8 DEF Slot!Acquire, Slot!FreeSlot, Slot!HeldBy, Holder

\* A driver whose token is fresh in the row of its lease holds the slot.
LEMMA OwnerHolds ==
  ASSUME IInv, NEW d \in Drivers, tx = NoTx, pc[d] # "idle", lease[d].run \in Runs,
         Fresh(claimed[lease[d].run]), claimed[lease[d].run] \in Tokens(lease[d])
  PROVE  TakenRun = lease[d].run /\ Holder = d
<1>1. TakenRun = lease[d].run /\ TakenToken = claimed[lease[d].run]
  BY MappedNow DEF Mapped
<1>2. d \in Holders
  BY <1>1 DEF Holders
<1> QED
  BY <1>1, <1>2, MappedNow, NobodyAssumption DEF Mapped

LEMMA SendRenewalSlot ==
  ASSUME IInv, IInv', NEW d \in Drivers, SendRenewal(d)
  PROVE  UNCHANGED Slot!vars
<1> DEFINE run == lease[d].run
<1>1. /\ tx = NoTx /\ Owns(lease[d], claimed[run]) /\ Fresh(claimed[run])
      /\ tx' = [driver |-> d, run |-> run, token |-> clock]
      /\ clock \in Nat \ {0} /\ lease[d] \in Lease /\ lease \in [Drivers -> Lease]
      /\ UNCHANGED <<claimed, writer, pc>>
      /\ lease' = [lease EXCEPT ![d] = [Adopted(lease[d], claimed[run]) EXCEPT
           !.renewal = "sent", !.pending = clock, !.sentAt = lease[d].attempt]]
  BY DEF SendRenewal, IInv, TypeOK
<1>2. pc[d] \in {"running", "stopping"} /\ run \in Runs
  BY DEF SendRenewal, IInv, LeaseInOrder, Leasing, Ordered
<1>3. TakenRun = run /\ Holder = d /\ run # Nobody
  BY <1>1, <1>2, OwnerHolds, NobodyAssumption DEF Owns, Tokens
<1>4. tx' # NoTx
  BY <1>1, <1>2, NobodyAssumption DEF NoTx
<1>5. TakenRun' = run /\ TakenToken' = clock
  BY <1>1, <1>4, MappedNext DEF Mapped
<1>6. lease'[d].run = run /\ lease'[d].pending = clock
  BY <1>1, AdoptedShrinks DEF Lease
<1>7. clock \in Tokens(lease'[d])
  BY <1>1, <1>6 DEF Tokens
<1>8. d \in Holders'
  BY <1>1, <1>2, <1>5, <1>6, <1>7 DEF Holders
<1>9. Holder' = d
  BY <1>3, <1>5, <1>8, MappedNext DEF Mapped
<1> QED
  BY <1>1, <1>3, <1>5, <1>9 DEF Slot!vars, Holder

LEMMA CommitSlot ==
  ASSUME IInv, IInv', NEW d \in Drivers, FencedCommit(d)
  PROVE  Slot!Commit(d, lease[d].run) /\ lease[d].run \in Runs
<1> DEFINE run == lease[d].run
<1>1. /\ tx = NoTx /\ Fresh(claimed[run]) /\ pc[d] = "running"
      /\ claimed[run] = lease[d].token
      /\ UNCHANGED <<clock, claimed, tx, lease>>
      /\ writer' = [writer EXCEPT ![run] = d]
      /\ pc \in [Drivers -> Steps]
  BY DEF FencedCommit, IInv, TypeOK
<1>2. run \in Runs
  BY <1>1 DEF IInv, LeaseInOrder, Leasing, Ordered
<1>3. claimed[run] \in Tokens(lease[d])
  BY <1>1 DEF Fresh, Tokens
<1>4. TakenRun = run /\ Holder = d
  BY <1>1, <1>2, <1>3, OwnerHolds
<1>5. TakenRun' = TakenRun /\ TakenToken' = TakenToken
  BY <1>1 DEF TakenRun, TakenToken, SlotFree, Fresh
<1>6. Holders' = Holders
  <2>1. \A e \in Drivers : pc'[e] = "idle" <=> pc[e] = "idle"
    BY <1>1 DEF FencedCommit
  <2> QED
    BY <1>1, <1>5, <2>1 DEF Holders
<1>7. Holder' = Holder
  BY <1>5, <1>6 DEF Holder
<1> QED
  BY <1>1, <1>2, <1>4, <1>5, <1>7 DEF Slot!Commit, Slot!HeldBy, Holder

\* Every step of the protocol is a step of the slot, or none.
LEMMA StepMaps == IInv /\ IInv' /\ [Next]_vars => [Slot!Next]_(Slot!vars)
<1> SUFFICES ASSUME IInv, IInv', [Next]_vars PROVE [Slot!Next]_(Slot!vars)
  OBVIOUS
<1>1. ASSUME NEW d \in Drivers, Admission(d) PROVE [Slot!Next]_(Slot!vars)
  <2>1. CASE \E r \in Runs : SendClaim(d, r)
    BY <2>1, SendClaimSlot DEF Slot!Next
  <2>2. CASE ClaimReply(d)
    <3>1. /\ tx # NoTx /\ tx' = NoTx /\ UNCHANGED <<clock, writer, lease>>
          /\ claimed' = [claimed EXCEPT ![tx.run] = tx.token]
      BY <2>2, OneWaits DEF ClaimReply
    <3>2. PICK p : pc' = [pc EXCEPT ![d] = p]
      BY <2>2 DEF ClaimReply
    <3>3. Shrunk
      BY <2>2, <3>1, <3>2 DEF Shrunk, ClaimReply, IInv, TypeOK
    <3> QED
      BY <3>1, <3>3, LandSlot
  <2> QED
    BY <1>1, <2>1, <2>2, QuietSlot DEF Admission
<1>2. ASSUME NEW d \in Drivers, Renewal(d) PROVE [Slot!Next]_(Slot!vars)
  <2>1. CASE RenewalReply(d)
    <3> DEFINE l == AfterRenewal([lease[d] EXCEPT
                      !.token = lease[d].pending, !.pending = 0, !.sentAt = 0,
                      !.expires = lease[d].attempt + Stale])
    <3>1. /\ tx # NoTx /\ tx' = NoTx /\ UNCHANGED <<clock, writer, pc>>
          /\ claimed' = [claimed EXCEPT ![tx.run] = tx.token]
          /\ lease' = [lease EXCEPT ![d] = l]
          /\ lease[d] \in Lease /\ pc \in [Drivers -> Steps]
      BY <2>1, OneWaits DEF RenewalReply, IInv, TypeOK
    <3>2. l.run = lease[d].run /\ Tokens(l) \subseteq Tokens(lease[d])
      BY <3>1 DEF AfterRenewal, Tokens, Lease
    <3>3. pc[d] # "idle" /\ pc' = [pc EXCEPT ![d] = pc[d]]
      BY <2>1, <3>1 DEF RenewalReply, IInv, LeaseInOrder
    <3> HIDE DEF l
    <3>4. Shrunk
      BY <3>1, <3>2, <3>3, OneShrinks
    <3> QED
      BY <3>1, <3>4, LandSlot
  <2>2. CASE SendRenewal(d)
    BY <2>2, SendRenewalSlot
  <2> QED
    BY <1>2, <2>1, <2>2, QuietSlot, DeferredSlot DEF Renewal
<1>3. ASSUME NEW d \in Drivers, Turn(d) PROVE [Slot!Next]_(Slot!vars)
  <2>1. CASE FencedCommit(d)
    BY <2>1, CommitSlot DEF Slot!Next
  <2> QED
    BY <1>3, <2>1, QuietSlot, DeferredSlot, ReleaseSlot DEF Turn
<1>4. CASE Land
  <2>1. Shrunk
    BY <1>4 DEF Land, Shrunk
  <2> QED
    BY <1>4, <2>1, LandSlot DEF Land, Orphaned
<1>5. CASE UNCHANGED vars
  <2>1. Shrunk /\ UNCHANGED <<clock, claimed, writer, tx>>
    BY <1>5 DEF Shrunk, vars
  <2> QED
    BY <2>1, LocalSlot
<1> QED
  BY <1>1, <1>2, <1>3, <1>4, <1>5, AbortSlot, TickSlot, QuietSlot DEF Next

LEMMA InitMaps == Init => Slot!Init
<1> SUFFICES ASSUME Init PROVE Slot!Init
  OBVIOUS
<1>1. tx = NoTx /\ SlotFree /\ writer = [r \in Runs |-> Nobody]
  BY DEF Init, SlotFree, Fresh
<1>2. TakenRun = Nobody
  BY <1>1, InitInv, MappedNow DEF Mapped
<1> QED
  BY <1>1, <1>2 DEF Slot!Init, Slot!FreeSlot

\* The claim protocol implements one exclusive slot: whatever calls time out and
\* whenever their commits land, the slot is never handed over while it is taken
\* and only its holder makes a lifecycle commit (coordination.py, lease.py,
\* machine._commit_owned).
THEOREM SlotImplemented == Spec => ImplementsExclusiveSlot
<1>1. Init => Slot!Init
  BY InitMaps
<1>2. IInv /\ IInv' /\ [Next]_vars => [Slot!Next]_(Slot!vars)
  BY StepMaps
<1> QED
  BY <1>1, <1>2, Inductive, PTL DEF Spec, ImplementsExclusiveSlot, Slot!Spec

-----------------------------------------------------------------------------
(* Drivers that a claim does not outlive: CheckRunPipeline_proofs says of  *)
(* every instance of CheckRunPipeline what is asked of the one of          *)
(* RunTurns.                                                               *)

Progress == INSTANCE CheckRunPipeline_proofs WITH
  Drivers <- LateTasks, Runs <- LateRuns, Nobody <- NoTask, Subject <- LateSubject,
  Manuscripts <- LatePapers, Rubrics <- LateRubrics, InLibrary <- LateLibrary,
  Units <- LateUnits, StageOf <- LateStageOf, DegradeOnQuota <- LateDegrade,
  LiveExpiry <- TRUE, MaxFaults <- MaxLate,
  run <- lateRun, corpus <- lateCorpus, slot <- lateSlot, turn <- lateTurn,
  faults <- lateFaults

\* The two instances have the same initial states and the same steps.
LEMMA LateIsProgress ==
  /\ Late!Init => Progress!Init
  /\ [Late!Next]_(Late!vars) => [Progress!Next]_(Progress!vars)
<1> USE DEF
      Late!StageAfter, Progress!StageAfter, Late!Active, Progress!Active, Late!FreeSlot,
      Progress!FreeSlot, Late!HeldBy, Progress!HeldBy, Late!FencedPoints,
      Progress!FencedPoints, Late!NoTurn, Progress!NoTurn, Late!Owned, Progress!Owned,
      Late!Missing, Progress!Missing, Late!At, Progress!At, Late!Goto, Progress!Goto,
      Late!Fault, Progress!Fault, Late!Begin, Progress!Begin, Late!Stopped,
      Progress!Stopped, Late!Orphan, Progress!Orphan, Late!Withdraw, Progress!Withdraw,
      Late!FinishCancel, Progress!FinishCancel, Late!Routed, Progress!Routed, Late!Resume,
      Progress!Resume, Late!Commit1, Progress!Commit1, Late!ExceptionExit,
      Progress!ExceptionExit
<1>1. Late!Init => Progress!Init
  BY Zenon DEF Late!Init, Progress!Init, Late!NewRow, Progress!NewRow
<1>2. ASSUME NEW r \in LateRuns PROVE Late!CreateRun(r) => Progress!CreateRun(r)
  BY Zenon DEF Late!CreateRun, Progress!CreateRun
<1>3. ASSUME NEW r \in LateRuns PROVE Late!CancelRun(r) => Progress!CancelRun(r)
  BY Zenon DEF Late!CancelRun, Progress!CancelRun
<1>4. ASSUME NEW r \in LateRuns PROVE Late!QuotaReset(r) => Progress!QuotaReset(r)
  BY Zenon DEF Late!QuotaReset, Progress!QuotaReset
<1>5. ASSUME NEW d \in LateTasks, NEW r \in LateRuns PROVE Late!Admit(d, r) => Progress!Admit(d, r)
  BY Zenon DEF Late!Admit, Progress!Admit
<1>6. ASSUME NEW d \in LateTasks PROVE Late!Enter(d) => Progress!Enter(d)
  BY Zenon DEF Late!Enter, Progress!Enter
<1>7. ASSUME NEW d \in LateTasks PROVE Late!Route(d) => Progress!Route(d)
  BY Zenon DEF Late!Route, Progress!Route
<1>8. ASSUME NEW d \in LateTasks PROVE Late!Publish(d) => Progress!Publish(d)
  BY Zenon DEF Late!Publish, Progress!Publish
<1>9. ASSUME NEW d \in LateTasks PROVE Late!Load(d) => Progress!Load(d)
  BY Zenon DEF Late!Load, Progress!Load
<1>10. ASSUME NEW d \in LateTasks, NEW u \in LateUnits PROVE Late!Work(d, u) => Progress!Work(d, u)
  BY Zenon DEF Late!Work, Progress!Work
<1>11. ASSUME NEW d \in LateTasks, NEW u \in LateUnits PROVE Late!Degrade(d, u) => Progress!Degrade(d, u)
  BY Zenon DEF Late!Degrade, Progress!Degrade
<1>12. ASSUME NEW d \in LateTasks PROVE Late!Boundary(d) => Progress!Boundary(d)
  BY Zenon DEF Late!Boundary, Progress!Boundary
<1>13. ASSUME NEW d \in LateTasks PROVE Late!QuotaExhausted(d) => Progress!QuotaExhausted(d)
  BY Zenon DEF Late!QuotaExhausted, Progress!QuotaExhausted
<1>14. ASSUME NEW d \in LateTasks PROVE Late!AIUnavailable(d) => Progress!AIUnavailable(d)
  BY Zenon DEF Late!AIUnavailable, Progress!AIUnavailable
<1>15. ASSUME NEW d \in LateTasks PROVE Late!Outage(d) => Progress!Outage(d)
  BY Zenon DEF Late!Outage, Progress!Outage
<1>16. ASSUME NEW d \in LateTasks PROVE Late!Aggregate(d) => Progress!Aggregate(d)
  BY Zenon DEF Late!Aggregate, Progress!Aggregate
<1>17. ASSUME NEW d \in LateTasks PROVE Late!Flush(d) => Progress!Flush(d)
  BY Zenon DEF Late!Flush, Progress!Flush
<1>18. ASSUME NEW d \in LateTasks PROVE Late!Recheck(d) => Progress!Recheck(d)
  BY Zenon DEF Late!Recheck, Progress!Recheck
<1>19. ASSUME NEW d \in LateTasks PROVE Late!Advance(d) => Progress!Advance(d)
  BY Zenon DEF Late!Advance, Progress!Advance
<1>20. ASSUME NEW d \in LateTasks PROVE Late!Raise(d) => Progress!Raise(d)
  BY Zenon DEF Late!Raise, Progress!Raise
<1>21. ASSUME NEW d \in LateTasks PROVE Late!Fail(d) => Progress!Fail(d)
  BY Zenon DEF Late!Fail, Progress!Fail
<1>22. ASSUME NEW d \in LateTasks PROVE Late!Block(d) => Progress!Block(d)
  BY Zenon DEF Late!Block, Progress!Block
<1>23. ASSUME NEW d \in LateTasks PROVE Late!LoseClaim(d) => Progress!LoseClaim(d)
  BY Zenon DEF Late!LoseClaim, Progress!LoseClaim
<1>24. ASSUME NEW d \in LateTasks PROVE Late!EndTurn(d) => Progress!EndTurn(d)
  BY Zenon DEF Late!EndTurn, Progress!EndTurn
<1>25. ASSUME NEW d \in LateTasks PROVE Late!YieldTurn(d) => Progress!YieldTurn(d)
  BY Zenon DEF Late!YieldTurn, Progress!YieldTurn
<1>26. ASSUME NEW d \in LateTasks PROVE Late!Crash(d) => Progress!Crash(d)
  BY Zenon DEF Late!Crash, Progress!Crash
<1>27. Late!Expire => Progress!Expire
  BY Zenon DEF Late!Expire, Progress!Expire
<1>28. Late!ExpireLive => Progress!ExpireLive
  BY Zenon DEF Late!ExpireLive, Progress!ExpireLive
<1>29. [Late!Next]_(Late!vars) => [Progress!Next]_(Progress!vars)
  BY Zenon,
     <1>2, <1>3, <1>4, <1>5, <1>6, <1>7, <1>8, <1>9, <1>10, <1>11, <1>12, <1>13,
     <1>14, <1>15, <1>16, <1>17, <1>18, <1>19, <1>20, <1>21, <1>22, <1>23,
     <1>24, <1>25, <1>26, <1>27, <1>28
     DEF Late!Next, Progress!Next, Late!Step, Progress!Step, Late!vars, Progress!vars
<1> QED BY <1>1, <1>29

\* Whatever expires under a live driver, no stage is left unsettled, no plan is
\* missing and no run is done incomplete: DoneComplete, StageSettled and
\* PlanFound of CheckRunPipeline_proofs, where LiveExpiry holds.
THEOREM LateTheorem == Late!Spec => []LateDriverHarmless
<1>1. Progress!Spec => []Progress!DoneIsComplete
  BY Zenon, LateAssumption, Progress!DoneComplete
<1>2. Progress!Spec => []Progress!StageLeftSettled
  BY LateAssumption, Progress!StageSettled
<1>3. Progress!Spec => []Progress!ResumeFindsPlan
  BY LateAssumption, Progress!PlanFound
<1>4. /\ Progress!DoneIsComplete
      /\ Progress!StageLeftSettled
      /\ Progress!ResumeFindsPlan
      => LateDriverHarmless
  BY Zenon DEF LateDriverHarmless, Late!DoneIsComplete, Progress!DoneIsComplete,
     Late!StageLeftSettled, Progress!StageLeftSettled, Late!ResumeFindsPlan,
     Progress!ResumeFindsPlan, Late!Reached, Progress!Reached, Late!At, Progress!At
<1> QED
  BY LateIsProgress, <1>1, <1>2, <1>3, <1>4, PTL DEF Late!Spec, Progress!Spec

-----------------------------------------------------------------------------
(* Whose run is next: CheckQueue, for any runs, instructors, schedulers    *)
(* and any number of crashes and timeouts.  TurnsInv is inductive.  Who is *)
(* ahead of an instructor was served after him, so that he comes later in  *)
(* a list when it is read, and no later step puts him first.               *)

\* The runs that have been created are finitely many.
Active == {r \in QueuedRuns : state[r] # "none"}

\* The ranks of the runs that have started are those given out so far.
RanksInv ==
  /\ IsFiniteSet(Active) /\ IsFiniteSet(Queue!Ranked)
  /\ \A r \in QueuedRuns : started[r] <= Cardinality(Queue!Ranked)

\* Who is ahead of an instructor was served after him.
ServedAfter(p, o) ==
  \E r \in QueuedRuns :
    /\ Instructor[r] = p
    /\ \A q \in QueuedRuns : Instructor[q] = o => started[q] < started[r]

AheadInv ==
  \A o \in Queue!Instructors : \A p \in ahead[o] : p \in Queue!Instructors /\ ServedAfter(p, o)

\* The guard of the list, and the claim of the turn, have one scheduler each.
GuardInv ==
  /\ \A s \in Schedulers : at[s] = "choose" => guard = s /\ claim = NoTask
  /\ \A s \in Schedulers : at[s] = "turn" => claim = mine[s] /\ mine[s] \in QueuedRuns
  /\ \A s, t \in Schedulers : at[s] = "turn" /\ at[t] = "turn" => s = t

\* In a list that is being tried, a run of an instructor who is ahead of another
\* comes after one of the other.
ListInv ==
  \A s \in Schedulers : at[s] = "choose" =>
    \A o \in Queue!Instructors : \A j \in DOMAIN list[s] :
      Instructor[list[s][j]] \in ahead[o] => \E i \in 1..(j - 1) : Instructor[list[s][i]] = o

\* A new run that has got the turn is of nobody who is ahead.
NewRunInv ==
  \A s \in Schedulers : at[s] = "turn" /\ started[mine[s]] = 0 =>
    \A o \in Queue!Instructors : Instructor[mine[s]] \notin ahead[o]

TurnsInv == Queue!TypeOK /\ RanksInv /\ AheadInv /\ GuardInv /\ ListInv /\ NewRunInv

\* CheckQueue has operators of FiniteSets of its own.
LEMMA QueueCounts == \A S : Queue!Cardinality(S) = Cardinality(S)
  BY DEF Cardinality, Queue!Cardinality

LEMMA QueueConstants ==
  /\ NoTask \notin QueuedRuns /\ NoTask \notin Schedulers
  /\ Polling \in BOOLEAN /\ MaxCrashes \in Nat /\ MaxTimeouts \in Nat
  BY TurnsAssumption DEF Queue!QueueAssumption

LEMMA TurnsInit == Queue!Init => TurnsInv
  <1> SUFFICES ASSUME Queue!Init PROVE TurnsInv
    OBVIOUS
  <1>1. Queue!TypeOK
    BY QueueConstants DEF Queue!Init, Queue!TypeOK
  <1>2. RanksInv
    <2>1. Queue!Ranked = {}
      BY DEF Queue!Init, Queue!Ranked
    <2>2. Active = {}
      BY DEF Queue!Init, Active
    <2> QED BY <2>1, <2>2, FS_EmptySet DEF RanksInv, Queue!Init
  <1>3. AheadInv /\ GuardInv /\ ListInv /\ NewRunInv
    BY DEF Queue!Init, AheadInv, GuardInv, ListInv, NewRunInv
  <1> QED BY <1>1, <1>2, <1>3 DEF TurnsInv

\* The candidates are those that can be claimed, each once.
LEMMA CandidatesAre ==
  ASSUME RanksInv, NEW q \in Queue!FairCandidates
  PROVE  /\ q \in Seq(Queue!Eligible) /\ q \in Seq(QueuedRuns)
         /\ \A r \in Queue!Eligible : \E i \in DOMAIN q : q[i] = r
         /\ DOMAIN q = 1..Len(q) /\ Len(q) \in Nat
         /\ \A j \in DOMAIN q : \A i \in 1..(j - 1) : Queue!Sooner(q[i], q[j])
  <1>1. IsFiniteSet(Queue!Eligible)
    <2>1. Queue!Eligible \subseteq Active
      BY DEF Queue!Eligible, Active
    <2> QED BY <2>1, FS_Subset DEF RanksInv
  <1> DEFINE n == Queue!Cardinality(Queue!Eligible)
  <1>2. n \in Nat
    BY <1>1, QueueCounts, FS_CardinalityType
  <1>3. /\ q \in [1..n -> Queue!Eligible] /\ Queue!Range(q) = Queue!Eligible
        /\ \A j \in DOMAIN q : \A i \in 1..(j - 1) : Queue!Sooner(q[i], q[j])
    BY DEF Queue!FairCandidates
  <1>4. Queue!Eligible \subseteq QueuedRuns
    BY DEF Queue!Eligible
  <1> HIDE DEF n
  <1>5. q \in Seq(Queue!Eligible) /\ q \in Seq(QueuedRuns)
    BY <1>2, <1>3, <1>4
  <1>6. \A r \in Queue!Eligible : \E i \in DOMAIN q : q[i] = r
    BY <1>3 DEF Queue!Range
  <1> QED BY <1>3, <1>5, <1>6

\* Types.
LEMMA TurnsTypes ==
  Queue!TypeOK /\ RanksInv /\ GuardInv /\ [Queue!Next]_(Queue!vars) => Queue!TypeOK'
  <1> SUFFICES ASSUME Queue!TypeOK, RanksInv, GuardInv, [Queue!Next]_(Queue!vars)
               PROVE  Queue!TypeOK'
    OBVIOUS
  <1> USE QueueConstants DEF Queue!TypeOK, Queue!rows, Queue!loop, Queue!faults
  <1>1. ASSUME NEW r \in QueuedRuns, NEW s \in Schedulers, Queue!Create(r, s) PROVE Queue!TypeOK'
    BY <1>1 DEF Queue!Create
  <1>2. ASSUME NEW r \in QueuedRuns,
               \/ Queue!WakePipeline(r) \/ Queue!AskCancel(r) \/ Queue!EndCancel(r)
               \/ Queue!Unpark(r)
        PROVE  Queue!TypeOK'
    <2>1. CASE Queue!WakePipeline(r)
      BY <2>1 DEF Queue!WakePipeline
    <2>2. CASE Queue!AskCancel(r)
      BY <2>2 DEF Queue!AskCancel
    <2>3. CASE Queue!EndCancel(r)
      BY <2>3 DEF Queue!EndCancel
    <2>4. CASE Queue!Unpark(r)
      BY <2>4 DEF Queue!Unpark
    <2> QED BY <1>2, <2>1, <2>2, <2>3, <2>4
  <1>3. ASSUME NEW s \in Schedulers, Queue!Wake(s) \/ Queue!Exhausted(s) PROVE Queue!TypeOK'
    <2>1. CASE Queue!Wake(s)
      BY <2>1 DEF Queue!Wake, Queue!Goto
    <2>2. CASE Queue!Exhausted(s)
      BY <2>2 DEF Queue!Exhausted, Queue!Goto
    <2> QED BY <1>3, <2>1, <2>2
  <1>4. ASSUME NEW s \in Schedulers, Queue!Refused(s) PROVE Queue!TypeOK'
    <2>1. timeouts' \in 0..MaxTimeouts /\ crashes' \in 0..MaxCrashes
      BY <1>4 DEF Queue!Refused
    <2>2. guard' \in Schedulers \union {NoTask}
      BY <1>4 DEF Queue!Refused
    <2> QED BY <1>4, <2>1, <2>2 DEF Queue!Refused, Queue!Goto
  <1>5. ASSUME NEW s \in Schedulers, Queue!Crash(s) PROVE Queue!TypeOK'
    <2>1. timeouts' \in 0..MaxTimeouts /\ crashes' \in 0..MaxCrashes
      BY <1>5 DEF Queue!Crash
    <2> QED BY <1>5, <2>1 DEF Queue!Crash, Queue!Goto
  <1>6. ASSUME NEW s \in Schedulers, Queue!Look(s) PROVE Queue!TypeOK'
    <2>1. \A q \in Queue!FairCandidates : q \in Seq(QueuedRuns)
      BY CandidatesAre
    <2>2. ahead' \in [Queue!Instructors -> SUBSET Queue!Instructors]
      BY <1>6 DEF Queue!Look
    <2> QED BY <1>6, <2>1, <2>2 DEF Queue!Look, Queue!Goto
  <1>7. ASSUME NEW s \in Schedulers, Queue!Skip(s) \/ Queue!Claim(s) PROVE Queue!TypeOK'
    <2>1. list[s] \in Seq(QueuedRuns) /\ list[s] # <<>>
      BY <1>7 DEF Queue!Skip, Queue!Claim
    <2>2. Head(list[s]) \in QueuedRuns /\ Tail(list[s]) \in Seq(QueuedRuns)
      BY <2>1
    <2>3. CASE Queue!Skip(s)
      BY <2>2, <2>3 DEF Queue!Skip
    <2>4. CASE Queue!Claim(s)
      <3>1. /\ list' \in [Schedulers -> Seq(QueuedRuns)] /\ busy' \subseteq Schedulers
            /\ mine' \in [Schedulers -> QueuedRuns \union {NoTask}]
            /\ claim' \in QueuedRuns \union {NoTask} /\ guard' \in Schedulers \union {NoTask}
        BY <2>2, <2>4 DEF Queue!Claim
      <3>2. ahead' \in [Queue!Instructors -> SUBSET Queue!Instructors]
        BY <2>4 DEF Queue!Claim
      <3> QED BY <2>4, <3>1, <3>2 DEF Queue!Claim, Queue!Goto
    <2> QED BY <1>7, <2>3, <2>4
  <1>8. ASSUME NEW s \in Schedulers, Queue!Begin(s) PROVE Queue!TypeOK'
    <2>1. Queue!Cardinality(Queue!Ranked) \in Nat
      <3>1. IsFiniteSet(Queue!Ranked)
        BY DEF RanksInv
      <3> QED BY <3>1, QueueCounts, FS_CardinalityType
    <2>2. Instructor[mine[s]] \in Queue!Instructors
      BY <1>8 DEF Queue!Begin, GuardInv, Queue!Instructors
    <2>3. ahead' \in [Queue!Instructors -> SUBSET Queue!Instructors]
      BY <1>8, <2>2 DEF Queue!Begin
    <2>4. started' \in [QueuedRuns -> Nat]
      <3>1. PICK c \in Nat : started' = [started EXCEPT ![mine[s]] = c]
        <4>1. Queue!Cardinality(Queue!Ranked) + 1 \in Nat
          BY <2>1
        <4> QED BY <1>8, <4>1 DEF Queue!Begin
      <3> QED BY <3>1
    <2> QED BY <1>8, <2>3, <2>4 DEF Queue!Begin
  <1>9. ASSUME NEW s \in Schedulers, NEW o \in {"over", "parked", "waiting"}, Queue!EndTurn(s, o)
        PROVE  Queue!TypeOK'
    <2>1. /\ state' \in [QueuedRuns -> {"none", "waiting", "parked", "over"}]
          /\ mine' \in [Schedulers -> QueuedRuns \union {NoTask}]
          /\ at' \in [Schedulers -> {"wait", "sleep", "look", "choose", "turn"}]
      BY <1>9 DEF Queue!EndTurn, Queue!Goto
    <2> QED BY <1>9, <2>1 DEF Queue!EndTurn
  <1>10. ASSUME Queue!Expire PROVE Queue!TypeOK'
    BY <1>10 DEF Queue!Expire
  <1>11. ASSUME UNCHANGED Queue!vars PROVE Queue!TypeOK'
    BY <1>11 DEF Queue!vars
  <1> HIDE DEF Queue!TypeOK, Queue!rows, Queue!loop, Queue!faults
  <1> QED
    BY <1>1, <1>2, <1>3, <1>4, <1>5, <1>6, <1>7, <1>8, <1>9, <1>10, <1>11 DEF Queue!Next

\* Ranks: a run that begins gets the next one.
LEMMA TurnsRanks ==
  ASSUME TurnsInv, [Queue!Next]_(Queue!vars)
  PROVE  /\ RanksInv'
         /\ UNCHANGED started \/ \E s \in Schedulers : Queue!Begin(s)
         /\ \A s \in Schedulers : Queue!Begin(s) =>
              /\ started'[mine[s]] # 0
              /\ \A r \in QueuedRuns \ {mine[s]} :
                   started'[r] = started[r] /\ started[r] < started'[mine[s]]
  <1> DEFINE n == Cardinality(Queue!Ranked)
  <1>1. /\ IsFiniteSet(Active) /\ IsFiniteSet(Queue!Ranked) /\ n \in Nat
        /\ \A r \in QueuedRuns : started[r] <= n
    BY FS_CardinalityType DEF TurnsInv, RanksInv
  <1>2. /\ started \in [QueuedRuns -> Nat]
        /\ state \in [QueuedRuns -> {"none", "waiting", "parked", "over"}]
        /\ started' \in [QueuedRuns -> Nat]
        /\ state' \in [QueuedRuns -> {"none", "waiting", "parked", "over"}]
    BY TurnsTypes DEF TurnsInv, Queue!TypeOK
  <1>3. UNCHANGED started \/ \E s \in Schedulers : Queue!Begin(s)
    BY DEF Queue!Next, Queue!vars, Queue!rows, Queue!Create, Queue!WakePipeline, Queue!AskCancel,
           Queue!EndCancel, Queue!Unpark, Queue!Wake, Queue!Refused, Queue!Look, Queue!Skip,
           Queue!Claim, Queue!Exhausted, Queue!EndTurn, Queue!Crash, Queue!Expire
  <1>4. IsFiniteSet(Active')
    <2>1. (\E r \in QueuedRuns : Active' \subseteq Active \union {r}) \/ Active' \subseteq Active
      <3>1. ASSUME NEW r \in QueuedRuns, NEW s \in Schedulers, Queue!Create(r, s)
            PROVE  Active' = Active \union {r}
        BY <1>2, <3>1 DEF Queue!Create, Active
      <3>2. ASSUME NEW r \in QueuedRuns, Queue!EndCancel(r) \/ Queue!Unpark(r)
            PROVE  Active' \subseteq Active \union {r}
        BY <1>2, <3>2 DEF Queue!EndCancel, Queue!Unpark, Active
      <3>3. ASSUME NEW s \in Schedulers, NEW o \in {"over", "parked", "waiting"},
                   Queue!EndTurn(s, o)
            PROVE  Active' \subseteq Active \union {mine[s]} /\ mine[s] \in QueuedRuns
        BY <1>2, <3>3 DEF Queue!EndTurn, Active, TurnsInv, GuardInv
      <3>4. ASSUME UNCHANGED state PROVE Active' = Active
        BY <3>4 DEF Active
      <3>5. \/ \E r \in QueuedRuns, s \in Schedulers : Queue!Create(r, s)
            \/ \E r \in QueuedRuns : Queue!EndCancel(r) \/ Queue!Unpark(r)
            \/ \E s \in Schedulers, o \in {"over", "parked", "waiting"} : Queue!EndTurn(s, o)
            \/ UNCHANGED state
        BY DEF Queue!Next, Queue!vars, Queue!rows, Queue!WakePipeline, Queue!AskCancel,
               Queue!Wake, Queue!Refused, Queue!Look, Queue!Skip,
               Queue!Claim, Queue!Exhausted, Queue!Begin, Queue!Crash, Queue!Expire
      <3> QED BY <3>1, <3>2, <3>3, <3>4, <3>5
    <2>2. \A r : IsFiniteSet(Active \union {r})
      BY <1>1, FS_AddElement
    <2> QED BY <1>1, <2>1, <2>2, FS_Subset
  <1>5. ASSUME NEW s \in Schedulers, Queue!Begin(s)
        PROVE  /\ mine[s] \in QueuedRuns /\ started[mine[s]] = 0 /\ started'[mine[s]] = n + 1
               /\ \A r \in QueuedRuns \ {mine[s]} : started'[r] = started[r]
    BY <1>2, <1>5, QueueCounts DEF Queue!Begin, TurnsInv, GuardInv
  <1> HIDE DEF n
  <1>6. ASSUME NEW s \in Schedulers, Queue!Begin(s)
        PROVE  /\ started'[mine[s]] # 0
               /\ \A r \in QueuedRuns \ {mine[s]} :
                    started'[r] = started[r] /\ started[r] < started'[mine[s]]
    BY <1>1, <1>2, <1>5, <1>6
  <1>7. ASSUME NEW s \in Schedulers, Queue!Begin(s) PROVE RanksInv'
    <2>1. mine[s] \in QueuedRuns /\ mine[s] \notin Queue!Ranked
      BY <1>5, <1>7 DEF Queue!Ranked
    <2>2. Queue!Ranked' = Queue!Ranked \union {mine[s]}
      BY <1>1, <1>2, <1>5, <1>7, <2>1 DEF Queue!Ranked
    <2>3. IsFiniteSet(Queue!Ranked') /\ Cardinality(Queue!Ranked') = n + 1
      BY <1>1, <2>1, <2>2, FS_AddElement DEF n
    <2>4. \A r \in QueuedRuns : started'[r] <= n + 1
      BY <1>1, <1>2, <1>5, <1>7
    <2> QED BY <1>4, <2>3, <2>4 DEF RanksInv
  <1>8. ASSUME UNCHANGED started PROVE RanksInv'
    <2>1. Queue!Ranked' = Queue!Ranked
      BY <1>8 DEF Queue!Ranked
    <2> QED BY <1>1, <1>4, <1>8, <2>1 DEF RanksInv, n
  <1> QED BY <1>3, <1>6, <1>7, <1>8

\* The history: but for a start, nobody gets ahead of anybody.
LEMMA TurnsAhead ==
  ASSUME TurnsInv, [Queue!Next]_(Queue!vars)
  PROVE  /\ AheadInv'
         /\ ~(\E s \in Schedulers : Queue!Begin(s)) =>
              \A o \in Queue!Instructors : ahead'[o] \subseteq ahead[o]
  <1>1. /\ ahead \in [Queue!Instructors -> SUBSET Queue!Instructors]
        /\ started \in [QueuedRuns -> Nat] /\ started' \in [QueuedRuns -> Nat]
    BY TurnsTypes DEF TurnsInv, Queue!TypeOK
  <1>2. ASSUME ~(\E s \in Schedulers : Queue!Begin(s))
        PROVE  \A o \in Queue!Instructors : ahead'[o] \subseteq ahead[o]
    <2>1. ASSUME NEW s \in Schedulers, Queue!Look(s) \/ Queue!Skip(s) \/ Queue!Claim(s)
          PROVE  \A o \in Queue!Instructors : ahead'[o] \subseteq ahead[o]
      BY <1>1, <2>1 DEF Queue!Look, Queue!Skip, Queue!Claim
    <2>2. (\E s \in Schedulers : Queue!Look(s) \/ Queue!Skip(s) \/ Queue!Claim(s))
          \/ UNCHANGED ahead
      BY <1>2 DEF Queue!Next, Queue!vars, Queue!rows, Queue!Create, Queue!WakePipeline,
             Queue!AskCancel, Queue!EndCancel, Queue!Unpark, Queue!Wake, Queue!Refused,
             Queue!Exhausted, Queue!EndTurn, Queue!Crash, Queue!Expire
    <2> QED BY <2>1, <2>2
  <1>3. CASE ~(\E s \in Schedulers : Queue!Begin(s))
    <2>1. UNCHANGED started
      BY <1>3, TurnsRanks
    <2>2. \A p, o : ServedAfter(p, o)' <=> ServedAfter(p, o)
      BY <2>1 DEF ServedAfter
    <2> QED BY <1>2, <1>3, <2>2 DEF TurnsInv, AheadInv
  <1>4. CASE \E s \in Schedulers : Queue!Begin(s)
    <2> PICK s \in Schedulers : Queue!Begin(s)
      BY <1>4
    <2> DEFINE m == mine[s]
               p == Instructor[m]
    <2>1. /\ m \in QueuedRuns /\ started[m] = 0 /\ p \in Queue!Instructors
          /\ ahead' = [o \in Queue!Instructors |-> IF o = p THEN {} ELSE ahead[o] \union {p}]
      BY DEF Queue!Begin, TurnsInv, GuardInv, Queue!Instructors
    <2>2. \A r \in QueuedRuns \ {m} : started'[r] = started[r] /\ started[r] < started'[m]
      BY TurnsRanks
    <2> HIDE DEF m, p
    <2>3. ASSUME NEW o \in Queue!Instructors, o # p, NEW x \in ahead[o]
          PROVE  ServedAfter(x, o)'
      <3>1. PICK r \in QueuedRuns :
              Instructor[r] = x /\ \A q \in QueuedRuns : Instructor[q] = o => started[q] < started[r]
        BY <2>3 DEF TurnsInv, AheadInv, ServedAfter
      <3>2. PICK q \in QueuedRuns : Instructor[q] = o
        BY <2>3 DEF Queue!Instructors
      <3>3. r # m
        BY <1>1, <2>1, <3>1, <3>2
      <3>4. \A y \in QueuedRuns : Instructor[y] = o => y # m
        BY <2>3 DEF p
      <3> QED BY <2>2, <3>1, <3>3, <3>4 DEF ServedAfter
    <2>4. ASSUME NEW o \in Queue!Instructors, NEW x, o # x, x = p PROVE ServedAfter(x, o)'
      <3>1. \A y \in QueuedRuns : Instructor[y] = o => y # m
        BY <2>4 DEF p
      <3>2. m \in QueuedRuns /\ Instructor[m] = x
        BY <2>1, <2>4 DEF p
      <3> QED BY <2>2, <3>1, <3>2 DEF ServedAfter
    <2>5. ASSUME NEW o \in Queue!Instructors, NEW x \in ahead'[o]
          PROVE  x \in Queue!Instructors /\ ServedAfter(x, o)'
      <3>1. o # p /\ x \in ahead[o] \union {p}
        BY <2>1, <2>5
      <3>2. CASE x \in ahead[o]
        BY <1>1, <2>3, <3>1, <3>2
      <3>3. CASE x = p
        BY <2>1, <2>4, <3>1, <3>3
      <3> QED BY <3>1, <3>2, <3>3
    <2> QED BY <2>5 DEF AheadInv, Queue!Instructors
  <1> QED BY <1>2, <1>3, <1>4

\* The locks.
LEMMA TurnsGuard ==
  ASSUME TurnsInv, [Queue!Next]_(Queue!vars)
  PROVE  GuardInv'
  <1> USE QueueConstants DEF Queue!TypeOK, GuardInv, Queue!rows, Queue!loop
  <1>0. Queue!TypeOK /\ GuardInv
    BY DEF TurnsInv
  <1>1. ASSUME NEW s \in Schedulers, Queue!Wake(s) \/ Queue!Exhausted(s) PROVE GuardInv'
    <2>1. CASE Queue!Wake(s)
      BY <1>0, <2>1 DEF Queue!Wake, Queue!Goto
    <2>2. CASE Queue!Exhausted(s)
      <3>1. \A t \in Schedulers : at'[t] \in {"choose", "turn"} => t # s /\ at'[t] = at[t]
        BY <1>0, <2>2 DEF Queue!Exhausted, Queue!Goto
      <3>2. \A t \in Schedulers : at'[t] # "choose"
        BY <1>0, <2>2, <3>1 DEF Queue!Exhausted
      <3> QED BY <1>0, <2>2, <3>1, <3>2 DEF Queue!Exhausted
    <2> QED BY <1>1, <2>1, <2>2
  <1>2. ASSUME NEW s \in Schedulers, Queue!Refused(s) PROVE GuardInv'
    BY <1>0, <1>2 DEF Queue!Refused, Queue!Goto
  <1>3. ASSUME NEW s \in Schedulers, Queue!Crash(s) PROVE GuardInv'
    BY <1>0, <1>3 DEF Queue!Crash, Queue!Goto
  <1>4. ASSUME NEW s \in Schedulers, Queue!Look(s) PROVE GuardInv'
    BY <1>0, <1>4 DEF Queue!Look, Queue!Goto
  <1>5. ASSUME NEW s \in Schedulers, Queue!Claim(s) PROVE GuardInv'
    <2>1. Head(list[s]) \in QueuedRuns
      BY <1>0, <1>5 DEF Queue!Claim
    <2>2. \A t \in Schedulers : at[t] # "turn" /\ (at[t] = "choose" => t = s)
      BY <1>0, <1>5 DEF Queue!Claim
    <2> QED BY <1>0, <1>5, <2>1, <2>2 DEF Queue!Claim, Queue!Goto
  <1>6. ASSUME NEW s \in Schedulers, NEW o \in {"over", "parked", "waiting"}, Queue!EndTurn(s, o)
        PROVE  GuardInv'
    BY <1>0, <1>6 DEF Queue!EndTurn, Queue!Goto
  <1>7. ASSUME Queue!Expire PROVE GuardInv'
    BY <1>0, <1>7 DEF Queue!Expire
  <1>8. ASSUME UNCHANGED <<at, guard, claim, mine>> PROVE GuardInv'
    BY <1>0, <1>8
  <1> QED
    BY <1>1, <1>2, <1>3, <1>4, <1>5, <1>6, <1>7, <1>8
    DEF Queue!Next, Queue!vars, Queue!Create, Queue!WakePipeline, Queue!AskCancel,
        Queue!EndCancel, Queue!Unpark, Queue!Skip, Queue!Begin

Below == {ss \in Nat \X Nat : ss[1] < ss[2]}

LEMMA BelowFounded == IsWellFoundedOn(Below, Nat)
  BY NatLessThanWellFounded, Zenon DEF OpToRel, Below

\* Of an instructor's starts there is a last one.
LEMMA LastStartedIs ==
  ASSUME TurnsInv, NEW o
  PROVE  /\ Queue!LastStarted(o) \in Nat
         /\ \/ Queue!LastStarted(o) = 0
            \/ \E r \in QueuedRuns : Instructor[r] = o /\ started[r] = Queue!LastStarted(o)
         /\ \A r \in QueuedRuns : Instructor[r] = o => started[r] <= Queue!LastStarted(o)
  <1> DEFINE n == Cardinality(Queue!Ranked)
             Values == {0} \union {started[r] : r \in {q \in QueuedRuns : Instructor[q] = o}}
             Gaps == {n - v : v \in Values}
             IsLast(v) ==
               /\ v = 0 \/ \E r \in QueuedRuns : Instructor[r] = o /\ started[r] = v
               /\ \A r \in QueuedRuns : Instructor[r] = o => started[r] <= v
  <1>1. n \in Nat /\ started \in [QueuedRuns -> Nat] /\ \A r \in QueuedRuns : started[r] <= n
    BY FS_CardinalityType DEF TurnsInv, RanksInv, Queue!TypeOK
  <1> HIDE DEF n
  <1>2. \A v \in Values : v \in Nat /\ v <= n
    BY <1>1
  <1>3. Gaps \subseteq Nat /\ n - 0 \in Gaps
    <2>1. \A v \in Values : n - v \in Nat
      <3> HIDE DEF Values
      <3> QED BY <1>1, <1>2
    <2> QED BY <2>1
  <1>4. PICK g \in Gaps : \A h \in Gaps : ~(<<h, g>> \in Below)
    <2> HIDE DEF Gaps
    <2> QED BY <1>3, WFMin, BelowFounded
  <1>5. PICK v \in Values : g = n - v
    OBVIOUS
  <1>6. ASSUME NEW w \in Values PROVE w <= v
    <2>1. n - w \in Gaps
      OBVIOUS
    <2>2. ~(n - w < n - v)
      BY <1>3, <1>4, <1>5, <2>1 DEF Below
    <2>3. v \in Nat /\ w \in Nat
      BY <1>2
    <2> QED BY <1>1, <2>2, <2>3
  <1>7. IsLast(v)
    BY <1>6
  <1>8. v \in {0} \union {started[r] : r \in QueuedRuns}
    OBVIOUS
  <1>9. Queue!LastStarted(o) = CHOOSE x \in {0} \union {started[r] : r \in QueuedRuns} : IsLast(x)
    BY DEF Queue!LastStarted
  <1>10. /\ Queue!LastStarted(o) \in {0} \union {started[r] : r \in QueuedRuns}
         /\ IsLast(Queue!LastStarted(o))
    <2> HIDE DEF IsLast
    <2> QED BY <1>7, <1>8, <1>9
  <1> QED BY <1>1, <1>10

\* Who is ahead comes later: no candidate of p is sooner than the oldest run of o.
LEMMA AheadIsLater ==
  ASSUME TurnsInv, NEW h \in QueuedRuns, NEW r \in QueuedRuns, h \in Queue!Heads,
         ServedAfter(Instructor[r], Instructor[h])
  PROVE  ~Queue!Sooner(r, h)
  <1> DEFINE p == Instructor[r]
             o == Instructor[h]
  <1>1. PICK q \in QueuedRuns :
          Instructor[q] = p /\ \A x \in QueuedRuns : Instructor[x] = o => started[x] < started[q]
    BY DEF ServedAfter
  <1>2. started \in [QueuedRuns -> Nat]
    BY DEF TurnsInv, Queue!TypeOK
  <1>3. started[q] <= Queue!LastStarted(p) /\ Queue!LastStarted(p) \in Nat
    BY <1>1, LastStartedIs
  <1>4. Queue!LastStarted(o) < started[q]
    <2>1. CASE Queue!LastStarted(o) = 0
      <3>1. started[h] < started[q]
        BY <1>1
      <3> QED BY <1>2, <2>1, <3>1
    <2>2. CASE \E x \in QueuedRuns : Instructor[x] = o /\ started[x] = Queue!LastStarted(o)
      BY <1>1, <2>2
    <2> QED BY <2>1, <2>2, LastStartedIs
  <1>5. Queue!LastStarted(o) \in Nat
    BY LastStartedIs
  <1>6. ~(Queue!LastStarted(p) < Queue!LastStarted(o)) /\ Queue!LastStarted(p) # Queue!LastStarted(o)
    BY <1>2, <1>3, <1>4, <1>5
  <1> QED BY <1>6 DEF Queue!Sooner, Queue!Before

\* The list: as it is read, and while it is tried.
LEMMA TurnsList ==
  ASSUME TurnsInv, [Queue!Next]_(Queue!vars)
  PROVE  ListInv'
  <1>0. /\ Queue!TypeOK /\ Queue!TypeOK' /\ GuardInv /\ RanksInv
        /\ at \in [Schedulers -> {"wait", "sleep", "look", "choose", "turn"}]
        /\ list \in [Schedulers -> Seq(QueuedRuns)]
    BY TurnsTypes DEF TurnsInv, Queue!TypeOK
  <1>1. ASSUME NEW s \in Schedulers, Queue!Look(s) PROVE ListInv'
    <2> PICK q \in Queue!FairCandidates : list' = [list EXCEPT ![s] = q]
      BY <1>1 DEF Queue!Look
    <2>1. \A t \in Schedulers : at'[t] = "choose" => t = s
      BY <1>0, <1>1, QueueConstants DEF Queue!Look, Queue!Goto, GuardInv
    <2>2. list'[s] = q
      BY <1>0
    <2>3. /\ \A r \in Queue!Eligible : \E i \in DOMAIN q : q[i] = r
          /\ q \in Seq(QueuedRuns) /\ DOMAIN q = 1..Len(q) /\ Len(q) \in Nat
          /\ \A j \in DOMAIN q : \A i \in 1..(j - 1) : Queue!Sooner(q[i], q[j])
      BY <1>0, CandidatesAre
    <2>4. ASSUME NEW o \in Queue!Instructors, NEW j \in DOMAIN q, Instructor[q[j]] \in ahead'[o]
          PROVE  \E i \in 1..(j - 1) : Instructor[q[i]] = o
      <3>1. Queue!Served(o) /\ Instructor[q[j]] \in ahead[o]
        BY <1>1, <2>4 DEF Queue!Look
      <3>2. PICK h \in Queue!Heads : Instructor[h] = o /\ state[h] = "waiting"
        BY <3>1 DEF Queue!Served
      <3>3. h \in QueuedRuns /\ h \in Queue!Eligible
        BY <3>2 DEF Queue!Heads, Queue!Eligible
      <3>4. PICK i \in DOMAIN q : q[i] = h
        BY <2>3, <3>3
      <3>5. q[j] \in QueuedRuns
        BY <2>3
      <3>6. ServedAfter(Instructor[q[j]], o)
        BY <3>1 DEF TurnsInv, AheadInv
      <3>7. ~Queue!Sooner(q[j], h)
        BY <3>2, <3>3, <3>5, <3>6, AheadIsLater
      <3>8. i # j
        <4>1. started \in [QueuedRuns -> Nat]
          BY <1>0 DEF Queue!TypeOK
        <4> QED BY <3>2, <3>4, <3>6, <4>1 DEF ServedAfter
      <3>9. ~(j < i)
        BY <2>3, <3>4, <3>7
      <3> QED BY <2>3, <3>2, <3>4, <3>8, <3>9
    <2> QED BY <2>1, <2>2, <2>4 DEF ListInv, Queue!Instructors
  <1>2. ASSUME NEW s \in Schedulers, Queue!Skip(s) PROVE ListInv'
    <2>1. \A t \in Schedulers : at'[t] = "choose" => t = s
      BY <1>0, <1>2 DEF Queue!Skip, GuardInv
    <2>2. /\ list[s] \in Seq(QueuedRuns) /\ list[s] # <<>> /\ list'[s] = Tail(list[s])
          /\ at[s] = "choose"
      BY <1>0, <1>2 DEF Queue!Skip
    <2>3. /\ Len(list[s]) \in Nat /\ DOMAIN list[s] = 1..Len(list[s])
          /\ DOMAIN list'[s] = 1..(Len(list[s]) - 1)
          /\ \A k \in 1..(Len(list[s]) - 1) : list'[s][k] = list[s][k + 1]
          /\ Head(list[s]) = list[s][1]
      <3>1. PICK q \in Seq(QueuedRuns) : q = list[s]
        BY <2>2
      <3>2. /\ Len(q) \in Nat /\ DOMAIN q = 1..Len(q) /\ Head(q) = q[1]
            /\ Len(Tail(q)) = Len(q) - 1
            /\ \A k \in 1..(Len(q) - 1) : Tail(q)[k] = q[k + 1]
        BY <2>2, <3>1
      <3>3. DOMAIN Tail(q) = 1..(Len(q) - 1)
        BY <2>2, <3>1, <3>2
      <3> QED BY <2>2, <3>1, <3>2, <3>3
    <2>4. ASSUME NEW o \in Queue!Instructors, NEW j \in DOMAIN list'[s],
                 Instructor[list'[s][j]] \in ahead'[o]
          PROVE  \E i \in 1..(j - 1) : Instructor[list'[s][i]] = o
      <3>1. Instructor[list[s][1]] # o /\ Instructor[list'[s][j]] \in ahead[o]
        <4>1. PICK r \in QueuedRuns : r = Head(list[s])
          BY <2>2
        <4>2. /\ ahead' = [ahead EXCEPT ![Instructor[r]] = {}]
              /\ ahead \in [Queue!Instructors -> SUBSET Queue!Instructors]
          BY <1>0, <1>2, <4>1 DEF Queue!Skip, Queue!TypeOK
        <4>3. o # Instructor[r] /\ ahead'[o] = ahead[o]
          BY <2>4, <4>2
        <4> QED BY <2>3, <2>4, <4>1, <4>3
      <3>2. j + 1 \in DOMAIN list[s] /\ list'[s][j] = list[s][j + 1] /\ j \in Nat
        BY <2>3
      <3>3. PICK i \in 1..((j + 1) - 1) : Instructor[list[s][i]] = o
        BY <2>2, <3>1, <3>2 DEF TurnsInv, ListInv
      <3>4. i # 1 /\ i - 1 \in 1..(j - 1)
        BY <3>1, <3>2, <3>3
      <3>5. list'[s][i - 1] = list[s][i]
        <4>1. i - 1 \in 1..(Len(list[s]) - 1) /\ (i - 1) + 1 = i
          BY <2>3, <3>2, <3>4
        <4> QED BY <2>3, <4>1
      <3> QED BY <3>3, <3>4, <3>5
    <2> QED BY <2>1, <2>4 DEF ListInv, Queue!Instructors
  <1>3. ASSUME ~(\E s \in Schedulers : Queue!Look(s) \/ Queue!Skip(s)) PROVE ListInv'
    <2>1. ASSUME NEW s \in Schedulers, at'[s] = "choose"
          PROVE  at[s] = "choose" /\ list'[s] = list[s]
      BY <1>0, <1>3, <2>1
      DEF Queue!Next, Queue!vars, Queue!rows, Queue!loop, Queue!Goto, Queue!Create,
          Queue!WakePipeline, Queue!AskCancel, Queue!EndCancel, Queue!Unpark, Queue!Wake,
          Queue!Refused, Queue!Claim, Queue!Exhausted, Queue!Begin, Queue!EndTurn, Queue!Crash,
          Queue!Expire
    <2>2. ASSUME NEW s \in Schedulers, at[s] = "choose"
          PROVE  ~(\E t \in Schedulers : Queue!Begin(t))
      BY <1>0, <2>2, QueueConstants DEF GuardInv, Queue!Begin
    <2>3. ASSUME NEW s \in Schedulers, at'[s] = "choose", NEW o \in Queue!Instructors
          PROVE  ahead'[o] \subseteq ahead[o]
      BY <2>1, <2>2, <2>3, TurnsAhead
    <2> QED BY <2>1, <2>3 DEF TurnsInv, ListInv, Queue!Instructors
  <1> QED BY <1>1, <1>2, <1>3

\* The turn: the run that is claimed has nobody before it in the list.
LEMMA TurnsNewRun ==
  ASSUME TurnsInv, [Queue!Next]_(Queue!vars)
  PROVE  NewRunInv'
  <1>0. /\ Queue!TypeOK /\ GuardInv
        /\ at \in [Schedulers -> {"wait", "sleep", "look", "choose", "turn"}]
        /\ mine \in [Schedulers -> QueuedRuns \union {NoTask}]
        /\ started \in [QueuedRuns -> Nat]
        /\ list \in [Schedulers -> Seq(QueuedRuns)]
        /\ ahead \in [Queue!Instructors -> SUBSET Queue!Instructors]
    BY DEF TurnsInv, Queue!TypeOK
  <1>1. ASSUME NEW s \in Schedulers, Queue!Claim(s) PROVE NewRunInv'
    <2>1. \A t \in Schedulers : at'[t] = "turn" => t = s
      BY <1>0, <1>1, QueueConstants DEF Queue!Claim, Queue!Goto, GuardInv
    <2>2. /\ list[s] # <<>> /\ list[s] \in Seq(QueuedRuns) /\ at[s] = "choose"
          /\ mine'[s] = Head(list[s])
      BY <1>0, <1>1 DEF Queue!Claim
    <2>3. 1 \in DOMAIN list[s] /\ mine'[s] = list[s][1]
      BY <2>2
    <2>4. \A o \in Queue!Instructors : Instructor[mine'[s]] \notin ahead[o]
      BY <2>2, <2>3 DEF TurnsInv, ListInv
    <2>5. \A o \in Queue!Instructors : ahead'[o] \subseteq ahead[o]
      BY <1>0, <1>1 DEF Queue!Claim
    <2> QED BY <2>1, <2>4, <2>5 DEF NewRunInv, Queue!Instructors
  <1>2. ASSUME NEW s \in Schedulers, Queue!Begin(s) PROVE NewRunInv'
    <2>1. \A t \in Schedulers : at[t] = "turn" => t = s
      BY <1>0, <1>2 DEF Queue!Begin, GuardInv
    <2>2. UNCHANGED <<at, mine>> /\ started'[mine[s]] # 0
      BY <1>2, TurnsRanks DEF Queue!Begin, Queue!loop
    <2> QED BY <2>1, <2>2 DEF NewRunInv
  <1>3. ASSUME ~(\E s \in Schedulers : Queue!Claim(s) \/ Queue!Begin(s)) PROVE NewRunInv'
    <2>1. ASSUME NEW s \in Schedulers, at'[s] = "turn"
          PROVE  at[s] = "turn" /\ mine'[s] = mine[s]
      BY <1>0, <1>3, <2>1
      DEF Queue!Next, Queue!vars, Queue!rows, Queue!loop, Queue!Goto, Queue!Create,
          Queue!WakePipeline, Queue!AskCancel, Queue!EndCancel, Queue!Unpark, Queue!Wake,
          Queue!Refused, Queue!Look, Queue!Skip, Queue!Exhausted, Queue!EndTurn, Queue!Crash,
          Queue!Expire
    <2>2. UNCHANGED started /\ \A o \in Queue!Instructors : ahead'[o] \subseteq ahead[o]
      BY <1>3, TurnsRanks, TurnsAhead
    <2> QED BY <2>1, <2>2 DEF TurnsInv, NewRunInv, Queue!Instructors
  <1> QED BY <1>1, <1>2, <1>3

\* Turns rotate (whose turn it is: fair_candidates; that it is tried first: the
\* loop of admit_next): nobody starts a second new run while the oldest run of
\* another instructor is waiting all along.
THEOREM TurnsTheorem == Queue!Spec => TurnsRotate
  <1>1. TurnsInv /\ [Queue!Next]_(Queue!vars) => TurnsInv'
    <2> SUFFICES ASSUME TurnsInv, [Queue!Next]_(Queue!vars) PROVE TurnsInv'
      OBVIOUS
    <2>1. Queue!TypeOK'
      BY TurnsTypes DEF TurnsInv
    <2> QED BY <2>1, TurnsRanks, TurnsAhead, TurnsGuard, TurnsList, TurnsNewRun DEF TurnsInv
  <1>2. TurnsInv /\ [Queue!Next]_(Queue!vars) => [Queue!TurnsRotate]_(Queue!vars)
    BY DEF TurnsInv, NewRunInv, Queue!TurnsRotate, Queue!Begin
  <1>3. TurnsInv => Queue!TypeOK
    BY DEF TurnsInv
  <1> QED BY TurnsInit, <1>1, <1>2, <1>3, PTL DEF Queue!Spec, TurnsRotate

=============================================================================
