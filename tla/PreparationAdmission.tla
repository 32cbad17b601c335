------------------------- MODULE PreparationAdmission -------------------------
(***************************************************************************)
(* Ownership of document preparation: ingest/admission.py, and the         *)
(* lifespan of main.py that opens and closes it.                           *)
(*                                                                         *)
(* Preparing a document holds much memory, so one process admits few of    *)
(* them at a time.  An owner enters a scope, hands native work to a thread *)
(* and awaits it; when the awaiter is cancelled the thread goes on, and    *)
(* the place stays taken until the thread ends.  A stopped application     *)
(* leaves its controller behind, with whatever still runs under it, and    *)
(* the next start in the same process must not open a second one beside.   *)
(***************************************************************************)
EXTENDS Integers, FiniteSets

CONSTANTS
  Owners,   \* requests and workers that prepare documents
  Slots,    \* document_preparation_slots
  MaxMade   \* bound of the model: controllers made in the process

Controllers == 1..MaxMade
None == 0

ASSUME SlotsAssumption == Slots \in Nat \ {0} /\ MaxMade \in Nat
ASSUME OwnersAssumption == IsFiniteSet(Owners)

VARIABLES
  made,       \* controllers made so far
  current,    \* _current
  accepting,  \* controller -> _accepting
  managed,    \* controller of _managed_lifespan
  closing,    \* _managed_closing
  lease,      \* owner -> controller that counts its lease
  at,         \* owner -> "out", in its "scope", or "awaiting" its thread
  owned,      \* owner -> controller of the scope it is in
  job         \* owner -> its native work: "none", "queued" or "running"

registry == <<made, current, accepting, managed, closing>>
vars == <<registry, lease, at, owned, job>>

Leases(k) == {o \in Owners : lease[o] = k}
Running(k) == {o \in Owners : lease[o] = k /\ job[o] = "running"}
Drained(k) == Leases(k) = {}

Init ==
  /\ made = 0
  /\ current = None
  /\ accepting = [k \in Controllers |-> TRUE]
  /\ managed = None
  /\ closing = FALSE
  /\ lease = [o \in Owners |-> None]
  /\ at = [o \in Owners |-> "out"]
  /\ owned = [o \in Owners |-> None]
  /\ job = [o \in Owners |-> "none"]

-----------------------------------------------------------------------------
(* The registry.                                                           *)

\* _get_locked: the current controller, or a new one when there is none, or
\* when the stopped one is empty and no application manages it.
Lookup(k) ==
  /\ ~ closing
  /\ IF current # None /\ accepting[current]
       THEN k = current /\ UNCHANGED <<made, current>>
       ELSE /\ current = None \/ (Drained(current) /\ managed = None)
            /\ made < MaxMade
            /\ k = made + 1
            /\ made' = k
            /\ current' = k

\* start_preparation_admission
StartApp ==
  /\ managed = None
  /\ current # None => accepting[current] \/ Drained(current)
  /\ \E k \in Controllers : Lookup(k) /\ managed' = k
  /\ UNCHANGED <<accepting, closing, lease, at, owned, job>>

\* begin_preparation_shutdown: work that has not started is cancelled; an
\* owner that has left its scope gives its place back with it.
BeginShutdown ==
  /\ managed # None
  /\ managed = current
  /\ ~ closing
  /\ closing' = TRUE
  /\ accepting' = [accepting EXCEPT ![current] = FALSE]
  /\ job' = [o \in Owners |-> IF lease[o] = current /\ job[o] = "queued" THEN "none"
                              ELSE job[o]]
  /\ at' = [o \in Owners |-> IF lease[o] = current /\ job[o] = "queued" /\ at[o] = "awaiting"
                             THEN "scope" ELSE at[o]]
  /\ lease' = [o \in Owners |-> IF lease[o] = current /\ job[o] = "queued" /\ at[o] = "out"
                                THEN None ELSE lease[o]]
  /\ UNCHANGED <<made, current, managed, owned>>

\* finish_preparation_lifespan
FinishLifespan ==
  /\ managed # None
  /\ closing
  /\ managed' = None
  /\ closing' = FALSE
  /\ UNCHANGED <<made, current, accepting, lease, at, owned, job>>

-----------------------------------------------------------------------------
(* The owners.                                                             *)

\* preparation_scope: looked up and acquired under one lock; no waiting.
Acquire(o) ==
  /\ at[o] = "out" /\ lease[o] = None
  /\ \E k \in Controllers :
       /\ Lookup(k)
       /\ Cardinality(Leases(k)) < Slots
       /\ lease' = [lease EXCEPT ![o] = k]
       /\ owned' = [owned EXCEPT ![o] = k]
  /\ at' = [at EXCEPT ![o] = "scope"]
  /\ UNCHANGED <<accepting, managed, closing, job>>

\* PreparationLease.run and _submit; a refusal raises out of the scope.
Submit(o) ==
  /\ at[o] = "scope"
  /\ accepting[owned[o]]
  /\ lease[o] = owned[o]
  /\ job[o] = "none"
  /\ job' = [job EXCEPT ![o] = "queued"]
  /\ at' = [at EXCEPT ![o] = "awaiting"]
  /\ UNCHANGED <<registry, lease, owned>>

\* The awaiter is cancelled or times out, still in its scope: work that has
\* not started is cancelled with it, a thread is not.
Abandon(o) ==
  /\ at[o] = "awaiting"
  /\ at' = [at EXCEPT ![o] = "scope"]
  /\ job' = [job EXCEPT ![o] = IF job[o] = "queued" THEN "none" ELSE job[o]]
  /\ UNCHANGED <<registry, lease, owned>>

\* close and _release_if_finished: the place is given back now, or by the
\* thread.
Leave(o) ==
  /\ at[o] = "scope"
  /\ at' = [at EXCEPT ![o] = "out"]
  /\ owned' = [owned EXCEPT ![o] = None]
  /\ lease' = [lease EXCEPT ![o] = IF job[o] = "none" THEN None ELSE lease[o]]
  /\ UNCHANGED <<registry, job>>

\* A thread of the controller's executor takes the work.
StartWork(o) ==
  /\ job[o] = "queued"
  /\ Cardinality(Running(lease[o])) < Slots
  /\ job' = [job EXCEPT ![o] = "running"]
  /\ UNCHANGED <<registry, lease, at, owned>>

\* Faulty variant of FinishWork: only the awaiter's exit releases.
FinishWorkSilently(o) ==
  /\ job[o] = "running"
  /\ job' = [job EXCEPT ![o] = "none"]
  /\ at' = [at EXCEPT ![o] = IF at[o] = "awaiting" THEN "scope" ELSE at[o]]
  /\ UNCHANGED <<registry, owned, lease>>

\* _native_finished
FinishWork(o) ==
  /\ job[o] = "running"
  /\ job' = [job EXCEPT ![o] = "none"]
  /\ at' = [at EXCEPT ![o] = IF at[o] = "awaiting" THEN "scope" ELSE at[o]]
  /\ lease' = [lease EXCEPT ![o] = IF at[o] = "out" THEN None ELSE lease[o]]
  /\ UNCHANGED <<registry, owned>>

OwnerStep(o) ==
  \/ Acquire(o) \/ Submit(o) \/ Abandon(o) \/ Leave(o) \/ StartWork(o) \/ FinishWork(o)

Next ==
  \/ StartApp \/ BeginShutdown \/ FinishLifespan
  \/ \E o \in Owners : OwnerStep(o)

Spec == Init /\ [][Next]_vars

-----------------------------------------------------------------------------
(* Properties.                                                             *)

TypeOK ==
  /\ made \in 0..MaxMade
  /\ current \in Controllers \union {None}
  /\ accepting \in [Controllers -> BOOLEAN]
  /\ managed \in Controllers \union {None}
  /\ closing \in BOOLEAN
  /\ lease \in [Owners -> Controllers \union {None}]
  /\ at \in [Owners -> {"out", "scope", "awaiting"}]
  /\ owned \in [Owners -> Controllers \union {None}]
  /\ job \in [Owners -> {"none", "queued", "running"}]

Working == {o \in Owners : job[o] # "none"}

\* However often awaiters are cancelled and the application is stopped and
\* started in the process, no more native work is queued or running, under
\* all controllers together, than there are slots ("ownership follows native
\* work past awaiter cancellation").
NativeBounded == Cardinality(Working) <= Slots

\* A place is taken exactly as long as its owner is in its scope or its
\* thread runs: given back early, a second document is prepared beside the
\* first; never given back, every later one is refused.
PlaceFollowsWork ==
  \A o \in Owners : lease[o] # None <=> (at[o] # "out" \/ job[o] # "none")

\* Lemma of the proofs: the open lifespan manages the current controller, so
\* that closing it never fails (begin_preparation_shutdown).
ManagedIsCurrent == managed # None => managed = current

\* Nothing is handed to a thread once the shutdown of its controller began.
ShutdownAdmitsNothing ==
  [][\A o \in Owners : job[o] = "none" /\ job'[o] = "queued" => accepting[lease[o]]]_vars

\* Only the current controller has leases, no more than its slots.
LeasesInv ==
  /\ \A o \in Owners :
       /\ lease[o] # None => lease[o] = current
       /\ at[o] # "out" => owned[o] = lease[o]
       /\ at[o] = "awaiting" => job[o] # "none"
  /\ current # None => Cardinality(Leases(current)) <= Slots

RegistryInv ==
  /\ current <= made
  /\ closing => managed # None
  /\ \A k \in Controllers : k > made => accepting[k]

\* The inductive invariant of the proofs.
IInv == TypeOK /\ LeasesInv /\ RegistryInv /\ PlaceFollowsWork /\ ManagedIsCurrent

=============================================================================
