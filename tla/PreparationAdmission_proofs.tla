---------------------- MODULE PreparationAdmission_proofs ----------------------
(***************************************************************************)
(* The bound on native work, proved for any owners, slots and number of    *)
(* controllers made one after the other in a process.                      *)
(***************************************************************************)
EXTENDS PreparationAdmission, FiniteSetTheorems, TLAPS

\* What a lookup may do to the registry: keep the accepting controller, or put
\* a fresh one where nothing is leased.
LEMMA LookupShape ==
  ASSUME IInv, NEW k \in Controllers, Lookup(k)
  PROVE  /\ k = current' /\ ~ closing
         /\ \/ k = current /\ UNCHANGED <<made, current>> /\ accepting[k]
            \/ /\ \A o \in Owners : lease[o] = None
               /\ managed = None
               /\ made' = k /\ k = made + 1 /\ k > made
<1> USE DEF IInv, TypeOK, LeasesInv, RegistryInv, ManagedIsCurrent, Controllers, None,
            Drained, Leases, Lookup
<1>1. CASE current # None /\ accepting[current]
  BY <1>1
<1>2. CASE ~ (current # None /\ accepting[current])
  <2>1. \A o \in Owners : lease[o] = None
    BY <1>2
  <2>2. managed = None
    BY <1>2
  <2> QED BY <1>2, <2>1, <2>2, SlotsAssumption
<1> QED BY <1>1, <1>2

\* Cardinalities: leases are finite sets; a subset is no larger, one more
\* owner counts one more.
LEMMA LeasesCounted ==
  ASSUME NEW A \in SUBSET Owners, NEW C \in SUBSET Owners, NEW o \in Owners,
         C \subseteq A \union {o}
  PROVE  /\ Cardinality(A) \in Nat /\ Cardinality(C) \in Nat
         /\ Cardinality(C) <= Cardinality(A) + 1
         /\ C \subseteq A => Cardinality(C) <= Cardinality(A)
<1>1. IsFiniteSet(A) /\ IsFiniteSet(C)
  BY OwnersAssumption, FS_Subset
<1>2. IsFiniteSet(A \union {o}) /\ Cardinality(A \union {o}) <= Cardinality(A) + 1
  BY <1>1, FS_AddElement, FS_CardinalityType
<1> QED BY <1>1, <1>2, FS_Subset, FS_CardinalityType

LEMMA InitHolds == Init => IInv
<1> SUFFICES ASSUME Init PROVE IInv
  OBVIOUS
<1>1. TypeOK
  <2>1. accepting \in [Controllers -> BOOLEAN]
    BY DEF Init
  <2>2. /\ lease \in [Owners -> Controllers \union {None}]
        /\ owned \in [Owners -> Controllers \union {None}]
    BY DEF Init
  <2>3. /\ at \in [Owners -> {"out", "scope", "awaiting"}]
        /\ job \in [Owners -> {"none", "queued", "running"}]
    BY DEF Init
  <2>4. made \in 0..MaxMade
    BY SlotsAssumption DEF Init
  <2>5. closing \in BOOLEAN
    BY DEF Init
  <2>6. /\ current \in Controllers \union {None}
        /\ managed \in Controllers \union {None}
    BY DEF Init
  <2> QED BY <2>1, <2>2, <2>3, <2>4, <2>5, <2>6 DEF TypeOK
<1>2. LeasesInv /\ PlaceFollowsWork
  BY DEF Init, LeasesInv, PlaceFollowsWork, None
<1>3. RegistryInv /\ ManagedIsCurrent
  BY DEF Init, RegistryInv, ManagedIsCurrent, None
<1> QED BY <1>1, <1>2, <1>3 DEF IInv

\* The steps of the registry.
LEMMA StartAppKeeps ==
  ASSUME IInv, StartApp
  PROVE  IInv'
<1> PICK k \in Controllers : Lookup(k) /\ managed' = k
  BY DEF StartApp
<1>1. /\ k = current' /\ ~ closing
      /\ \/ k = current /\ UNCHANGED <<made, current>> /\ accepting[k]
         \/ /\ \A o \in Owners : lease[o] = None
            /\ managed = None
            /\ made' = k /\ k = made + 1 /\ k > made
  BY LookupShape
<1>2. UNCHANGED <<accepting, closing, lease, at, owned, job>>
  BY DEF StartApp
<1>3. TypeOK'
  BY <1>1, <1>2, SlotsAssumption DEF IInv, TypeOK, Controllers, None
<1>4. LeasesInv'
  <2>1. CASE k = current
    BY <1>1, <1>2, <2>1 DEF IInv, LeasesInv, Leases
  <2>2. CASE \A o \in Owners : lease[o] = None
    <3>1. Leases(current)' = {}
      BY <1>1, <1>2, <2>2 DEF Leases, Controllers, None
    <3> QED BY <1>1, <1>2, <2>2, <3>1, FS_EmptySet, SlotsAssumption DEF IInv, LeasesInv
  <2> QED BY <1>1, <2>1, <2>2
<1>5. RegistryInv'
  BY <1>1, <1>2, SlotsAssumption DEF IInv, RegistryInv, TypeOK, Controllers, None
<1>6. PlaceFollowsWork' /\ ManagedIsCurrent'
  BY <1>1, <1>2 DEF IInv, PlaceFollowsWork, ManagedIsCurrent
<1> QED BY <1>3, <1>4, <1>5, <1>6 DEF IInv

LEMMA BeginShutdownKeeps ==
  ASSUME IInv, BeginShutdown
  PROVE  IInv'
<1> USE DEF IInv, BeginShutdown
<1>1. TypeOK'
  BY DEF TypeOK, Controllers, None
<1>2. \A o \in Owners : lease'[o] \in {lease[o], None}
  OBVIOUS
<1>3. LeasesInv'
  <2>1. \A o \in Owners : /\ lease'[o] # None => lease'[o] = current'
                          /\ at'[o] # "out" => owned'[o] = lease'[o]
                          /\ at'[o] = "awaiting" => job'[o] # "none"
    BY DEF LeasesInv, TypeOK
  <2>2. Cardinality(Leases(current)') <= Slots
    <3>1. Leases(current)' \subseteq Leases(current)
      BY <1>2 DEF Leases, ManagedIsCurrent, None
    <3>2. CASE Owners = {}
      BY <3>2, FS_EmptySet, SlotsAssumption DEF Leases
    <3>3. CASE Owners # {}
      <4> PICK o \in Owners : TRUE
        BY <3>3
      <4>1. Leases(current) \in SUBSET Owners /\ Leases(current)' \in SUBSET Owners
        BY DEF Leases
      <4>2. current # None
        BY DEF ManagedIsCurrent
      <4> QED BY <3>1, <4>1, <4>2, LeasesCounted, SlotsAssumption DEF LeasesInv
    <3> QED BY <3>2, <3>3
  <2> QED BY <2>1, <2>2 DEF LeasesInv
<1>4. RegistryInv'
  <2>1. current \in Controllers /\ current <= made
    BY DEF RegistryInv, TypeOK, ManagedIsCurrent
  <2> QED BY <2>1, SlotsAssumption DEF RegistryInv, TypeOK, Controllers
<1>5. PlaceFollowsWork'
  BY DEF PlaceFollowsWork, TypeOK, LeasesInv, ManagedIsCurrent
<1>6. ManagedIsCurrent'
  BY DEF ManagedIsCurrent
<1> QED BY <1>1, <1>3, <1>4, <1>5, <1>6

LEMMA FinishLifespanKeeps ==
  ASSUME IInv, FinishLifespan
  PROVE  IInv'
<1> USE DEF IInv, FinishLifespan
<1>1. TypeOK'
  BY DEF TypeOK
<1>2. LeasesInv' /\ PlaceFollowsWork'
  BY DEF LeasesInv, PlaceFollowsWork, Leases
<1>3. RegistryInv' /\ ManagedIsCurrent'
  BY DEF RegistryInv, ManagedIsCurrent
<1> QED BY <1>1, <1>2, <1>3

LEMMA AcquireKeeps ==
  ASSUME IInv, NEW o \in Owners, Acquire(o)
  PROVE  IInv'
<1> PICK k \in Controllers :
      /\ Lookup(k)
      /\ Cardinality(Leases(k)) < Slots
      /\ lease' = [lease EXCEPT ![o] = k]
      /\ owned' = [owned EXCEPT ![o] = k]
  BY DEF Acquire
<1>1. /\ k = current' /\ ~ closing
      /\ \/ k = current /\ UNCHANGED <<made, current>> /\ accepting[k]
         \/ /\ \A d \in Owners : lease[d] = None
            /\ managed = None
            /\ made' = k /\ k = made + 1 /\ k > made
  BY LookupShape
<1>2. /\ at' = [at EXCEPT ![o] = "scope"]
      /\ at[o] = "out" /\ lease[o] = None
      /\ UNCHANGED <<accepting, managed, closing, job>>
  BY DEF Acquire
<1>3. TypeOK'
  BY <1>1, <1>2, SlotsAssumption DEF IInv, TypeOK, Controllers, None
<1>4. k # None /\ current' = k
  BY <1>1 DEF Controllers, None
<1>5. \A d \in Owners : d # o /\ lease[d] # None => lease[d] = k
  BY <1>1 DEF IInv, LeasesInv
<1>6. LeasesInv'
  <2>1. ASSUME NEW d \in Owners
        PROVE  /\ lease'[d] # None => lease'[d] = current'
               /\ at'[d] # "out" => owned'[d] = lease'[d]
               /\ at'[d] = "awaiting" => job'[d] # "none"
    BY <1>2, <1>4, <1>5 DEF IInv, LeasesInv, TypeOK
  <2>2. Cardinality(Leases(current)') <= Slots
    <3>1. /\ Leases(current)' \subseteq Leases(k) \union {o}
          /\ Leases(current)' \in SUBSET Owners /\ Leases(k) \in SUBSET Owners
      BY <1>4 DEF Leases, IInv, TypeOK
    <3> QED BY <3>1, LeasesCounted, SlotsAssumption
  <2> QED BY <2>1, <2>2 DEF LeasesInv
<1>7. RegistryInv'
  BY <1>1, <1>2, SlotsAssumption DEF IInv, RegistryInv, TypeOK, Controllers, None
<1>8. PlaceFollowsWork'
  BY <1>2, <1>4 DEF IInv, PlaceFollowsWork, TypeOK
<1>9. ManagedIsCurrent'
  BY <1>1, <1>2 DEF IInv, ManagedIsCurrent
<1> QED BY <1>3, <1>6, <1>7, <1>8, <1>9 DEF IInv

\* Steps of an owner that leave the registry alone: each gives back at most
\* its own lease.
LEMMA OwnStepKeeps ==
  ASSUME IInv, NEW o \in Owners, UNCHANGED registry, TypeOK',
         \A d \in Owners : d # o => /\ lease'[d] = lease[d] /\ at'[d] = at[d]
                                  /\ owned'[d] = owned[d] /\ job'[d] = job[d],
         lease'[o] \in {lease[o], None},
         at'[o] # "out" => owned'[o] = lease'[o],
         at'[o] = "awaiting" => job'[o] # "none",
         lease'[o] # None <=> (at'[o] # "out" \/ job'[o] # "none")
  PROVE  IInv'
<1>1. LeasesInv'
  <2>1. ASSUME NEW d \in Owners
        PROVE  /\ lease'[d] # None => lease'[d] = current'
               /\ at'[d] # "out" => owned'[d] = lease'[d]
               /\ at'[d] = "awaiting" => job'[d] # "none"
    BY DEF IInv, LeasesInv, registry
  <2>2. ASSUME current # None
        PROVE  Cardinality(Leases(current)') <= Slots
    <3>1. /\ Leases(current)' \subseteq Leases(current)
          /\ Leases(current)' \in SUBSET Owners /\ Leases(current) \in SUBSET Owners
      BY <2>2 DEF Leases, registry
    <3> QED BY <2>2, <3>1, LeasesCounted, SlotsAssumption DEF IInv, LeasesInv
  <2> QED BY <2>1, <2>2 DEF LeasesInv, registry
<1>2. RegistryInv' /\ ManagedIsCurrent'
  BY DEF IInv, RegistryInv, ManagedIsCurrent, registry
<1>3. PlaceFollowsWork'
  BY DEF IInv, PlaceFollowsWork
<1> QED BY <1>1, <1>2, <1>3 DEF IInv

LEMMA WorkKeeps ==
  ASSUME IInv, NEW o \in Owners,
         Submit(o) \/ Abandon(o) \/ Leave(o) \/ StartWork(o) \/ FinishWork(o)
  PROVE  IInv'
<1> USE DEF IInv, TypeOK, PlaceFollowsWork, LeasesInv
<1>1. CASE Submit(o)
  BY <1>1, OwnStepKeeps DEF Submit, registry
<1>2. CASE Abandon(o)
  BY <1>2, OwnStepKeeps DEF Abandon, registry
<1>3. CASE Leave(o)
  BY <1>3, OwnStepKeeps DEF Leave, registry
<1>4. CASE StartWork(o)
  BY <1>4, OwnStepKeeps DEF StartWork, registry
<1>5. CASE FinishWork(o)
  BY <1>5, OwnStepKeeps DEF FinishWork, registry
<1> QED BY <1>1, <1>2, <1>3, <1>4, <1>5

\* The inductive invariant: all leases belong to the current controller, are
\* no more than its slots, and outlive the native work under them.
THEOREM Inductive == Spec => []IInv
<1>1. Init => IInv
  BY InitHolds
<1>2. ASSUME IInv, [Next]_vars PROVE IInv'
  <2>1. CASE StartApp
    BY <1>2, <2>1, StartAppKeeps
  <2>2. CASE BeginShutdown
    BY <1>2, <2>2, BeginShutdownKeeps
  <2>3. CASE FinishLifespan
    BY <1>2, <2>3, FinishLifespanKeeps
  <2>4. ASSUME NEW o \in Owners, OwnerStep(o) PROVE IInv'
    BY <1>2, <2>4, AcquireKeeps, WorkKeeps DEF OwnerStep
  <2>5. CASE UNCHANGED vars
    BY <1>2, <2>5 DEF vars, registry, IInv, TypeOK, LeasesInv, Leases, RegistryInv,
                      PlaceFollowsWork, ManagedIsCurrent
  <2> QED BY <1>2, <2>1, <2>2, <2>3, <2>4, <2>5 DEF Next
<1> QED BY <1>1, <1>2, PTL DEF Spec

\* PreparationLease, _release_if_finished: whatever is cancelled, stopped and
\* started again, the native work of all controllers together fits the slots.
THEOREM NativeBoundedTheorem == Spec => []NativeBounded
<1>1. IInv => NativeBounded
  <2> SUFFICES ASSUME IInv PROVE NativeBounded
    OBVIOUS
  <2>1. CASE Working = {}
    BY <2>1, FS_EmptySet, SlotsAssumption DEF NativeBounded
  <2>2. CASE Working # {}
    <3> PICK o \in Owners : job[o] # "none"
      BY <2>2 DEF Working
    <3>1. current # None
      BY DEF IInv, PlaceFollowsWork, LeasesInv
    <3>2. /\ Working \subseteq Leases(current)
          /\ Working \in SUBSET Owners /\ Leases(current) \in SUBSET Owners
      BY DEF IInv, PlaceFollowsWork, LeasesInv, Working, Leases
    <3> QED BY <3>1, <3>2, LeasesCounted, SlotsAssumption DEF NativeBounded, IInv, LeasesInv
  <2> QED BY <2>1, <2>2
<1> QED BY <1>1, Inductive, PTL

\* preparation_scope and close: a place is neither given back under running
\* work nor kept after it, for any number of owners.
THEOREM PlaceTheorem == Spec => []PlaceFollowsWork
<1>1. IInv => PlaceFollowsWork
  BY DEF IInv
<1> QED BY <1>1, Inductive, PTL

\* begin_preparation_shutdown: no work is handed over by a stopped controller.
THEOREM ShutdownTheorem == Spec => ShutdownAdmitsNothing
<1>1. ASSUME IInv, [Next]_vars, NEW o \in Owners, job[o] = "none", job'[o] = "queued"
      PROVE  accepting[lease[o]]
  <2>1. job' # job
    BY <1>1
  <2>2. PICK d \in Owners : OwnerStep(d)
    BY <1>1, <2>1 DEF Next, vars, StartApp, BeginShutdown, FinishLifespan, IInv, TypeOK
  <2>3. CASE Submit(d)
    BY <1>1, <2>3 DEF Submit, IInv, TypeOK
  <2>4. CASE Acquire(d) \/ Abandon(d) \/ Leave(d) \/ StartWork(d) \/ FinishWork(d)
    BY <1>1, <2>4 DEF Acquire, Abandon, Leave, StartWork, FinishWork, IInv, TypeOK
  <2> QED BY <2>2, <2>3, <2>4 DEF OwnerStep
<1>2. IInv /\ [Next]_vars
      => [\A o \in Owners : job[o] = "none" /\ job'[o] = "queued" => accepting[lease[o]]]_vars
  BY <1>1
<1> QED BY <1>2, Inductive, PTL DEF Spec, ShutdownAdmitsNothing

=============================================================================
