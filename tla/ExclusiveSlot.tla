--------------------------- MODULE ExclusiveSlot ---------------------------
(***************************************************************************)
(* What the claim protocol of app/pipeline promises to the rest of the     *)
(* program: one global execution slot.  The slot is free, or it is held    *)
(* for one check run, by a driver (a worker task) or by nobody (the driver *)
(* died and its claim has not expired yet).  It never passes from one      *)
(* holder to another without being free in between, and the lifecycle      *)
(* columns of a run are written only by the driver that holds the slot for *)
(* it.  PipelineClaims implements this module.                             *)
(***************************************************************************)
CONSTANTS
  Drivers,   \* worker tasks, of one process or of several
  Runs,      \* check_run rows
  Nobody     \* stands for the absence of a driver

VARIABLES
  slot,      \* FreeSlot, or the run the slot is held for and by whom
  writer     \* run -> the driver whose lifecycle commit was the last one

vars == <<slot, writer>>

FreeSlot == [run |-> Nobody, driver |-> Nobody]

HeldBy(d, r) == [run |-> r, driver |-> d]

Init ==
  /\ slot = FreeSlot
  /\ writer = [r \in Runs |-> Nobody]

\* A driver takes the free slot for a run (coordination.admit_next).
Acquire(d, r) ==
  /\ slot = FreeSlot
  /\ slot' = HeldBy(d, r)
  /\ UNCHANGED writer

\* The holder dies, or forgets its claim; the run stays claimed.
Abandon(d, r) ==
  /\ slot = HeldBy(d, r)
  /\ slot' = HeldBy(Nobody, r)
  /\ UNCHANGED writer

\* The claim is released, withdrawn or expires.
Drop ==
  /\ slot # FreeSlot
  /\ slot' = FreeSlot
  /\ UNCHANGED writer

\* A fenced lifecycle commit (machine._commit_owned).
Commit(d, r) ==
  /\ slot = HeldBy(d, r)
  /\ writer' = [writer EXCEPT ![r] = d]
  /\ UNCHANGED slot

Next ==
  \/ \E d \in Drivers, r \in Runs : Acquire(d, r) \/ Abandon(d, r) \/ Commit(d, r)
  \/ Drop

Spec == Init /\ [][Next]_vars
=============================================================================
