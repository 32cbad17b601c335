------------------------------ MODULE MCRecords ------------------------------
(* What requests do to stored records, for TLC: as behaviours of their own *)
(* the Library and the purge, the versions of a required format, and the   *)
(* storage that uploads reserve, all of StoredRecords.                     *)
EXTENDS StoredRecords, Sequences, TLC

CONSTANTS s1, s2, c1, q1, q2, a1, a2, a3, w1, w2

VARIABLES
  side   \* what a behaviour is about; the rest stands still

formats == <<versions, used, number, criteria, revision, open, noted, active, program, pinned,
             writer, readers, step, asks, target, loaded, todo, deaths>>
uploads == <<status, link, staged, owner, leased, record, started, said, sending, work, on,
             outcome, faults>>

\* All are copies of each other.
SameBytes(m) == "same"

\* Requests on the Library are interchangeable, and so are those on a format.
Interchangeable == Permutations({q1, q2})

\* A format that is not looked at has its one version, parsed and unused.
NoFormat == open = {} /\ active = {} /\ pinned = {}

MCInit ==
  /\ Init /\ Rubric!Init /\ Upload!Init
  /\ side \in {"library", "format", "upload"}
  /\ side # "format" => NoFormat

MCNext ==
  \/ side = "library" /\ Next /\ UNCHANGED <<side, formats, uploads>>
  \/ side = "format" /\ Rubric!Next /\ UNCHANGED <<side, vars, uploads>>
  \/ side = "upload" /\ Upload!Next /\ UNCHANGED <<side, vars, formats>>

MCSpec == MCInit /\ [][MCNext]_<<side, vars, formats, uploads>>

=============================================================================
