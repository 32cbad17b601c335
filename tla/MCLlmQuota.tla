------------------------------ MODULE MCLlmQuota ------------------------------
(* Instances of LlmQuota for TLC.                                          *)
EXTENDS LlmQuota, TLC

CONSTANTS
  c1, c2, c3,     \* calls
  r1, r2,         \* runs
  own, shared, elsewhere,  \* queues: of a key and of the shared key, and the
                           \* shared key's queue of another process
  teacher, app,   \* owners
  large, small,   \* models
  text, picture   \* inputs

\* Two calls of one run with an own key, and a call of the other process.
MCRunOf == (c1 :> r1) @@ (c2 :> r1) @@ (c3 :> r2)
MCRoute == (c1 :> <<own, shared>>) @@ (c2 :> <<own, shared>>) @@ (c3 :> <<elsewhere>>)
MCOwner == (own :> teacher) @@ (shared :> app) @@ (elsewhere :> app)

\* All calls ask the same, or the other process asks something else.
SameInput == [c \in Calls |-> text]
OwnInputs == (c1 :> text) @@ (c2 :> text) @@ (c3 :> picture)

MCPool == <<large, small>>
MCQuota == (large :> 1) @@ (small :> 1)
WideQuota == (large :> 2) @@ (small :> 1)
MCBefore == [r \in Islands |-> 0]
MCAlias == [r \in Islands |-> 0]

\* What aliases have taken of two requests to the larger model.  The own key has
\* two left, so that a retry is charged beside its first attempt, and one after
\* midnight; the shared key has none left, and one after midnight, that two
\* processes compete for.  The smaller model has more debits on record than its
\* cap allows.
TightAlias ==
  [r \in Islands |-> IF r[3] = small THEN 0 ELSE IF r[2] = app THEN 2 - r[1] ELSE r[1]]
LoweredBefore == [r \in Islands |-> IF r[3] = small THEN 2 ELSE 0]

\* The two calls of the run are interchangeable.
Symmetry == Permutations({c1, c2})
=============================================================================
