------------------------ MODULE MCCheckRunPipeline ------------------------
(* Small instances of CheckRunPipeline for TLC. *)
EXTENDS CheckRunPipeline, TLC

CONSTANTS d1, d2, r1, r2

\* Two runs of one manuscript, with two rubrics.
SameManuscript ==
  [r \in Runs |-> [manuscript |-> "m", rubric |-> IF r = r1 THEN "a" ELSE "b"]]

OneSubject == [r \in Runs |-> [manuscript |-> "m", rubric |-> "a"]]

\* One unit of each kind.
OneOfEach ==
  [u \in Units |->
     CASE u = "n" -> "routing" [] u = "s" -> "structural"
       [] u = "m" -> "semantic" [] u = "i" -> "integrity"]

\* One unit of each kind but two semantic criteria, so that the stage can be
\* interrupted half-way.
HalfStage ==
  [u \in Units |->
     CASE u = "n" -> "routing" [] u = "s" -> "structural"
       [] u = "i" -> "integrity" [] OTHER -> "semantic"]

Symmetry == Permutations({d1, d2})
=============================================================================
