------------------------- MODULE MCPipelineClaims -------------------------
(* Small instances of PipelineClaims for TLC. *)
EXTENDS PipelineClaims, TLC

CONSTANTS d1, d2, r1, r2

MCDrivers == {d1, d2}
MCRuns == {r1, r2}

\* Drivers are interchangeable, and so are runs.
Symmetry == Permutations(MCDrivers) \union Permutations(MCRuns)
=============================================================================
