----------------------------- MODULE MCModelCalls -----------------------------
(* The calls of the checks for TLC: LlmQuota, and as behaviours of their   *)
(* own the waits of RateGovernor before a model of the pool and before an  *)
(* outside service.                                                        *)
EXTENDS MCLlmQuota, ModelCalls

CONSTANTS g1, g2, model, provider

VARIABLE side  \* what a behaviour is about; the rest stands still

\* A model is never tuned again.  A provider takes one request every tick, every
\* other one, or one in a window.
MCProfiles ==
  (model :> {[interval |-> 0, rpm |-> 2]}) @@
  (provider :> {[interval |-> 1, rpm |-> 2], [interval |-> 2, rpm |-> 1], [interval |-> 3, rpm |-> 1]})

MCInit ==
  /\ Init /\ Governor!Init
  /\ side \in {"quota", "waits"} /\ (side = "quota" => service = model)

MCNext ==
  \/ side = "quota" /\ Next /\ UNCHANGED <<side, waits>>
  \/ side = "waits" /\ Governor!Next /\ UNCHANGED <<side, vars>>

\* Coroutines are scheduled, row locks are held for one short transaction, and
\* every request has a timeout.
MCSpec ==
  /\ MCInit /\ [][MCNext]_<<side, vars, waits>>
  /\ \A c \in Calls : WF_vars(side = "quota" /\ Step(c))

=============================================================================
