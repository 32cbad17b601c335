------------------------------ MODULE ModelCalls ------------------------------
(***************************************************************************)
(* The calls of the checks: whether and by which key and model LlmQuota    *)
(* makes one, and when RateGovernor lets one through, to a model of the    *)
(* pool or to another service.                                             *)
(***************************************************************************)
EXTENDS LlmQuota

CONSTANTS Callers, Services, Metered, Window, Budget, Sizes, Profiles, Cooldowns, Old

VARIABLES
  service, pos, size, sleep, tokenLine, slotLine,
  spent, stamps, last, interval, rpm, deferred, drawn, sends

waits == <<service, pos, size, sleep, tokenLine, slotLine,
           spent, stamps, last, interval, rpm, deferred, drawn, sends>>

Governor == INSTANCE RateGovernor

ASSUME WaitsAssumption == Governor!GovernorAssumption

\* In every window of time a model or a service lets through no more than its
\* tokens and requests, and no two requests of a service are closer than the
\* interval in force, however the calls before it wait, wake late or are
\* cancelled (RateGovernor.acquire, TokenGovernor.acquire).
SendingPaced ==
  /\ []Governor!TypeOK /\ []Governor!TokensRespected
  /\ Governor!RateRespected
  /\ Governor!PacedRequests

=============================================================================
