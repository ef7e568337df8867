--------------------------- MODULE MCOrchestrator ---------------------------
(* Orchestrator for TLC, with every way a simulation can be set up, or only  *)
(* the way the runner does by default.                                       *)
EXTENDS Orchestrator

EverySetup == {s \in Setup : s.solo_mode => s.agent_stops}
RunnerSetups == {s \in EverySetup : ~s.validate_communication /\ ~s.has_timeout}
=============================================================================
