----------------------------- MODULE MCPhaseRuns -----------------------------
(* A run of each phase, with a tree that changes at most MaxFlips times.   *)
EXTENDS PhaseRuns
=============================================================================
