---------------------------- MODULE MCObservedRun ----------------------------
(* Every command that differs from a good one in up to two arguments, and a  *)
(* tau2 process of up to two tool calls in which any write may fail.         *)
EXTENDS ObservedRun
=============================================================================
