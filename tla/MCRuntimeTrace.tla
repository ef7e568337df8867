--------------------------- MODULE MCRuntimeTrace ---------------------------
(* RuntimeTrace for TLC: every hook installed, and the hooks of a batch of  *)
(* simulations whose inner hooks were deferred.                             *)
EXTENDS RuntimeTrace

AllHooks == Kinds
OuterHooks == {"bootstrap", "batch", "simulation"}
=============================================================================
