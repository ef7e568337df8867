----------------------------- MODULE MCBatchRun -----------------------------
(* BatchRun for TLC: the .cfg files choose the format and what may go wrong. *)
EXTENDS BatchRun, TLC
=============================================================================
