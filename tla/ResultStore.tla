---------------------------- MODULE ResultStore -----------------------------
(***************************************************************************)
(* What a checkpoint of a batch promises: at most one result per run (a    *)
(* trial of a task with its seed), and a good result that was stored stays *)
(* as it is, over every retry, replacement, crash and resume.              *)
(***************************************************************************)
CONSTANT Keys       \* the runs of the batch: (trial, task, seed)

VARIABLE stored     \* stored[k]: the kind of the result kept for k

Kinds == {"good", "hallucinated", "infra"}

Init == stored = [k \in Keys |-> "none"]

Put(k, kind) ==
    /\ stored[k] = "none"
    /\ stored' = [stored EXCEPT ![k] = kind]

\* The clean retry of a hallucinated run takes its place.
Replace(k, kind) ==
    /\ stored[k] = "hallucinated"
    /\ stored' = [stored EXCEPT ![k] = kind]

\* A resume drops failed runs for a retry; a replacement begins by taking the
\* hallucinated result away.
Drop(dropped) ==
    /\ \A k \in dropped : stored[k] \in {"infra", "hallucinated"}
    /\ stored' = [k \in Keys |-> IF k \in dropped THEN "none" ELSE stored[k]]

Next ==
    \/ \E k \in Keys, kind \in Kinds : Put(k, kind) \/ Replace(k, kind)
    \/ \E dropped \in SUBSET Keys : Drop(dropped)

Spec == Init /\ [][Next]_stored
=============================================================================
