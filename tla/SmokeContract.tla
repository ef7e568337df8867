---------------------------- MODULE SmokeContract ----------------------------
(***************************************************************************)
(* What a smoke command promises whoever runs it, and all that a command   *)
(* that runs another one relies on (run_all_smokes.parse_child_output): it *)
(* writes final_state.json once, prints its directory and the state it     *)
(* wrote, and exits with 0 exactly when that state is a pass status.  It   *)
(* may also raise, which prints an error line instead, or be killed; in    *)
(* any case it comes to an end.                                            *)
(***************************************************************************)
EXTENDS Naturals

CONSTANTS
    States,     \* what final_state.json can say
    Passes,     \* the states that stand for success
    Errors,     \* the lines a handler prints
    Nothing     \* nothing written, nothing printed

VARIABLES
    claim,      \* the state in final_state.json
    said,       \* the last line printed
    exit        \* "running", the exit code, or "killed"

vars == <<claim, said, exit>>

Init == claim = Nothing /\ said = Nothing /\ exit = "running"

Claim ==
    /\ exit = "running"
    /\ claim = Nothing
    /\ claim' \in States
    /\ UNCHANGED <<said, exit>>

\* The printed state is the written one, and so is the exit code.
Return ==
    /\ exit = "running"
    /\ claim # Nothing
    /\ said' = claim
    /\ exit' = IF claim \in Passes THEN "0" ELSE "1"
    /\ UNCHANGED claim

Raise ==
    /\ exit = "running"
    /\ said' \in Errors
    /\ exit' = "1"
    /\ UNCHANGED claim

Kill ==
    /\ exit = "running"
    /\ exit' = "killed"
    /\ UNCHANGED <<claim, said>>

Next == Claim \/ Return \/ Raise \/ Kill

Spec == Init /\ [][Next]_vars

Ends == <>(exit # "running")

Keeps == Spec /\ Ends

=============================================================================
