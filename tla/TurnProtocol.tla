---------------------------- MODULE TurnProtocol ----------------------------
(***************************************************************************)
(* What the half-duplex orchestrator promises about a conversation (the    *)
(* communication flow in the docstring of class Orchestrator): exactly one *)
(* party holds the floor, a participant either speaks to the other one or  *)
(* calls tools, and tool results go back to the participant that called.   *)
(***************************************************************************)
VARIABLES
    floor,      \* who acts next: a participant, "ENV", or "NONE"
    caller,     \* the participant whose tool calls hold the floor at ENV
    state       \* "starting", "open" or "closed"

protocolVars == <<floor, caller, state>>

Talkers == {"AGENT", "USER"}
Peer(p) == IF p = "AGENT" THEN "USER" ELSE "AGENT"

Init == floor = "NONE" /\ caller = "NONE" /\ state = "starting"

Open ==
    /\ state = "starting"
    /\ state' = "open"
    /\ \/ floor' \in Talkers /\ caller' = "NONE"
       \/ floor' = "ENV" /\ caller' = "AGENT"

Speak(p) ==
    /\ state = "open" /\ floor = p
    /\ floor' = Peer(p)
    /\ UNCHANGED <<caller, state>>

Call(p) ==
    /\ state = "open" /\ floor = p
    /\ floor' = "ENV"
    /\ caller' = p
    /\ UNCHANGED state

Answer ==
    /\ state = "open" /\ floor = "ENV"
    /\ floor' = caller
    /\ caller' = "NONE"
    /\ UNCHANGED state

\* The run ends, or its initialization fails.
Close ==
    /\ state # "closed"
    /\ state' = "closed"
    /\ UNCHANGED <<floor, caller>>

Next ==
    \/ Open
    \/ \E p \in Talkers : Speak(p) \/ Call(p)
    \/ Answer
    \/ Close

Spec == Init /\ [][Next]_protocolVars
=============================================================================
