---------------------------- MODULE Orchestrator ----------------------------
(***************************************************************************)
(* The half-duplex run loop of tau2: BaseOrchestrator.run driving          *)
(* Orchestrator.initialize, step, _check_termination and _finalize         *)
(* (vendor/tau2-bench/src/tau2/orchestrator/orchestrator.py).              *)
(*                                                                         *)
(* One instance of the module is one simulation attempt.  The agent, the   *)
(* user and the tools are nondeterministic: a participant answers with any *)
(* message its class can produce or raises, a tool call ends with or       *)
(* without an error.  A message keeps what the loop looks at: the number   *)
(* of its tool calls, whether it has text, and whether the text carries    *)
(* the stop token.                                                         *)
(***************************************************************************)
EXTENDS Integers, Sequences

CONSTANTS
    MaxSteps,               \* max_steps of the run
    MaxErrors,              \* max_errors of the run
    MaxCalls,               \* bound of the model: tool calls in one message
    Setups                  \* the ways a simulation is set up

Setup == [solo_mode : BOOLEAN,              \* the user is a DummyUser
          agent_stops : BOOLEAN,            \* the agent class overrides is_stop
          validate_communication : BOOLEAN,
          has_timeout : BOOLEAN]            \* timeout is not None

\* run_tasks refuses max_steps and max_errors below 1 (batch.py); solo mode
\* asserts an agent class that can stop.
ASSUME OrchestratorAssumption ==
    /\ MaxSteps \in Nat \ {0}
    /\ MaxErrors \in Nat \ {0}
    /\ MaxCalls \in Nat \ {0}
    /\ Setups \subseteq Setup
    /\ \A s \in Setups : s.solo_mode => s.agent_stops

VARIABLES
    setup,              \* the arguments of __init__ that steer the loop
    phase,              \* where run() stands
    from_role, to_role, \* who sent self.message and who receives it
    message,            \* self.message
    step_count,
    num_errors,
    done,
    termination_reason,
    trajectory,         \* one entry per message of self.trajectory
    expired,            \* elapsed >= timeout holds from now on
    stopped             \* participants whose stop() has been called

vars == <<setup, phase, from_role, to_role, message, step_count, num_errors, done,
          termination_reason, trajectory, expired, stopped>>

SoloMode == setup.solo_mode
AgentStops == setup.agent_stops
ValidateCommunication == setup.validate_communication
HasTimeout == setup.has_timeout

Participants == {"AGENT", "USER"}
Other(p) == IF p = "AGENT" THEN "USER" ELSE "AGENT"
Phases == {"new", "loop", "check", "returned", "raised"}
ErrorReasons == {"AGENT_ERROR", "USER_ERROR"}
StopReasons == {"AGENT_STOP", "USER_STOP"}
Reasons == ErrorReasons \cup StopReasons
             \cup {"NONE", "MAX_STEPS", "TOO_MANY_ERRORS", "TIMEOUT"}

-----------------------------------------------------------------------------
(* Messages.                                                               *)

Message == [calls : 0 .. MaxCalls, text : BOOLEAN, stop : BOOLEAN]

NoMessage == [calls |-> 0, text |-> FALSE, stop |-> FALSE]
PlainText == [calls |-> 0, text |-> TRUE, stop |-> FALSE]

IsToolCall(m) == m.calls > 0
Valid(m) == IsToolCall(m) \/ m.text         \* ParticipantMessageBase.validate

\* What an agent's or user's generate_next_message may return: the stop token
\* is part of the text.
Utterances == {m \in Message : m.stop => m.text}

\* is_stop: UserSimulator ignores the token in a message with tool calls, an
\* agent class that overrides is_stop does not.
IsStop(p, m) ==
    IF p = "USER" THEN m.stop /\ ~IsToolCall(m) ELSE AgentStops /\ m.stop

\* _check_communication_error: empty, mixed, or text of a solo agent.
CommunicationError(p, m) ==
    \/ ~Valid(m)
    \/ IsToolCall(m) /\ m.text
    \/ p = "AGENT" /\ SoloMode /\ m.text /\ ~IsStop(p, m)

StopReason(p) == IF p = "USER" THEN "USER_STOP" ELSE "AGENT_STOP"
ErrorReason(p) == IF p = "USER" THEN "USER_ERROR" ELSE "AGENT_ERROR"

\* The reason a turn of p leaves in termination_reason: the communication
\* check runs last and overrides, and a solo agent may only call or stop.
TurnReason(p, m) ==
    IF \/ ValidateCommunication /\ CommunicationError(p, m)
       \/ p = "AGENT" /\ SoloMode /\ ~IsToolCall(m) /\ ~IsStop(p, m)
      THEN ErrorReason(p)
      ELSE IF IsStop(p, m) THEN StopReason(p) ELSE "NONE"

-----------------------------------------------------------------------------
(* initialize.                                                             *)

Init ==
    /\ setup \in Setups
    /\ phase = "new"
    /\ from_role = "NONE" /\ to_role = "NONE"
    /\ message = NoMessage
    /\ step_count = 0 /\ num_errors = 0
    /\ done = FALSE /\ termination_reason = "NONE"
    /\ trajectory = <<>>
    /\ expired = FALSE
    /\ stopped = {}

Entry(role, m) == [role |-> role, calls |-> m.calls]

Begin(from, to, m, reason, history) ==
    /\ phase = "new"
    /\ phase' = "loop"
    /\ from_role' = from
    /\ to_role' = to
    /\ message' = m
    /\ done' = (reason # "NONE")
    /\ termination_reason' = reason
    /\ trajectory' = history
    /\ UNCHANGED <<setup, step_count, num_errors, expired, stopped>>

\* No history: the default greeting of the agent opens the conversation.
InitializeFresh ==
    /\ ~SoloMode
    /\ Begin("AGENT", "USER", PlainText, "NONE", <<Entry("AGENT", PlainText)>>)

\* No history in solo mode: the agent itself speaks first.  A stop is sent to
\* the (dummy) user even when it comes with tool calls; validate() is not called.
InitializeSolo ==
    /\ SoloMode
    /\ \E m \in Utterances :
         Begin("AGENT",
               IF IsToolCall(m) /\ ~IsStop("AGENT", m) THEN "ENV" ELSE "USER",
               m, TurnReason("AGENT", m), <<Entry("AGENT", m)>>)

\* A message history whose last message is a text of p.  set_state has replayed
\* the history (solo mode refuses user messages) and validate_message_history
\* has passed.
InitializeAfterText ==
    \E p \in Participants : \E m \in Utterances :
        /\ Valid(m) /\ ~IsToolCall(m)
        /\ ~(SoloMode /\ p = "USER")
        /\ Begin(p, Other(p), m,
                 IF ValidateCommunication /\ CommunicationError(p, m)
                   THEN ErrorReason(p)
                   ELSE IF IsStop(p, m) THEN StopReason(p) ELSE "NONE",
                 <<Entry(p, m)>>)

\* A message history that ends with the answer to a tool call of p.
InitializeAfterTool ==
    \E p \in Participants :
        /\ ~(SoloMode /\ p = "USER")
        /\ Begin("ENV", p, PlainText, "NONE",
                 <<[role |-> p, calls |-> 1], [role |-> "TOOL", calls |-> 0]>>)

\* set_state, validate_message_history, get_init_state or the first agent call
\* raises; initialize() stands before run()'s try, so nothing is cleaned up.
\* A history that ends with an unanswered tool call always comes here.
InitializeRaises ==
    /\ phase = "new"
    /\ phase' = "raised"
    /\ UNCHANGED <<setup, from_role, to_role, message, step_count, num_errors, done,
                   termination_reason, trajectory, expired, stopped>>

Initialize ==
    \/ InitializeFresh
    \/ InitializeSolo
    \/ InitializeAfterText
    \/ InitializeAfterTool
    \/ InitializeRaises

-----------------------------------------------------------------------------
(* step.                                                                   *)

Receiver(p, m) == IF IsToolCall(m) THEN "ENV" ELSE Other(p)

\* AGENT/ENV -> USER and USER/ENV -> AGENT: the receiver answers.  DummyUser
\* never does.
ParticipantTurn(p) ==
    /\ phase = "loop" /\ ~done
    /\ to_role = p /\ from_role # p
    /\ ~(SoloMode /\ p = "USER")
    /\ \E m \in {u \in Utterances : Valid(u)} :
         /\ message' = m
         /\ from_role' = p
         /\ to_role' = Receiver(p, m)
         /\ done' = (TurnReason(p, m) # "NONE")
         /\ termination_reason' = TurnReason(p, m)
         /\ trajectory' = Append(trajectory, Entry(p, m))
    /\ step_count' = step_count + 1
    /\ phase' = "check"
    /\ UNCHANGED <<setup, num_errors, expired, stopped>>

\* The results go back to the sender of the calls: to_role takes from_role's old
\* value before from_role becomes ENV.
AnswerToOther(from) == Other(from)      \* mutated: results to the wrong side
AnswerTo(from) == from

ToolEntries(n) == [i \in 1 .. n |-> [role |-> "TOOL", calls |-> 0]]

\* AGENT/USER -> ENV: _execute_tool_calls runs every call of the message, each
\* failing one counts, and the results go back to the caller.
EnvironmentTurn ==
    /\ phase = "loop" /\ ~done
    /\ to_role = "ENV" /\ from_role \in Participants
    /\ IsToolCall(message)
    /\ \E failed \in 0 .. message.calls : num_errors' = num_errors + failed
    /\ trajectory' = trajectory \o ToolEntries(message.calls)
    /\ message' = PlainText
    /\ to_role' = AnswerTo(from_role)
    /\ from_role' = "ENV"
    /\ step_count' = step_count + 1
    /\ phase' = "check"
    /\ UNCHANGED <<setup, done, termination_reason, expired, stopped>>

\* agent.stop and user.stop, each in a try of its own, in _cleanup and _finalize.
StopBothFirstRaises == {"AGENT"}        \* mutated: one try around both calls
StopBoth == Participants

\* A participant, validate() or the environment raises inside step: run()'s
\* finally clause stops both participants and the exception leaves run().
StepRaises ==
    /\ phase = "loop" /\ ~done
    /\ phase' = "raised"
    /\ stopped' = StopBoth
    /\ UNCHANGED <<setup, from_role, to_role, message, step_count, num_errors, done,
                   termination_reason, trajectory, expired>>

-----------------------------------------------------------------------------
(* _check_termination and _finalize.                                       *)

\* "Skip termination checks if we're waiting for environment to respond".
ChecksSkippedNever(to) == FALSE         \* mutated: the early return dropped
ChecksSkipped(to) == to = "ENV"

StepsExhausted(steps) == steps >= MaxSteps

ErrorsExhausted(errors) == errors >= MaxErrors

\* _check_timeout.
TimedOutAnyway(late, finished) == late  \* mutated: "not self.done" dropped
TimedOut(late, finished) == late /\ ~finished

CheckTermination ==
    /\ phase = "check"
    /\ phase' = "loop"
    /\ expired' \in {expired, expired \/ HasTimeout}
    /\ IF ChecksSkipped(to_role)
         THEN UNCHANGED <<done, termination_reason>>
         ELSE IF ErrorsExhausted(num_errors)
           THEN done' = TRUE /\ termination_reason' = "TOO_MANY_ERRORS"
           ELSE IF StepsExhausted(step_count)
             THEN done' = TRUE /\ termination_reason' = "MAX_STEPS"
             ELSE IF TimedOut(expired', done)
               THEN done' = TRUE /\ termination_reason' = "TIMEOUT"
               ELSE UNCHANGED <<done, termination_reason>>
    /\ UNCHANGED <<setup, from_role, to_role, message, step_count, num_errors,
                   trajectory, stopped>>

\* "Environment should not receive the last message".
FinalizeAccepts == FALSE                \* mutated: the refusal dropped
FinalizeRefuses == to_role = "ENV" /\ termination_reason \notin ErrorReasons

\* _finalize stops both participants and returns the SimulationRun, or raises
\* and leaves the stopping to _cleanup.
Finalize ==
    /\ phase = "loop" /\ done
    /\ phase' = IF FinalizeRefuses THEN "raised" ELSE "returned"
    /\ stopped' = StopBoth
    /\ UNCHANGED <<setup, from_role, to_role, message, step_count, num_errors, done,
                   termination_reason, trajectory, expired>>

Finished == phase \in {"returned", "raised"} /\ UNCHANGED vars

Turn == ParticipantTurn("AGENT") \/ ParticipantTurn("USER") \/ EnvironmentTurn

Next ==
    \/ Initialize
    \/ Turn
    \/ StepRaises
    \/ CheckTermination
    \/ Finalize
    \/ Finished

Spec == Init /\ [][Next]_vars

\* run() is a loop of one thread: it goes on as long as the participants and
\* the tools return or raise.
FairSpec == Spec /\ WF_vars(Next)
-----------------------------------------------------------------------------
(* Properties.                                                             *)

\* Every variable keeps its type.
TypeOK ==
    /\ setup \in Setups
    /\ phase \in Phases
    /\ from_role \in Participants \cup {"ENV", "NONE"}
    /\ to_role \in Participants \cup {"ENV", "NONE"}
    /\ message \in Message
    /\ step_count \in Nat
    /\ num_errors \in Nat
    /\ done \in BOOLEAN
    /\ termination_reason \in Reasons
    /\ trajectory \in Seq([role : Participants \cup {"TOOL"}, calls : 0 .. MaxCalls])
    /\ expired \in BOOLEAN
    /\ stopped \in SUBSET Participants

\* The limits hold up to what _check_termination lets through while the environment
\* has to answer: one tool step, and the errors of the calls of one message.
LimitsHold ==
    step_count <= MaxSteps + 1 /\ num_errors < MaxErrors + MaxCalls

\* step() never reaches its two routing exceptions ("Invalid role combination",
\* "Agent or User should send tool call to environment"): while the run goes
\* on, sender, receiver and pending message fit one of its three branches.
RoutingTotal ==
    phase = "loop" /\ ~done =>
        \/ to_role \in Participants /\ from_role \in {Other(to_role), "ENV"}
        \/ to_role = "ENV" /\ from_role \in Participants /\ IsToolCall(message)

\* The reason a finished run reports is one that its history bears out, with
\* the precedence of the code: errors over steps over the timeout, a stop or
\* protocol error only while no limit overrode it, and a timeout only where the
\* turn before it left neither.
ReasonHonest ==
    done /\ phase \in {"loop", "returned"} =>
        LET unlimited == \/ to_role = "ENV" \/ step_count = 0
                         \/ step_count < MaxSteps /\ num_errors < MaxErrors
        IN  /\ termination_reason # "NONE"
            /\ termination_reason = "TOO_MANY_ERRORS" => num_errors >= MaxErrors
            /\ termination_reason = "MAX_STEPS" =>
                 step_count >= MaxSteps /\ num_errors < MaxErrors
            /\ termination_reason = "TIMEOUT" =>
                 /\ expired /\ step_count < MaxSteps /\ num_errors < MaxErrors
                 /\ from_role \in Participants => TurnReason(from_role, message) = "NONE"
            /\ termination_reason \in StopReasons =>
                 /\ from_role \in Participants /\ IsStop(from_role, message)
                 /\ termination_reason = StopReason(from_role) /\ unlimited
            /\ termination_reason \in ErrorReasons =>
                 /\ from_role \in Participants
                 /\ CommunicationError(from_role, message)
                 /\ termination_reason = ErrorReason(from_role) /\ unlimited

\* _finalize raises its ValueError for one reason only: the agent put its stop
\* token in a message with tool calls, and validate_communication is off.
RefusalOnlyOnMixedStop ==
    phase = "loop" /\ done /\ FinalizeRefuses =>
        /\ termination_reason = "AGENT_STOP"
        /\ IsToolCall(message) /\ message.text
        /\ ~ValidateCommunication

\* evaluate_simulation replays the trajectory of a run that ended with a stop
\* (Environment.set_state, get_actions_from_messages): every message with n tool
\* calls must be followed by n tool messages, and no other tool message may occur.
Replayable(t) ==
    /\ \A i \in DOMAIN t : \A k \in 1 .. t[i].calls :
          i + k \in DOMAIN t /\ t[i + k].role = "TOOL"
    /\ \A i \in DOMAIN t : t[i].role = "TOOL" =>
          \E j \in 1 .. i - 1 : t[j].calls >= i - j

\* The exception is the code's own ("FIXIT"): a solo agent that stops and calls
\* tools in its first message ends the run with the calls unanswered.
StopIsReplayable ==
    phase = "returned" /\ termination_reason \in StopReasons =>
        \/ Replayable(trajectory)
        \/ SoloMode /\ step_count = 0 /\ IsToolCall(message)

\* A recorded reason is only ever overwritten by one of the two hard limits; in
\* particular the timeout never replaces a participant's stop.
ReasonSticky ==
    [][termination_reason # "NONE" =>
         termination_reason' \in {termination_reason, "MAX_STEPS", "TOO_MANY_ERRORS"}]_vars

\* A run that entered the loop ends, whatever participants and tools do, and
\* both participants have been told to stop ("released even when step() raises").
LoopReleases == phase = "loop" ~> phase \in {"returned", "raised"} /\ stopped = Participants

\* The loop is a turn protocol: tool results go back to their caller, nobody
\* speaks out of turn.
Protocol == INSTANCE TurnProtocol WITH
    floor <- to_role,
    caller <- IF to_role = "ENV" THEN from_role ELSE "NONE",
    state <- IF phase = "new" THEN "starting"
             ELSE IF phase \in {"loop", "check"} THEN "open" ELSE "closed"

FollowsProtocol == Protocol!Spec

=============================================================================
