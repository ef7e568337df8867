------------------------- MODULE OrchestratorProofs -------------------------
(***************************************************************************)
(* Proofs about Orchestrator, for every value of its constants.            *)
(***************************************************************************)
EXTENDS Orchestrator, SequenceTheorems, TLAPS

USE DEF Participants, Phases, ErrorReasons, StopReasons, Reasons

(* A message with calls has room for them; the constant messages are messages. *)
LEMMA MessageFacts ==
    /\ NoMessage \in Message
    /\ PlainText \in Message
    /\ \A m \in Utterances : m \in Message
    /\ \A p \in Participants : \A m : TurnReason(p, m) \in Reasons
    /\ \A p \in Participants : \A m : Receiver(p, m) \in Participants \cup {"ENV"}
  BY OrchestratorAssumption
     DEF NoMessage, PlainText, Message, Utterances, TurnReason, ErrorReason,
         StopReason, Receiver, Other

(* The answers to a message are a sequence of trajectory entries. *)
LEMMA ToolEntriesFacts ==
  ASSUME NEW n \in 0 .. MaxCalls
  PROVE  ToolEntries(n)
           \in Seq([role : Participants \cup {"TOOL"}, calls : 0 .. MaxCalls])
<1> DEFINE E == [role : Participants \cup {"TOOL"}, calls : 0 .. MaxCalls]
<1>1. n \in Nat /\ 0 \in 0 .. MaxCalls
  BY OrchestratorAssumption
<1>2. [role |-> "TOOL", calls |-> 0] \in E
  BY <1>1
<1> HIDE DEF E
<1>3. ToolEntries(n) \in [1 .. n -> E]
  BY <1>2 DEF ToolEntries
<1>4. ToolEntries(n) \in Seq(E)
  BY <1>1, <1>3, SeqDef
<1> QED BY <1>4 DEF E

(* The type invariant of the run loop. *)
THEOREM TypeCorrect == Spec => []TypeOK
<1>1. Init => TypeOK
  <2> SUFFICES ASSUME Init PROVE TypeOK
    OBVIOUS
  <2>1. trajectory \in Seq([role : Participants \cup {"TOOL"}, calls : 0 .. MaxCalls])
    BY EmptySeq DEF Init
  <2> QED BY <2>1, MessageFacts DEF Init, TypeOK
<1>2. TypeOK /\ [Next]_vars => TypeOK'
  <2> SUFFICES ASSUME TypeOK, [Next]_vars PROVE TypeOK'
    OBVIOUS
  <2> USE DEF TypeOK
  <2>1. CASE Initialize
    <3>1. CASE InitializeFresh
      BY <3>1, MessageFacts, OrchestratorAssumption
         DEF InitializeFresh, Begin, Entry, PlainText
    <3>2. CASE InitializeSolo
      BY <3>2, MessageFacts, OrchestratorAssumption
         DEF InitializeSolo, Begin, Entry, Utterances, Message
    <3>3. CASE InitializeAfterText
      BY <3>3, MessageFacts, OrchestratorAssumption
         DEF InitializeAfterText, Begin, Entry, Utterances, Message, Other,
             ErrorReason, StopReason
    <3>4. CASE InitializeAfterTool
      BY <3>4, MessageFacts, OrchestratorAssumption
         DEF InitializeAfterTool, Begin
    <3>5. CASE InitializeRaises
      BY <3>5 DEF InitializeRaises
    <3> QED BY <2>1, <3>1, <3>2, <3>3, <3>4, <3>5 DEF Initialize
  <2>2. ASSUME NEW p \in Participants, ParticipantTurn(p) PROVE TypeOK'
    <3>1. PICK m \in Utterances :
            /\ message' = m /\ from_role' = p /\ to_role' = Receiver(p, m)
            /\ done' = (TurnReason(p, m) # "NONE")
            /\ termination_reason' = TurnReason(p, m)
            /\ trajectory' = Append(trajectory, Entry(p, m))
      BY <2>2 DEF ParticipantTurn
    <3>2. Entry(p, m) \in [role : Participants \cup {"TOOL"}, calls : 0 .. MaxCalls]
      BY <2>2 DEF Entry, Utterances, Message
    <3>3. trajectory' \in Seq([role : Participants \cup {"TOOL"}, calls : 0 .. MaxCalls])
      BY <3>1, <3>2
    <3>4. message' \in Message /\ to_role' \in Participants \cup {"ENV"}
            /\ termination_reason' \in Reasons
      BY <2>2, <3>1, MessageFacts
    <3> QED BY <2>2, <3>1, <3>3, <3>4 DEF ParticipantTurn
  <2>3. CASE EnvironmentTurn
    <3>1. message.calls \in 0 .. MaxCalls
      BY DEF Message
    <3>2. ToolEntries(message.calls)
            \in Seq([role : Participants \cup {"TOOL"}, calls : 0 .. MaxCalls])
      BY <3>1, ToolEntriesFacts
    <3>3. num_errors' \in Nat
      BY <2>3, <3>1, OrchestratorAssumption DEF EnvironmentTurn
    <3>4. trajectory' \in Seq([role : Participants \cup {"TOOL"}, calls : 0 .. MaxCalls])
      BY <2>3, <3>2 DEF EnvironmentTurn
    <3> QED BY <2>3, <3>3, <3>4, MessageFacts DEF EnvironmentTurn, AnswerTo
  <2>4. CASE StepRaises
    BY <2>4 DEF StepRaises, StopBoth
  <2>5. CASE CheckTermination
    BY <2>5, OrchestratorAssumption DEF CheckTermination
  <2>6. CASE Finalize
    BY <2>6 DEF Finalize, StopBoth
  <2>7. CASE UNCHANGED vars
    BY <2>7 DEF vars
  <2> QED
    BY <2>1, <2>2, <2>3, <2>4, <2>5, <2>6, <2>7 DEF Next, Turn, Finished
<1> QED BY <1>1, <1>2, PTL DEF Spec

-----------------------------------------------------------------------------
(* Limits and routing.                                                     *)

\* What is left of the limits where the loop stands.
Room ==
    /\ phase = "new" => step_count = 0 /\ num_errors = 0
    /\ (phase = "loop" /\ ~done) \/ (phase = "check" /\ to_role = "ENV") =>
         step_count <= MaxSteps /\ num_errors < MaxErrors
    /\ phase = "loop" /\ ~done /\ to_role # "ENV" => step_count < MaxSteps

\* Sender, receiver and message fit, also before the termination check.
Routed ==
    phase \in {"loop", "check"} /\ ~done =>
        \/ to_role \in Participants /\ from_role \in {Other(to_role), "ENV"}
        \/ to_role = "ENV" /\ from_role \in Participants /\ IsToolCall(message)

IInv == TypeOK /\ Room /\ Routed /\ LimitsHold

\* Every step keeps the room that is left within the limits.
LEMMA BoundsStep ==
  ASSUME OrchestratorAssumption, IInv, [Next]_vars
  PROVE  Room' /\ LimitsHold'
<1> USE DEF IInv, TypeOK, Room, LimitsHold
<1>0. MaxSteps \in Nat \ {0} /\ MaxErrors \in Nat \ {0} /\ MaxCalls \in Nat \ {0}
      /\ step_count \in Nat /\ num_errors \in Nat
  BY DEF OrchestratorAssumption
<1>1. CASE Initialize
  <2>1. \/ /\ phase = "new" /\ phase' = "loop"
           /\ step_count' = step_count /\ num_errors' = num_errors
        \/ InitializeRaises
    BY <1>1 DEF Initialize, InitializeFresh, InitializeSolo, InitializeAfterText,
       InitializeAfterTool, Begin
  <2>2. CASE InitializeRaises
    BY <1>0, <2>2 DEF InitializeRaises
  <2> QED BY <1>0, <2>1, <2>2
<1>2. ASSUME NEW p \in Participants, ParticipantTurn(p)
      PROVE  Room' /\ LimitsHold'
  <2>1. /\ phase = "loop" /\ ~done /\ to_role # "ENV" /\ phase' = "check"
        /\ step_count' = step_count + 1 /\ num_errors' = num_errors
    BY <1>2 DEF ParticipantTurn
  <2>2. step_count < MaxSteps /\ num_errors < MaxErrors
    BY <2>1
  <2>3. Room'
    BY <1>0, <2>1, <2>2
  <2>4. LimitsHold'
    BY <1>0, <2>1, <2>2
  <2> QED BY <2>3, <2>4
<1>3. CASE EnvironmentTurn
  <2>1. /\ phase = "loop" /\ ~done /\ phase' = "check" /\ to_role' \in Participants
        /\ step_count' = step_count + 1
    BY <1>3 DEF EnvironmentTurn, AnswerTo
  <2>2. PICK failed \in 0 .. message.calls : num_errors' = num_errors + failed
    BY <1>3 DEF EnvironmentTurn
  <2>3. failed \in Nat /\ failed <= MaxCalls
    BY <1>0, <2>2 DEF Message
  <2>4. step_count <= MaxSteps /\ num_errors < MaxErrors
    BY <2>1
  <2>5. Room'
    BY <2>1
  <2>6. LimitsHold'
    BY <1>0, <2>1, <2>2, <2>3, <2>4
  <2> QED BY <2>5, <2>6
<1>4. CASE StepRaises \/ Finalize
  <2>1. /\ phase' \in {"raised", "returned"}
        /\ step_count' = step_count /\ num_errors' = num_errors
    BY <1>4 DEF StepRaises, Finalize
  <2> QED BY <1>0, <2>1
<1>5. CASE CheckTermination
  <2>1. /\ phase = "check" /\ phase' = "loop" /\ to_role' = to_role
        /\ step_count' = step_count /\ num_errors' = num_errors
    BY <1>5 DEF CheckTermination
  <2>2. to_role # "ENV" /\ ~done' => step_count < MaxSteps /\ num_errors < MaxErrors
    BY <1>0, <1>5 DEF CheckTermination, ChecksSkipped, ErrorsExhausted, StepsExhausted
  <2> QED BY <1>0, <2>1, <2>2
<1>6. CASE Finished \/ UNCHANGED vars
  BY <1>0, <1>6 DEF Finished, vars
<1> QED BY <1>1, <1>2, <1>3, <1>4, <1>5, <1>6 DEF Next, Turn

\* Every step keeps the roles of the pending message in order.
LEMMA RoutedStep ==
  ASSUME OrchestratorAssumption, IInv, [Next]_vars
  PROVE  Routed'
<1> USE DEF IInv, TypeOK, Routed
<1>1. CASE Initialize
  <2>1. CASE InitializeFresh
    BY <2>1 DEF InitializeFresh, Begin, Other
  <2>2. CASE InitializeSolo
    BY <2>2 DEF InitializeSolo, Begin, Other
  <2>3. CASE InitializeAfterText
    BY <2>3 DEF InitializeAfterText, Begin, Other
  <2>4. CASE InitializeAfterTool
    BY <2>4 DEF InitializeAfterTool, Begin
  <2>5. CASE InitializeRaises
    BY <2>5 DEF InitializeRaises
  <2> QED BY <1>1, <2>1, <2>2, <2>3, <2>4, <2>5 DEF Initialize
<1>2. ASSUME NEW p \in Participants, ParticipantTurn(p) PROVE Routed'
  BY <1>2 DEF ParticipantTurn, Receiver, Other
<1>3. CASE EnvironmentTurn
  BY <1>3 DEF EnvironmentTurn, AnswerTo
<1>4. CASE StepRaises \/ Finalize
  BY <1>4 DEF StepRaises, Finalize
<1>5. CASE CheckTermination
  <2>1. /\ to_role' = to_role /\ from_role' = from_role /\ message' = message
        /\ phase = "check"
    BY <1>5 DEF CheckTermination
  <2>2. done => done'
    BY <1>5 DEF CheckTermination
  <2> QED BY <2>1, <2>2
<1>6. CASE Finished \/ UNCHANGED vars
  BY <1>6 DEF Finished, vars
<1> QED BY <1>1, <1>2, <1>3, <1>4, <1>5, <1>6 DEF Next, Turn

\* Types, routing and limits hold throughout.
LEMMA Invariance == Spec => []IInv
<1>1. Init => Room /\ Routed /\ LimitsHold
  BY OrchestratorAssumption DEF Init, Room, Routed, LimitsHold
<1>2. IInv /\ [Next]_vars /\ TypeOK' => IInv'
  BY BoundsStep, RoutedStep, OrchestratorAssumption DEF IInv
<1> QED BY <1>1, <1>2, TypeCorrect, PTL DEF Spec, IInv

(* No run makes more steps than max_steps and the one tool step that the        *)
(* termination check lets through, nor counts more errors than max_errors and   *)
(* those of one message's calls.                                                *)
THEOREM LimitsKept == Spec => []LimitsHold
BY Invariance, PTL DEF IInv

(* step() never reaches its exceptions for invalid role combinations.            *)
THEOREM RoutingHolds == Spec => []RoutingTotal
<1>1. IInv => RoutingTotal
  BY DEF IInv, Routed, RoutingTotal
<1> QED BY <1>1, Invariance, PTL

-----------------------------------------------------------------------------
(* The run loop implements the turn protocol.                              *)

(* Every conversation keeps to the protocol: one party holds the floor, and the  *)
(* results of tool calls go back to the participant that made them.              *)
THEOREM Implements == Spec => FollowsProtocol
<1>1. Init => Protocol!Init
  BY DEF Init, Protocol!Init
<1>2. TypeOK /\ [Next]_vars => [Protocol!Next]_(Protocol!protocolVars)
  <2> SUFFICES ASSUME TypeOK, [Next]_vars
               PROVE  Protocol!Next \/ UNCHANGED Protocol!protocolVars
    OBVIOUS
  <2> USE DEF TypeOK, Protocol!protocolVars, Protocol!Talkers
  <2>1. CASE Initialize
    <3>1. CASE InitializeRaises
      BY <3>1 DEF InitializeRaises, Protocol!Next, Protocol!Close
    <3>2. CASE InitializeFresh \/ InitializeSolo \/ InitializeAfterText \/ InitializeAfterTool
      <4>1. /\ phase = "new" /\ phase' = "loop"
            /\ to_role' \in Participants \/ (to_role' = "ENV" /\ from_role' = "AGENT")
        BY <3>2 DEF InitializeFresh, InitializeSolo, InitializeAfterText,
           InitializeAfterTool, Begin, Other
      <4> QED BY <4>1 DEF Protocol!Next, Protocol!Open
    <3> QED BY <2>1, <3>1, <3>2 DEF Initialize
  <2>2. ASSUME NEW p \in Participants, ParticipantTurn(p)
        PROVE  Protocol!Next
    <3>1. /\ phase = "loop" /\ phase' = "check" /\ to_role = p /\ from_role' = p
          /\ to_role' \in {"ENV", Other(p)}
      BY <2>2 DEF ParticipantTurn, Receiver
    <3>2. CASE to_role' = "ENV"
      BY <3>1, <3>2 DEF Protocol!Next, Protocol!Call
    <3>3. CASE to_role' = Other(p)
      BY <3>1, <3>3 DEF Protocol!Next, Protocol!Speak, Protocol!Peer, Other
    <3> QED BY <3>1, <3>2, <3>3
  <2>3. CASE EnvironmentTurn
    BY <2>3 DEF EnvironmentTurn, AnswerTo, Protocol!Next, Protocol!Answer
  <2>4. CASE StepRaises \/ Finalize
    BY <2>4 DEF StepRaises, Finalize, Protocol!Next, Protocol!Close
  <2>5. CASE CheckTermination
    BY <2>5 DEF CheckTermination
  <2>6. CASE Finished \/ UNCHANGED vars
    BY <2>6 DEF Finished, vars
  <2> QED BY <2>1, <2>2, <2>3, <2>4, <2>5, <2>6 DEF Next, Turn
<1> QED BY <1>1, <1>2, TypeCorrect, PTL DEF Spec, FollowsProtocol, Protocol!Spec

-----------------------------------------------------------------------------
(* The reason of the end.                                                  *)

\* A run is done exactly when it has a reason.
DoneHasReason == done <=> termination_reason # "NONE"

\* A stop or protocol error is that of the last turn, whose message is still
\* pending; a stop with calls pending is an unchecked stop of the agent.
TurnBears ==
    /\ termination_reason \in StopReasons =>
         /\ from_role \in Participants /\ IsStop(from_role, message)
         /\ termination_reason = StopReason(from_role)
         /\ to_role = "ENV" =>
              /\ termination_reason = "AGENT_STOP"
              /\ IsToolCall(message) /\ message.text /\ ~ValidateCommunication
    /\ termination_reason \in ErrorReasons =>
         /\ from_role \in Participants /\ CommunicationError(from_role, message)
         /\ termination_reason = ErrorReason(from_role)

Unlimited ==
    \/ to_role = "ENV" \/ step_count = 0
    \/ step_count < MaxSteps /\ num_errors < MaxErrors

\* A limit was reached and no earlier one overrides it; where a stop or error
\* stands after the check, no limit was.
LimitBears ==
    /\ termination_reason = "TOO_MANY_ERRORS" => num_errors >= MaxErrors
    /\ termination_reason = "MAX_STEPS" =>
         step_count >= MaxSteps /\ num_errors < MaxErrors
    /\ termination_reason = "TIMEOUT" =>
         /\ expired /\ step_count < MaxSteps /\ num_errors < MaxErrors
         /\ from_role \in Participants => TurnReason(from_role, message) = "NONE"
    /\ termination_reason \in StopReasons \cup ErrorReasons /\ phase # "check" =>
         Unlimited

\* Only turns have left a reason before the check, and it is the reason of the
\* turn just made; before the loop begins there is none and no step was made.
BeforeCheck ==
    /\ phase = "check" =>
         termination_reason \in StopReasons \cup ErrorReasons \cup {"NONE"}
    /\ phase = "check" /\ from_role \in Participants =>
         termination_reason = TurnReason(from_role, message)
    /\ phase = "new" => step_count = 0 /\ termination_reason = "NONE"

\* A limit never comes at the environment's turn.
FloorAtLimit ==
    termination_reason \in {"TOO_MANY_ERRORS", "MAX_STEPS", "TIMEOUT"} => to_role # "ENV"

ReasonInv ==
    DoneHasReason /\ TurnBears /\ LimitBears /\ BeforeCheck /\ FloorAtLimit

(* The reason a turn leaves is borne out by its message.                        *)
LEMMA TurnReasonFacts ==
  ASSUME NEW p \in Participants, NEW m \in Utterances
  PROVE  /\ TurnReason(p, m) \in StopReasons \cup ErrorReasons \cup {"NONE"}
         /\ TurnReason(p, m) \in StopReasons =>
              /\ IsStop(p, m) /\ TurnReason(p, m) = StopReason(p)
              /\ IsToolCall(m) => /\ TurnReason(p, m) = "AGENT_STOP"
                                  /\ m.text /\ ~ValidateCommunication
         /\ TurnReason(p, m) \in ErrorReasons =>
              CommunicationError(p, m) /\ TurnReason(p, m) = ErrorReason(p)
  BY DEF TurnReason, StopReason, ErrorReason, IsStop, CommunicationError, Valid,
     IsToolCall, Utterances, Message

(* The beginning of a conversation: what is done, and why.                      *)
LEMMA BeginReason ==
  ASSUME TypeOK, ReasonInv, NEW from, NEW to, NEW m, NEW reason, NEW history,
         Begin(from, to, m, reason, history),
         reason \in StopReasons \cup ErrorReasons \cup {"NONE"},
         reason \in StopReasons =>
           /\ from \in Participants /\ IsStop(from, m) /\ reason = StopReason(from)
           /\ to # "ENV",
         reason \in ErrorReasons =>
           /\ from \in Participants /\ CommunicationError(from, m)
           /\ reason = ErrorReason(from)
  PROVE  ReasonInv'
<1>1. /\ phase = "new" /\ phase' = "loop" /\ step_count' = step_count
      /\ from_role' = from /\ to_role' = to /\ message' = m /\ setup' = setup
      /\ done' = (reason # "NONE") /\ termination_reason' = reason
  BY DEF Begin
<1>2. DoneHasReason'
  BY <1>1 DEF DoneHasReason
<1>3. TurnBears'
  BY <1>1 DEF TurnBears, IsStop, StopReason, ErrorReason, CommunicationError,
     SoloMode, AgentStops, IsToolCall, Valid
<1>4. step_count' = 0
  BY <1>1 DEF ReasonInv, BeforeCheck
<1>5. LimitBears' /\ BeforeCheck' /\ FloorAtLimit'
  BY <1>1, <1>4 DEF LimitBears, BeforeCheck, FloorAtLimit, Unlimited
<1> QED BY <1>2, <1>3, <1>5 DEF ReasonInv

\* Every step keeps the reason true of its history.
LEMMA ReasonStep ==
  ASSUME OrchestratorAssumption, TypeOK, ReasonInv, [Next]_vars
  PROVE  ReasonInv'
<1>1. CASE Initialize
  <2>1. CASE InitializeFresh
    BY <2>1, BeginReason DEF InitializeFresh
  <2>2. CASE InitializeSolo
    <3>1. PICK m \in Utterances :
            Begin("AGENT",
                  IF IsToolCall(m) /\ ~IsStop("AGENT", m) THEN "ENV" ELSE "USER",
                  m, TurnReason("AGENT", m), <<Entry("AGENT", m)>>)
      BY <2>2 DEF InitializeSolo
    <3>2. TurnReason("AGENT", m) \in StopReasons => IsStop("AGENT", m)
      BY TurnReasonFacts
    <3> DEFINE to == IF IsToolCall(m) /\ ~IsStop("AGENT", m) THEN "ENV" ELSE "USER"
    <3>3. TurnReason("AGENT", m) \in StopReasons => to # "ENV"
      BY <3>2
    <3> HIDE DEF to
    <3> QED BY <3>1, <3>3, TurnReasonFacts, BeginReason DEF to
  <2>3. CASE InitializeAfterText
    <3>1. PICK p \in Participants, m \in Utterances :
            Begin(p, Other(p), m,
                  IF ValidateCommunication /\ CommunicationError(p, m)
                    THEN ErrorReason(p)
                    ELSE IF IsStop(p, m) THEN StopReason(p) ELSE "NONE",
                  <<Entry(p, m)>>)
      BY <2>3 DEF InitializeAfterText
    <3> DEFINE reason == IF ValidateCommunication /\ CommunicationError(p, m)
                           THEN ErrorReason(p)
                           ELSE IF IsStop(p, m) THEN StopReason(p) ELSE "NONE"
    <3>2. /\ reason \in StopReasons \cup ErrorReasons \cup {"NONE"}
          /\ reason \in StopReasons =>
               IsStop(p, m) /\ reason = StopReason(p) /\ Other(p) # "ENV"
          /\ reason \in ErrorReasons =>
               CommunicationError(p, m) /\ reason = ErrorReason(p)
      BY DEF StopReason, ErrorReason, Other
    <3>3. Begin(p, Other(p), m, reason, <<Entry(p, m)>>)
      BY <3>1
    <3> HIDE DEF reason
    <3> QED BY <3>2, <3>3, BeginReason
  <2>4. CASE InitializeAfterTool
    BY <2>4, BeginReason DEF InitializeAfterTool
  <2>5. CASE InitializeRaises
    BY <2>5 DEF InitializeRaises, ReasonInv, DoneHasReason, TurnBears, LimitBears,
       BeforeCheck, FloorAtLimit, Unlimited, IsStop, StopReason, ErrorReason,
       CommunicationError, SoloMode, AgentStops, ValidateCommunication, TurnReason
  <2> QED BY <1>1, <2>1, <2>2, <2>3, <2>4, <2>5 DEF Initialize
<1>2. ASSUME NEW p \in Participants, ParticipantTurn(p)
      PROVE  ReasonInv'
  <2>1. PICK m \in Utterances :
          /\ message' = m /\ from_role' = p /\ to_role' = Receiver(p, m)
          /\ done' = (TurnReason(p, m) # "NONE")
          /\ termination_reason' = TurnReason(p, m)
    BY <1>2 DEF ParticipantTurn
  <2>2. phase' = "check" /\ setup' = setup
    BY <1>2 DEF ParticipantTurn
  <2>3. DoneHasReason'
    BY <2>1 DEF DoneHasReason
  <2>4. Receiver(p, m) = "ENV" => IsToolCall(m)
    BY DEF Receiver, Other
  <2>5. /\ IsStop(p, m) => IsStop(from_role, message)'
        /\ CommunicationError(p, m) => CommunicationError(from_role, message)'
        /\ IsToolCall(message)' <=> IsToolCall(m)
        /\ StopReason(from_role)' = StopReason(p)
        /\ ErrorReason(from_role)' = ErrorReason(p)
        /\ ValidateCommunication' = ValidateCommunication
    BY <2>1, <2>2 DEF IsStop, CommunicationError, StopReason, ErrorReason, SoloMode,
       AgentStops, ValidateCommunication, IsToolCall, Valid
  <2>6. TurnBears'
    BY <2>1, <2>4, <2>5, TurnReasonFacts DEF TurnBears
  <2>7. TurnReason(from_role, message)' = TurnReason(p, m)
    BY <2>1, <2>2, <2>5 DEF TurnReason, IsStop, CommunicationError, StopReason,
       ErrorReason, SoloMode, AgentStops, ValidateCommunication, IsToolCall, Valid
  <2>8. LimitBears' /\ BeforeCheck' /\ FloorAtLimit'
    BY <2>1, <2>2, <2>7, TurnReasonFacts DEF LimitBears, BeforeCheck, FloorAtLimit
  <2> QED BY <2>3, <2>6, <2>8 DEF ReasonInv
<1>3. CASE EnvironmentTurn
  <2>1. /\ termination_reason = "NONE" /\ termination_reason' = "NONE"
        /\ ~done' /\ phase' = "check" /\ from_role' = "ENV"
    BY <1>3 DEF EnvironmentTurn, ReasonInv, DoneHasReason
  <2> QED BY <2>1 DEF ReasonInv, DoneHasReason, TurnBears, LimitBears, BeforeCheck,
          FloorAtLimit, Participants
<1>4. CASE StepRaises \/ Finalize \/ Finished \/ UNCHANGED vars
  BY <1>4 DEF StepRaises, Finalize, Finished, vars, ReasonInv, DoneHasReason,
     TurnBears, LimitBears, BeforeCheck, FloorAtLimit, Unlimited, IsStop, StopReason,
     ErrorReason, CommunicationError, SoloMode, AgentStops, ValidateCommunication,
     TurnReason
<1>5. CASE CheckTermination
  <2>1. /\ phase = "check" /\ phase' = "loop"
        /\ setup' = setup /\ from_role' = from_role /\ to_role' = to_role
        /\ message' = message /\ step_count' = step_count /\ num_errors' = num_errors
    BY <1>5 DEF CheckTermination
  <2>2. /\ IsStop(from_role, message)' = IsStop(from_role, message)
        /\ CommunicationError(from_role, message)'
             = CommunicationError(from_role, message)
        /\ ValidateCommunication' = ValidateCommunication
        /\ StopReason(from_role)' = StopReason(from_role)
        /\ ErrorReason(from_role)' = ErrorReason(from_role)
        /\ IsToolCall(message)' = IsToolCall(message)
        /\ TurnReason(from_role, message)' = TurnReason(from_role, message)
    BY <2>1 DEF IsStop, CommunicationError, StopReason, ErrorReason, SoloMode,
       AgentStops, ValidateCommunication, IsToolCall, Valid, TurnReason
  <2>3. \/ /\ termination_reason' = termination_reason /\ done' = done
           /\ \/ to_role = "ENV"
              \/ ~ErrorsExhausted(num_errors) /\ ~StepsExhausted(step_count)
        \/ /\ to_role # "ENV" /\ done'
           /\ \/ termination_reason' = "TOO_MANY_ERRORS" /\ ErrorsExhausted(num_errors)
              \/ /\ termination_reason' = "MAX_STEPS"
                 /\ ~ErrorsExhausted(num_errors) /\ StepsExhausted(step_count)
              \/ /\ termination_reason' = "TIMEOUT" /\ expired' /\ ~done
                 /\ ~ErrorsExhausted(num_errors) /\ ~StepsExhausted(step_count)
    BY <1>5 DEF CheckTermination, ChecksSkipped, TimedOut
  <2>4. step_count \in Nat /\ num_errors \in Nat /\ MaxSteps \in Nat /\ MaxErrors \in Nat
    BY OrchestratorAssumption DEF TypeOK
  <2>5. DoneHasReason' /\ TurnBears'
    BY <2>1, <2>2, <2>3 DEF ReasonInv, DoneHasReason, TurnBears
  <2>6. ~done => (from_role \in Participants => TurnReason(from_role, message) = "NONE")
    BY <2>1 DEF ReasonInv, DoneHasReason, BeforeCheck
  <2>7. LimitBears' /\ BeforeCheck' /\ FloorAtLimit'
    BY <2>1, <2>2, <2>3, <2>4, <2>6 DEF ReasonInv, LimitBears, BeforeCheck, FloorAtLimit,
       Unlimited, ErrorsExhausted, StepsExhausted
  <2> QED BY <2>5, <2>7 DEF ReasonInv
<1> QED BY <1>1, <1>2, <1>3, <1>4, <1>5 DEF Next, Turn

\* The reason is true of its history throughout.
LEMMA ReasonInvariance == Spec => []ReasonInv
<1>1. Init => ReasonInv
  BY DEF Init, ReasonInv, DoneHasReason, TurnBears, LimitBears, BeforeCheck,
     FloorAtLimit
<1>2. TypeOK /\ ReasonInv /\ [Next]_vars => ReasonInv'
  BY ReasonStep, OrchestratorAssumption
<1> QED BY <1>1, <1>2, TypeCorrect, PTL DEF Spec

(* The reason a finished run reports is one that its history bears out.          *)
THEOREM ReasonIsHonest == Spec => []ReasonHonest
<1>1. TypeOK /\ ReasonInv => ReasonHonest
  <2> SUFFICES ASSUME TypeOK, ReasonInv, done, phase \in {"loop", "returned"}
               PROVE  ReasonHonest
    BY DEF ReasonHonest
  <2>1. termination_reason \in Reasons \ {"NONE"} /\ phase # "check"
    BY DEF TypeOK, ReasonInv, DoneHasReason
  <2>2. CASE termination_reason \in StopReasons
    BY <2>1, <2>2 DEF ReasonHonest, ReasonInv, TurnBears, LimitBears, Unlimited
  <2>3. CASE termination_reason \in ErrorReasons
    BY <2>1, <2>3 DEF ReasonHonest, ReasonInv, TurnBears, LimitBears, Unlimited
  <2>4. CASE termination_reason \in {"TOO_MANY_ERRORS", "MAX_STEPS", "TIMEOUT"}
    BY <2>1, <2>4 DEF ReasonHonest, ReasonInv, LimitBears
  <2> QED BY <2>1, <2>2, <2>3, <2>4
<1> QED BY <1>1, TypeCorrect, ReasonInvariance, PTL

(* _finalize refuses to end a run only for a mixed stop of the agent.            *)
THEOREM RefusalExplained == Spec => []RefusalOnlyOnMixedStop
<1>1. TypeOK /\ ReasonInv => RefusalOnlyOnMixedStop
  BY DEF TypeOK, ReasonInv, RefusalOnlyOnMixedStop, FinalizeRefuses, DoneHasReason,
     TurnBears, FloorAtLimit
<1> QED BY <1>1, TypeCorrect, ReasonInvariance, PTL

(* Only the two hard limits overwrite a reason; the timeout never does.          *)
THEOREM ReasonStays == Spec => ReasonSticky
<1>1. ReasonInv /\ [Next]_vars =>
        [termination_reason # "NONE" =>
           termination_reason' \in {termination_reason, "MAX_STEPS", "TOO_MANY_ERRORS"}]_vars
  <2> SUFFICES ASSUME ReasonInv, [Next]_vars, termination_reason # "NONE"
               PROVE  termination_reason'
                        \in {termination_reason, "MAX_STEPS", "TOO_MANY_ERRORS"}
    OBVIOUS
  <2>1. done
    BY DEF ReasonInv, DoneHasReason
  <2>2. phase # "new"
    BY DEF ReasonInv, BeforeCheck
  <2>3. ~Initialize /\ ~Turn /\ ~StepRaises
    BY <2>1, <2>2 DEF Initialize, InitializeFresh, InitializeSolo, InitializeAfterText,
       InitializeAfterTool, InitializeRaises, Begin, Turn, ParticipantTurn,
       EnvironmentTurn, StepRaises
  <2>4. CASE CheckTermination
    BY <2>1, <2>4 DEF CheckTermination, TimedOut
  <2>5. CASE Finalize \/ Finished \/ UNCHANGED vars
    BY <2>5 DEF Finalize, Finished, vars
  <2> QED BY <2>3, <2>4, <2>5 DEF Next
<1> QED BY <1>1, ReasonInvariance, PTL DEF Spec, ReasonSticky

-----------------------------------------------------------------------------
(* The trajectory of a stopped run can be replayed.                        *)

Entries == [role : Participants \cup {"TOOL"}, calls : 0 .. MaxCalls]

\* All but the last message of a trajectory are answered; the last one is not.
AwaitsAnswer(t, n) ==
    /\ Len(t) > 0 /\ t[Len(t)].calls = n /\ t[Len(t)].role # "TOOL"
    /\ \A i \in 1 .. Len(t) - 1 : \A k \in 1 .. t[i].calls :
          i + k \in 1 .. Len(t) - 1 /\ t[i + k].role = "TOOL"
    /\ \A i \in DOMAIN t : t[i].role = "TOOL" =>
          \E j \in 1 .. i - 1 : t[j].calls >= i - j

\* The inductive part: while the environment has the floor only the last message
\* is unanswered, and otherwise none is, but that of a solo agent that stopped in
\* its first message; a run that returns has nobody waiting for the environment
\* unless it ended with an error.
Recorded ==
    phase \in {"loop", "check", "returned"} =>
        /\ to_role = "ENV" => AwaitsAnswer(trajectory, message.calls)
        /\ to_role # "ENV" =>
             \/ Replayable(trajectory)
             \/ SoloMode /\ step_count = 0 /\ IsToolCall(message) /\ done /\ phase # "check"
        /\ phase = "returned" /\ to_role = "ENV" => termination_reason \in ErrorReasons

\* The entries of a trajectory.
LEMMA EntriesOf ==
    ASSUME NEW t \in Seq(Entries)
    PROVE  Len(t) \in Nat /\ DOMAIN t = 1 .. Len(t) /\ \A i \in 1 .. Len(t) : t[i].calls \in Nat
<1>1. Len(t) \in Nat /\ DOMAIN t = 1 .. Len(t) /\ \A i \in 1 .. Len(t) : t[i] \in Entries
  OBVIOUS
<1>2. \A e \in Entries : e.calls \in 0 .. MaxCalls
  BY DEF Entries
<1>3. 0 .. MaxCalls \subseteq Nat
  BY OrchestratorAssumption
<1> QED BY <1>1, <1>2, <1>3

\* What an action has to leave behind for Recorded.
LEMMA RecordedAgain ==
    ASSUME \/ phase' \notin {"loop", "check", "returned"}
           \/ /\ to_role' = "ENV" => AwaitsAnswer(trajectory', message'.calls)
              /\ to_role' # "ENV" =>
                   \/ Replayable(trajectory')
                   \/ setup'.solo_mode /\ step_count' = 0 /\ IsToolCall(message')
                        /\ done' /\ phase' # "check"
              /\ phase' = "returned" /\ to_role' = "ENV" => termination_reason' \in ErrorReasons
    PROVE  Recorded'
<1>1. Replayable(trajectory') => Replayable(trajectory)'
  BY Zenon DEF Replayable
<1>2. AwaitsAnswer(trajectory', message'.calls) => AwaitsAnswer(trajectory, message.calls)'
  BY Zenon DEF AwaitsAnswer
<1>3. setup'.solo_mode /\ IsToolCall(message') => SoloMode' /\ IsToolCall(message)'
  BY DEF SoloMode, IsToolCall
<1> QED BY <1>1, <1>2, <1>3 DEF Recorded

\* What a message without calls adds can be replayed.
LEMMA ReplayableAgain ==
    ASSUME NEW t \in Seq(Entries), NEW e \in Entries, Replayable(t), e.role # "TOOL", e.calls = 0
    PROVE  Replayable(Append(t, e))
<1> DEFINE u == Append(t, e)
<1>1. /\ Len(u) = Len(t) + 1 /\ DOMAIN u = 1 .. Len(t) + 1 /\ DOMAIN t = 1 .. Len(t)
      /\ u[Len(t) + 1] = e /\ \A i \in 1 .. Len(t) : u[i] = t[i]
      /\ Len(t) \in Nat /\ \A i \in 1 .. Len(t) : t[i].calls \in Nat
  BY EntriesOf
<1> HIDE DEF u
<1>2. ASSUME NEW i \in DOMAIN u, NEW k \in 1 .. u[i].calls
      PROVE  i + k \in DOMAIN u /\ u[i + k].role = "TOOL"
  <2>1. i \in 1 .. Len(t)
    BY <1>1
  <2>2. i + k \in 1 .. Len(t) /\ t[i + k].role = "TOOL"
    BY <1>1, <2>1 DEF Replayable
  <2> QED BY <1>1, <2>2
<1>3. ASSUME NEW i \in DOMAIN u, u[i].role = "TOOL"
      PROVE  \E j \in 1 .. i - 1 : u[j].calls >= i - j
  <2>1. i \in 1 .. Len(t) /\ t[i].role = "TOOL"
    BY <1>1, <1>3
  <2>2. PICK j \in 1 .. i - 1 : t[j].calls >= i - j
    BY <1>1, <2>1 DEF Replayable
  <2>3. u[j] = t[j]
    BY <1>1, <2>1
  <2> QED BY <2>2, <2>3
<1> QED BY <1>2, <1>3 DEF Replayable, u

\* A message with calls is now waiting for its answers.
LEMMA AwaitsAfterCall ==
    ASSUME NEW t \in Seq(Entries), NEW e \in Entries, Replayable(t), e.role # "TOOL"
    PROVE  AwaitsAnswer(Append(t, e), e.calls)
<1> DEFINE u == Append(t, e)
<1>1. /\ Len(u) = Len(t) + 1 /\ DOMAIN u = 1 .. Len(t) + 1 /\ DOMAIN t = 1 .. Len(t)
      /\ u[Len(t) + 1] = e /\ \A i \in 1 .. Len(t) : u[i] = t[i]
      /\ Len(t) \in Nat /\ \A i \in 1 .. Len(t) : t[i].calls \in Nat
  BY EntriesOf
<1> HIDE DEF u
<1>2. ASSUME NEW i \in 1 .. Len(u) - 1, NEW k \in 1 .. u[i].calls
      PROVE  i + k \in 1 .. Len(u) - 1 /\ u[i + k].role = "TOOL"
  <2>1. i \in 1 .. Len(t)
    BY <1>1
  <2>2. i + k \in 1 .. Len(t) /\ t[i + k].role = "TOOL"
    BY <1>1, <2>1 DEF Replayable
  <2> QED BY <1>1, <2>2
<1>3. ASSUME NEW i \in DOMAIN u, u[i].role = "TOOL"
      PROVE  \E j \in 1 .. i - 1 : u[j].calls >= i - j
  <2>1. i \in 1 .. Len(t) /\ t[i].role = "TOOL"
    BY <1>1, <1>3
  <2>2. PICK j \in 1 .. i - 1 : t[j].calls >= i - j
    BY <1>1, <2>1 DEF Replayable
  <2>3. u[j] = t[j]
    BY <1>1, <2>1
  <2> QED BY <2>2, <2>3
<1> QED BY <1>1, <1>2, <1>3 DEF AwaitsAnswer, u

\* The environment answers every call of the last message.
LEMMA AnswersComplete ==
    ASSUME NEW t \in Seq(Entries), NEW n \in 0 .. MaxCalls, AwaitsAnswer(t, n)
    PROVE  Replayable(t \o ToolEntries(n))
<1> DEFINE a == ToolEntries(n)
           u == t \o a
<1>1. /\ Len(a) = n /\ \A i \in 1 .. n : a[i].role = "TOOL" /\ a[i].calls = 0
      /\ n \in Nat /\ a \in Seq(Entries)
  <2>1. n \in Nat
    BY OrchestratorAssumption
  <2>2. a \in Seq(Entries)
    BY ToolEntriesFacts DEF Entries
  <2> QED BY <2>1, <2>2 DEF ToolEntries
<1>2. Len(t) \in Nat /\ DOMAIN t = 1 .. Len(t) /\ \A i \in 1 .. Len(t) : t[i].calls \in Nat
  BY EntriesOf
<1>3. /\ DOMAIN u = 1 .. Len(t) + n
      /\ \A i \in 1 .. Len(t) : u[i] = t[i]
      /\ \A i \in 1 .. Len(t) + n : i > Len(t) => u[i] = a[i - Len(t)]
  <2> HIDE DEF a
  <2> QED BY <1>1, <1>2
<1> HIDE DEF u, a
<1>4. \A i \in 1 .. Len(t) + n : i > Len(t) => u[i].role = "TOOL" /\ u[i].calls = 0
  BY <1>1, <1>2, <1>3
<1>5. ASSUME NEW i \in DOMAIN u, NEW k \in 1 .. u[i].calls
      PROVE  i + k \in DOMAIN u /\ u[i + k].role = "TOOL"
  <2>1. i \in 1 .. Len(t) /\ u[i] = t[i]
    BY <1>1, <1>2, <1>3, <1>4
  <2>2. CASE i = Len(t)
    BY <1>1, <1>2, <1>3, <1>4, <2>1, <2>2 DEF AwaitsAnswer
  <2>3. CASE i # Len(t)
    <3>1. i \in 1 .. Len(t) - 1
      BY <1>2, <2>1, <2>3
    <3>2. i + k \in 1 .. Len(t) - 1 /\ t[i + k].role = "TOOL"
      BY <2>1, <3>1 DEF AwaitsAnswer
    <3> QED BY <1>1, <1>2, <1>3, <3>2
  <2> QED BY <2>2, <2>3
<1>6. ASSUME NEW i \in DOMAIN u, u[i].role = "TOOL"
      PROVE  \E j \in 1 .. i - 1 : u[j].calls >= i - j
  <2>1. CASE i \in 1 .. Len(t)
    <3>1. PICK j \in 1 .. i - 1 : t[j].calls >= i - j
      BY <1>2, <1>3, <1>6, <2>1 DEF AwaitsAnswer
    <3>2. u[j] = t[j]
      BY <1>2, <1>3, <2>1
    <3> QED BY <3>1, <3>2
  <2>2. CASE i > Len(t)
    <3>1. Len(t) \in 1 .. i - 1 /\ u[Len(t)].calls = n /\ n >= i - Len(t)
      BY <1>1, <1>2, <1>3, <2>2 DEF AwaitsAnswer
    <3> QED BY <3>1
  <2> QED BY <1>2, <1>3, <2>1, <2>2
<1> QED BY <1>5, <1>6 DEF Replayable, u, a

\* A trajectory of one message.
LEMMA FirstEntry ==
    ASSUME NEW e \in Entries, e.role # "TOOL"
    PROVE  /\ e.calls = 0 => Replayable(<<e>>)
           /\ AwaitsAnswer(<<e>>, e.calls)
<1>1. <<>> \in Seq(Entries) /\ Replayable(<<>>)
  BY DEF Replayable
<1>2. Append(<<>>, e) = <<e>>
  OBVIOUS
<1> QED BY <1>1, <1>2, ReplayableAgain, AwaitsAfterCall

\* The messages of participants are entries.
LEMMA EntryFacts ==
    ASSUME NEW p \in Participants, NEW m \in Message
    PROVE  /\ Entry(p, m) \in Entries /\ Entry(p, m).role # "TOOL"
           /\ Entry(p, m).calls = m.calls /\ m.calls \in 0 .. MaxCalls
           /\ (~IsToolCall(m) <=> m.calls = 0)
  BY OrchestratorAssumption DEF Entry, Entries, Message, IsToolCall

\* Whatever a run is set up with begins recorded.
LEMMA RecordedBegin ==
    ASSUME TypeOK, Room, Initialize
    PROVE  Recorded'
<1>1. CASE InitializeFresh
  <2>1. /\ to_role' # "ENV" /\ phase' = "loop"
        /\ trajectory' = <<Entry("AGENT", PlainText)>>
    BY <1>1 DEF InitializeFresh, Begin
  <2>2. PlainText \in Message /\ ~IsToolCall(PlainText)
    BY MessageFacts DEF PlainText, IsToolCall
  <2>3. Replayable(trajectory')
    BY <2>1, <2>2, EntryFacts, FirstEntry
  <2> QED BY <2>1, <2>3, RecordedAgain
<1>2. CASE InitializeSolo
  <2>1. PICK m \in Utterances :
          Begin("AGENT",
                IF IsToolCall(m) /\ ~IsStop("AGENT", m) THEN "ENV" ELSE "USER",
                m, TurnReason("AGENT", m), <<Entry("AGENT", m)>>)
    BY <1>2 DEF InitializeSolo
  <2>2. /\ message' = m /\ phase' = "loop" /\ trajectory' = <<Entry("AGENT", m)>>
        /\ UNCHANGED <<setup, step_count>> /\ phase = "new"
        /\ done' = (TurnReason("AGENT", m) # "NONE")
        /\ to_role' = IF IsToolCall(m) /\ ~IsStop("AGENT", m) THEN "ENV" ELSE "USER"
    BY <2>1 DEF Begin
  <2>3. m \in Message /\ AwaitsAnswer(trajectory', m.calls)
        /\ (~IsToolCall(m) => Replayable(trajectory'))
    BY <2>2, MessageFacts, EntryFacts, FirstEntry
  <2>4. CASE to_role' = "ENV"
    BY <2>2, <2>3, <2>4, RecordedAgain
  <2>5. CASE to_role' # "ENV" /\ ~IsToolCall(m)
    BY <2>2, <2>3, <2>5, RecordedAgain
  <2>6. CASE to_role' # "ENV" /\ IsToolCall(m)
    <3>1. IsStop("AGENT", m)
      BY <2>2, <2>6
    <3>2. TurnReason("AGENT", m) # "NONE"
      BY <3>1 DEF TurnReason, StopReason, ErrorReason
    <3>3. setup'.solo_mode /\ step_count' = 0 /\ done'
      BY <1>2, <2>2, <3>2 DEF InitializeSolo, SoloMode, Room
    <3> QED BY <2>2, <2>6, <3>3, RecordedAgain
  <2> QED BY <2>4, <2>5, <2>6
<1>3. CASE InitializeAfterText
  <2>1. PICK p \in Participants, m \in Utterances :
          /\ ~IsToolCall(m) /\ to_role' = Other(p) /\ phase' = "loop"
          /\ trajectory' = <<Entry(p, m)>>
    BY <1>3 DEF InitializeAfterText, Begin
  <2>2. Replayable(trajectory')
    BY <2>1, MessageFacts, EntryFacts, FirstEntry
  <2> QED BY <2>1, <2>2, RecordedAgain DEF Other
<1>4. CASE InitializeAfterTool
  <2>1. PICK p \in Participants :
          /\ to_role' = p /\ phase' = "loop"
          /\ trajectory' = <<[role |-> p, calls |-> 1], [role |-> "TOOL", calls |-> 0]>>
    BY <1>4 DEF InitializeAfterTool, Begin
  <2>2. Replayable(trajectory')
    <3> DEFINE t == <<[role |-> p, calls |-> 1], [role |-> "TOOL", calls |-> 0]>>
    <3>1. /\ DOMAIN t = 1 .. 2 /\ t[1].calls = 1 /\ t[1].role = p
          /\ t[2].calls = 0 /\ t[2].role = "TOOL"
      OBVIOUS
    <3> HIDE DEF t
    <3>2. Replayable(t)
      BY <3>1 DEF Replayable
    <3> QED BY <2>1, <3>2 DEF t
  <2> QED BY <2>1, <2>2, RecordedAgain
<1>5. CASE InitializeRaises
  BY <1>5, RecordedAgain DEF InitializeRaises
<1> QED BY <1>1, <1>2, <1>3, <1>4, <1>5 DEF Initialize

\* The evaluator can replay the trajectory of a run that ended with a stop
\* (Environment.set_state, get_actions_from_messages), for all limits, setups and
\* messages, but for that of a solo agent that stops and calls tools in its first
\* message.
THEOREM StopsReplay == Spec => []StopIsReplayable
<1>1. Init => Recorded
  BY DEF Init, Recorded
<1>2. IInv /\ Recorded /\ [Next]_vars => Recorded'
  <2> SUFFICES ASSUME TypeOK, Room, Recorded, [Next]_vars PROVE Recorded'
    BY DEF IInv
  <2>0. trajectory \in Seq(Entries) /\ message \in Message
    BY DEF TypeOK, Entries
  <2>1. CASE Initialize
    BY <2>1, RecordedBegin
  <2>2. ASSUME NEW p \in Participants, ParticipantTurn(p) PROVE Recorded'
    <3>1. PICK m \in Utterances :
            /\ message' = m /\ to_role' = Receiver(p, m) /\ phase' = "check"
            /\ trajectory' = Append(trajectory, Entry(p, m))
      BY <2>2 DEF ParticipantTurn
    <3>2. phase = "loop" /\ ~done /\ to_role # "ENV"
      BY <2>2 DEF ParticipantTurn
    <3>3. Replayable(trajectory)
      BY <3>2 DEF Recorded
    <3>4. m \in Message /\ Entry(p, m) \in Entries /\ Entry(p, m).role # "TOOL"
          /\ Entry(p, m).calls = m.calls
      BY MessageFacts, EntryFacts
    <3>5. CASE IsToolCall(m)
      <4>1. to_role' = "ENV"
        BY <3>1, <3>5 DEF Receiver
      <4>2. AwaitsAnswer(trajectory', m.calls)
        BY <2>0, <3>1, <3>3, <3>4, AwaitsAfterCall
      <4> QED BY <3>1, <4>1, <4>2, RecordedAgain
    <3>6. CASE ~IsToolCall(m)
      <4>1. to_role' # "ENV"
        BY <3>1, <3>6 DEF Receiver, Other
      <4>2. Replayable(trajectory')
        BY <2>0, <3>1, <3>3, <3>4, <3>6, EntryFacts, ReplayableAgain
      <4> QED BY <3>1, <4>1, <4>2, RecordedAgain
    <3> QED BY <3>5, <3>6
  <2>3. CASE EnvironmentTurn
    <3>1. /\ phase = "loop" /\ to_role = "ENV" /\ phase' = "check"
          /\ to_role' \in Participants
          /\ trajectory' = trajectory \o ToolEntries(message.calls)
      BY <2>3 DEF EnvironmentTurn, AnswerTo
    <3>2. AwaitsAnswer(trajectory, message.calls) /\ message.calls \in 0 .. MaxCalls
      BY <2>0, <3>1 DEF Recorded, Message
    <3>3. Replayable(trajectory')
      BY <2>0, <3>1, <3>2, AnswersComplete
    <3> QED BY <3>1, <3>3, RecordedAgain
  <2>4. CASE StepRaises
    BY <2>4, RecordedAgain DEF StepRaises
  <2>5. CASE CheckTermination
    <3>1. /\ UNCHANGED <<setup, to_role, message, step_count, trajectory>>
          /\ phase = "check" /\ phase' = "loop"
      BY <2>5 DEF CheckTermination
    <3> QED BY <3>1, RecordedAgain DEF Recorded, SoloMode
  <2>6. CASE Finalize
    <3>1. /\ UNCHANGED <<setup, to_role, message, step_count, trajectory, done, termination_reason>>
          /\ phase = "loop" /\ phase' = IF FinalizeRefuses THEN "raised" ELSE "returned"
      BY <2>6 DEF Finalize
    <3> QED BY <3>1, RecordedAgain DEF Recorded, FinalizeRefuses, SoloMode
  <2>7. CASE UNCHANGED vars
    BY <2>7, RecordedAgain DEF vars, Recorded, SoloMode
  <2> QED BY <2>1, <2>2, <2>3, <2>4, <2>5, <2>6, <2>7 DEF Next, Turn, Finished
<1>3. Recorded => StopIsReplayable
  BY DEF Recorded, StopIsReplayable
<1> QED BY <1>1, <1>2, <1>3, Invariance, PTL DEF Spec
=============================================================================
