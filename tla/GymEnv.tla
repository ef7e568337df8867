------------------------------- MODULE GymEnv -------------------------------
(***************************************************************************)
(* AgentGymEnv and GymAgent (vendor/tau2-bench/src/tau2/gym/gym_agent.py): *)
(* a caller drives reset() and step() while the orchestrator of the        *)
(* current simulation runs in a thread of its own.  The two meet in the    *)
(* agent's event _agent_turn_finished, the environment's event             *)
(* _simulation_done and fields they both read without a common lock.       *)
(* UserGymEnv and GymUser are the same code with the other participant.    *)
(*                                                                         *)
(* Calls exclude each other by the environment's lock, so one caller       *)
(* stands for all of them.  A call is not interrupted from outside.        *)
(***************************************************************************)
EXTENDS Integers

CONSTANTS
    MaxResets,      \* bound of the model: simulations started
    MaxTurns        \* turns of the player in a simulation (max_steps)

ASSUME GymAssumption == MaxResets \in Nat \ {0} /\ MaxTurns \in Nat \ {0}

VARIABLES
    caller,     \* where the call in progress stands
    reply,      \* what it returns: the last call's reply while caller is idle
    current,    \* the simulation of _orchestrator, _agent and the thread
    run,        \* _simulation_run: the simulation it belongs to, or NoRun
    done,       \* _simulation_done
    sims        \* the simulations: their threads and their agents

vars == <<caller, reply, current, run, done, sims>>

NoRun == 0
NoAction == 0
Simulations == 1..MaxResets

(* A simulation: where its thread stands, how many turns the player was     *)
(* given, the agent's event (finished), the action waiting in _next_action, *)
(* the turn whose history _observation shows (0: nothing, turn + 1: the     *)
(* history at the end), how many actions were set and taken, the last one   *)
(* taken, and what the orchestrator returned.  Actions are numbered in the  *)
(* order in which they were set.                                            *)
Unstarted == [at |-> "none", turn |-> 0, finished |-> TRUE, next |-> NoAction,
              observation |-> 0, given |-> 0, taken |-> 0, last |-> NoAction,
              result |-> NoRun]

Quiet == [call |-> "none", raised |-> FALSE, terminated |-> FALSE,
          observation |-> 0, run |-> NoRun]
Started(call) == [Quiet EXCEPT !.call = call]

Agent == sims[current]
IsAgentTurn == ~Agent.finished

Init ==
    /\ caller = "idle" /\ reply = Quiet
    /\ current = 0
    /\ run = NoRun /\ done = FALSE
    /\ sims = [g \in Simulations |-> Unstarted]

-----------------------------------------------------------------------------
(* The thread of simulation g: run() of the orchestrator in which the agent *)
(* is a GymAgent.                                                           *)

At(g, where) == g \in Simulations /\ sims[g].at = where
ThreadStep(g, changed) ==
    /\ sims' = [sims EXCEPT ![g] = changed]
    /\ UNCHANGED <<caller, reply, current>>

\* generate_next_message takes the agent's lock and clears the event: from
\* here on it is the agent's turn for whoever asks.
AskedUnclear(sim) == sim.finished       \* mutated: the event is not cleared
Asked(sim) == FALSE
TurnStarts(g) ==
    /\ At(g, "others") /\ sims[g].turn < MaxTurns
    /\ ThreadStep(g, [sims[g] EXCEPT !.at = "publishing", !.turn = @ + 1,
                                     !.finished = Asked(sims[g])])
    /\ UNCHANGED <<run, done>>

\* It extends the history, sets the observation and releases the lock.
ObservationOfEnd(sim) == 0              \* mutated: the history is not copied
ObservationOf(sim) == sim.turn
Publish(g) ==
    /\ At(g, "publishing")
    /\ ThreadStep(g, [sims[g] EXCEPT !.at = "waiting",
                                     !.observation = ObservationOf(sims[g])])
    /\ UNCHANGED <<run, done>>

\* It waits for the event.
Wake(g) ==
    /\ At(g, "waiting") /\ sims[g].finished
    /\ ThreadStep(g, [sims[g] EXCEPT !.at = "taking"])
    /\ UNCHANGED <<run, done>>

\* It takes the action and answers the orchestrator with it.
Take(g) ==
    /\ At(g, "taking")
    /\ ThreadStep(g, [sims[g] EXCEPT !.at = "others", !.next = NoAction,
                                     !.taken = @ + 1, !.last = sims[g].next])
    /\ UNCHANGED <<run, done>>

\* The simulation ends while the others act.  The orchestrator finalizes: the
\* agent gets the last message if it was for the agent.  Or it raises: the
\* clean-up stops the agent without one, except in initialize().
Finalizes(g) ==
    /\ At(g, "others")
    /\ \E shown \in {0, sims[g].turn + 1} :
         ThreadStep(g, [sims[g] EXCEPT !.at = "storing", !.finished = TRUE,
                                       !.observation = shown, !.result = g])
    /\ UNCHANGED <<run, done>>

OrchestratorRaises(g) ==
    /\ At(g, "others")
    /\ \/ ThreadStep(g, [sims[g] EXCEPT !.at = "storing", !.finished = TRUE,
                                        !.observation = 0])
       \/ /\ sims[g].turn < 2
          /\ ThreadStep(g, [sims[g] EXCEPT !.at = "storing"])
    /\ UNCHANGED <<run, done>>

\* _run_orchestrator stores the run, then reports the end.
StoredNothing(g) == run                 \* mutated: the run is not stored
Stored(g) == sims[g].result
StoreRun(g) ==
    /\ At(g, "storing")
    /\ run' = Stored(g)
    /\ ThreadStep(g, [sims[g] EXCEPT !.at = "signalling"])
    /\ UNCHANGED done

SignalDone(g) ==
    /\ At(g, "signalling")
    /\ done' = TRUE
    /\ ThreadStep(g, [sims[g] EXCEPT !.at = "dead"])
    /\ UNCHANGED run

Thread(g) ==
    \/ TurnStarts(g) \/ Publish(g) \/ Wake(g) \/ Take(g)
    \/ Finalizes(g) \/ OrchestratorRaises(g) \/ StoreRun(g) \/ SignalDone(g)

-----------------------------------------------------------------------------
(* The calls.                                                              *)

Return(answer) ==
    /\ caller' = "idle"
    /\ reply' = answer
Goes(where) == caller' = where /\ UNCHANGED reply

\* reset() forgets the last run and its end ...
Cleared == FALSE
ResetStart ==
    /\ caller = "idle" /\ current < MaxResets
    /\ caller' = "joining" /\ reply' = Started("reset")
    /\ run' = NoRun /\ done' = Cleared
    /\ UNCHANGED <<current, sims>>

\* ... waits at most a second for the previous thread, which changes nothing,
\* and starts the orchestrator of a new simulation ...
ResetSpawn ==
    /\ caller = "joining"
    /\ current' = current + 1
    /\ sims' = [sims EXCEPT ![current + 1] = [Unstarted EXCEPT !.at = "others"]]
    /\ Goes("polling")
    /\ UNCHANGED <<run, done>>

\* ... unless building it raises: the previous one stays in place.
ResetFails ==
    /\ caller = "joining"
    /\ Return([reply EXCEPT !.raised = TRUE])
    /\ UNCHANGED <<current, run, done, sims>>

\* step() before reset() raises; after the end it returns the end again; with
\* an action it cannot parse it returns at once.
StepUnready ==
    /\ caller = "idle" /\ current = 0
    /\ Return([Started("step") EXCEPT !.raised = TRUE])
    /\ UNCHANGED <<current, run, done, sims>>

StepAfterEnd ==
    /\ caller = "idle" /\ current # 0 /\ done
    /\ Return([Started("step") EXCEPT !.terminated = TRUE, !.run = run])
    /\ UNCHANGED <<current, run, done, sims>>

StepUnparsed ==
    /\ caller = "idle" /\ current # 0 /\ ~done
    /\ Return([Started("unparsed") EXCEPT !.run = run])
    /\ UNCHANGED <<current, run, done, sims>>

StepStart ==
    /\ caller = "idle" /\ current # 0 /\ ~done
    /\ caller' = "acting" /\ reply' = Started("step")
    /\ UNCHANGED <<current, run, done, sims>>

\* set_action, under the agent's lock: the action is left for the thread if it
\* is the agent's turn, and refused if not.
AgentUnlocked == Agent.at # "publishing"
MaySetAlways == TRUE                    \* mutated: the turn is not checked
MaySet == IsAgentTurn
SetAction ==
    /\ caller = "acting" /\ AgentUnlocked /\ MaySet
    /\ sims' = [sims EXCEPT ![current] =
                 [@ EXCEPT !.next = Agent.given + 1, !.given = Agent.given + 1,
                           !.finished = TRUE]]
    /\ Goes("polling")
    /\ UNCHANGED <<current, run, done>>

ActionRefused ==
    /\ caller = "acting" /\ AgentUnlocked /\ ~MaySet
    /\ Return([reply EXCEPT !.raised = TRUE])
    /\ UNCHANGED <<current, run, done, sims>>

\* Both calls poll until the simulation is done or it is the agent's turn.
PollOver == done \/ IsAgentTurn
Poll ==
    /\ caller = "polling" /\ PollOver
    /\ Goes("ending")
    /\ UNCHANGED <<current, run, done, sims>>

\* Then they look whether it is done.  A reset of which the simulation ended
\* immediately returns an empty observation, and the run in its info.
ReadDone ==
    /\ caller = "ending"
    /\ IF reply.call = "reset" /\ done
         THEN Return([reply EXCEPT !.run = run])
         ELSE /\ caller' = "reading"
              /\ reply' = [reply EXCEPT !.terminated =
                             reply.call = "step" /\ done]
    /\ UNCHANGED <<current, run, done, sims>>

\* They read the agent's observation, which takes no lock.
ReadObservation ==
    /\ caller = "reading"
    /\ caller' = "rewarding"
    /\ reply' = [reply EXCEPT !.observation = Agent.observation]
    /\ UNCHANGED <<current, run, done, sims>>

\* The reward and the info are those of the run that is there by now.
Reward ==
    /\ caller = "rewarding"
    /\ Return([reply EXCEPT !.run = run])
    /\ UNCHANGED <<current, run, done, sims>>

InCall ==
    \/ ResetSpawn \/ ResetFails \/ SetAction \/ ActionRefused
    \/ Poll \/ ReadDone \/ ReadObservation \/ Reward

Next ==
    \/ ResetStart \/ StepUnready \/ StepAfterEnd \/ StepUnparsed \/ StepStart
    \/ InCall
    \/ \E g \in Simulations : Thread(g)

Spec == Init /\ [][Next]_vars

(* Calls run on, and so does every thread: the participants and tools the   *)
(* orchestrator calls return or raise.  The caller may stop calling.        *)
Fairness == WF_vars(InCall) /\ \A g \in Simulations : WF_vars(Thread(g))
FairSpec == Spec /\ Fairness

-----------------------------------------------------------------------------
(* Properties.                                                             *)

Places == {"none", "others", "publishing", "waiting", "taking", "storing",
           "signalling", "dead"}
Sim == [at : Places, turn : 0..MaxTurns, finished : BOOLEAN, next : 0..MaxTurns,
        observation : 0..MaxTurns + 1, given : 0..MaxTurns, taken : 0..MaxTurns,
        last : 0..MaxTurns, result : 0..MaxResets]

\* Types of the variables: as many turns, actions and simulations as allowed.
TypeOK ==
    /\ caller \in {"idle", "joining", "acting", "polling", "ending", "reading", "rewarding"}
    /\ reply \in [call : {"none", "reset", "step", "unparsed"}, raised : BOOLEAN,
                  terminated : BOOLEAN, observation : 0..MaxTurns + 1, run : 0..MaxResets]
    /\ current \in 0..MaxResets
    /\ run \in 0..MaxResets /\ done \in BOOLEAN
    /\ sims \in [Simulations -> Sim]

\* The handshake loses and repeats no action: the thread takes the actions in
\* the order they were set, each once and never before one is there, and none
\* is set before the previous one was taken (set_action, generate_next_message).
ActionsTakenOnce ==
    \A g \in Simulations : LET sim == sims[g] IN
        /\ sim.last = sim.taken
        /\ sim.next = (IF sim.given = sim.taken THEN NoAction ELSE sim.given)
        /\ sim.given \in {sim.taken, sim.taken + 1}

\* A simulation that a reset replaced stands still at the player's turn or is
\* over: it never ends, or leaves its run in, the environment of its successor
\* (reset joins the previous thread with a timeout and continues anyway).
ReplacedStandStill ==
    \A g \in Simulations : g < current => sims[g].at \in {"publishing", "waiting", "dead"}

\* step() reports the end exactly with the end's run: terminated comes with the
\* run of the current simulation, or without one if its orchestrator raised, and
\* an unfinished simulation is never rewarded.
EndComesWithRun ==
    caller = "idle" /\ reply.call = "step" /\ ~reply.raised =>
        IF reply.terminated
          THEN Agent.at = "dead" /\ reply.run = Agent.result
          ELSE Agent.at # "dead" /\ reply.run = NoRun

\* What a call returns during the simulation is the history of this turn of the
\* player or of the previous one, never of another simulation.
AtMostOneTurnOld ==
    caller = "idle" /\ reply.call \in {"reset", "step"} /\ ~reply.raised
                    /\ ~reply.terminated /\ Agent.at # "dead" =>
        reply.observation \in {Agent.turn - 1, Agent.turn}

\* step() raises "It is not the agent's turn to act" only where a reset that
\* failed has wiped the end of the current simulation.
RefusedOnlyWhenForgotten ==
    caller = "idle" /\ reply.call = "step" /\ reply.raised /\ current # 0 =>
        Agent.at = "dead" /\ run = NoRun

\* Every call returns: the agent is asked again, or the end is signalled even if
\* the orchestrator raises (the finally of _run_orchestrator).
CallsReturn == caller # "idle" ~> caller = "idle"
=============================================================================
