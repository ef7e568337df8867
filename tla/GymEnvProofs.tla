---------------------------- MODULE GymEnvProofs ----------------------------
(***************************************************************************)
(* Proofs about GymEnv, for any number of simulations and turns: the types,*)
(* the handshake of set_action and generate_next_message, that the         *)
(* simulations which a reset replaced stand still, and what calls return.  *)
(***************************************************************************)
EXTENDS GymEnv, TLAPS

-----------------------------------------------------------------------------
(* The inductive invariant.                                                *)

\* The counts and the event of a simulation by the place of its thread.  An
\* action is there from set_action until the thread takes it.
NoneThere(sim) == sim.next = NoAction /\ sim.given = sim.taken
OneThere(sim) == sim.next = sim.given /\ sim.given = sim.turn

Handshake(sim) ==
    /\ sim.last = sim.taken
    /\ sim.at \in {"none", "others", "storing", "signalling", "dead"} =>
         sim.finished /\ sim.taken = sim.turn /\ NoneThere(sim)
    /\ sim.at \in {"publishing", "waiting", "taking"} => sim.turn = sim.taken + 1
    /\ sim.at = "publishing" => ~sim.finished /\ NoneThere(sim)
    /\ sim.at = "waiting" => IF sim.finished THEN OneThere(sim) ELSE NoneThere(sim)
    /\ sim.at = "taking" => sim.finished /\ OneThere(sim)

\* A thread that cannot go on before the caller acts, and perhaps never.
Parked(sim) ==
    \/ sim.at \in {"publishing", "dead"}
    \/ sim.at = "waiting" /\ ~sim.finished

\* Where the simulations stand with respect to the caller.
Standing ==
    /\ \A g \in Simulations : g < current => Parked(sims[g])
    /\ \A g \in Simulations : g > current => sims[g].at = "none"
    /\ caller \notin {"idle", "joining"} => current # 0
    /\ caller = "joining" => current < MaxResets /\ ~done
    /\ current # 0 /\ caller # "polling" => Parked(Agent)
    /\ done => current # 0 /\ Agent.at = "dead"

TypedInv == TypeOK /\ \A g \in Simulations : Handshake(sims[g])
IInv == TypedInv /\ Standing

-----------------------------------------------------------------------------
(* Every step of a thread keeps the type and the handshake of its          *)
(* simulation.                                                             *)

\* A simulation that has not started is in order.
LEMMA StartHandshake == Unstarted \in Sim /\ Handshake(Unstarted)
  BY GymAssumption DEF Unstarted, Sim, Places, Handshake, NoneThere, NoAction, NoRun

\* A turn that starts.
LEMMA TurnHandshake ==
  ASSUME NEW sim \in Sim, Handshake(sim), sim.at = "others", sim.turn < MaxTurns,
         NEW new, new = [sim EXCEPT !.at = "publishing", !.turn = sim.turn + 1,
                                    !.finished = Asked(sim)]
  PROVE  new \in Sim /\ Handshake(new)
  <1>1. sim.turn + 1 \in 0..MaxTurns  BY GymAssumption DEF Sim
  <1>2. new \in Sim  BY <1>1 DEF Sim, Places, Asked
  <1>3. Handshake(new)  BY DEF Sim, Handshake, NoneThere, NoAction, Asked
  <1> QED  BY <1>2, <1>3

\* An observation that is published.
LEMMA PublishHandshake ==
  ASSUME NEW sim \in Sim, Handshake(sim), sim.at = "publishing",
         NEW new, new = [sim EXCEPT !.at = "waiting", !.observation = ObservationOf(sim)]
  PROVE  new \in Sim /\ Handshake(new)
  <1>1. sim.turn \in 0..MaxTurns + 1  BY GymAssumption DEF Sim
  <1>2. new \in Sim  BY <1>1 DEF Sim, Places, ObservationOf
  <1>3. Handshake(new)  BY DEF Sim, Handshake, NoneThere, OneThere
  <1> QED  BY <1>2, <1>3

\* A thread that wakes up, and one that takes the action.
LEMMA WakeHandshake ==
  ASSUME NEW sim \in Sim, Handshake(sim), sim.at = "waiting", sim.finished,
         NEW new, new = [sim EXCEPT !.at = "taking"]
  PROVE  new \in Sim /\ Handshake(new)
  BY DEF Sim, Places, Handshake, NoneThere, OneThere

\* Taking the action ends the turn it was meant for.
LEMMA TakeHandshake ==
  ASSUME NEW sim \in Sim, Handshake(sim), sim.at = "taking",
         NEW new, new = [sim EXCEPT !.at = "others", !.next = NoAction,
                                    !.taken = sim.taken + 1, !.last = sim.next]
  PROVE  new \in Sim /\ Handshake(new)
  <1>1. sim.taken + 1 = sim.turn /\ sim.next = sim.turn  BY DEF Sim, Handshake, OneThere
  <1>2. sim.turn \in 0..MaxTurns /\ NoAction \in 0..MaxTurns
    BY GymAssumption DEF Sim, NoAction
  <1>3. new = [sim EXCEPT !.at = "others", !.next = NoAction, !.taken = sim.turn,
                          !.last = sim.turn]
    BY <1>1
  <1>4. new \in Sim  BY <1>2, <1>3 DEF Sim, Places
  <1>5. Handshake(new)  BY <1>1, <1>3 DEF Sim, Handshake, NoneThere, OneThere, NoAction
  <1> QED  BY <1>4, <1>5

\* The end: only the place, the event, the observation and the result change.
LEMMA EndHandshake ==
  ASSUME NEW sim \in Sim, Handshake(sim),
         sim.at \in {"others", "storing", "signalling"},
         NEW where \in {"storing", "signalling", "dead"},
         NEW shown \in 0..MaxTurns + 1, NEW result \in 0..MaxResets,
         NEW new, new = [sim EXCEPT !.at = where, !.finished = TRUE,
                                    !.observation = shown, !.result = result]
  PROVE  new \in Sim /\ Handshake(new)
  <1>1. new \in Sim  BY DEF Sim, Places
  <1>2. Handshake(new)  BY DEF Sim, Handshake, NoneThere
  <1> QED  BY <1>1, <1>2

\* The caller's set_action.
LEMMA SetHandshake ==
  ASSUME NEW sim \in Sim, Handshake(sim), sim.at # "publishing", ~sim.finished,
         NEW new, new = [sim EXCEPT !.next = sim.given + 1, !.given = sim.given + 1,
                                    !.finished = TRUE]
  PROVE  new \in Sim /\ Handshake(new) /\ sim.at = "waiting"
  <1>1. sim.at = "waiting"  BY DEF Sim, Places, Handshake
  <1>2. sim.given + 1 = sim.turn  BY <1>1 DEF Sim, Handshake, NoneThere
  <1>3. new \in Sim  BY <1>2 DEF Sim
  <1>4. Handshake(new)  BY <1>1, <1>2 DEF Sim, Handshake, NoneThere, OneThere
  <1> QED  BY <1>1, <1>3, <1>4

\* A step that gives simulation g a good record keeps the types and handshakes.
LEMMA OneChanges ==
  ASSUME TypedInv, NEW g \in Simulations, NEW new, new \in Sim /\ Handshake(new),
         sims' = [sims EXCEPT ![g] = new]
  PROVE  /\ sims' \in [Simulations -> Sim]
         /\ \A h \in Simulations : Handshake(sims'[h])
  BY DEF TypedInv, TypeOK

\* A step of a thread keeps the types.
LEMMA ThreadTyped ==
  ASSUME TypedInv, NEW g \in Simulations, Thread(g)
  PROVE  TypedInv'
  <1> DEFINE sim == sims[g]
  <1>0. sim \in Sim /\ Handshake(sim)  BY DEF TypedInv, TypeOK
  <1>1. SUFFICES ASSUME NEW new, new \in Sim /\ Handshake(new),
                        sims' = [sims EXCEPT ![g] = new],
                        run' \in 0..MaxResets, done' \in BOOLEAN,
                        UNCHANGED <<caller, reply, current>>
                 PROVE  TypedInv'
    <2> USE DEF At, ThreadStep
    <2>a. run \in 0..MaxResets /\ done \in BOOLEAN /\ sim.result \in 0..MaxResets
          /\ sim.observation \in 0..MaxTurns + 1 /\ g \in 0..MaxResets
          /\ sim.turn + 1 \in 0..MaxTurns + 1 /\ 0 \in 0..MaxTurns + 1
      <3>1. sim.turn \in 0..MaxTurns  BY <1>0 DEF Sim
      <3>2. sim.turn + 1 \in 0..MaxTurns + 1 /\ 0 \in 0..MaxTurns + 1
        BY <3>1, GymAssumption
      <3>3. g \in 0..MaxResets  BY GymAssumption DEF Simulations
      <3> QED  BY <1>0, <3>2, <3>3 DEF TypedInv, TypeOK, Sim
    <2>1. CASE TurnStarts(g)  BY <1>0, <1>1, <2>1, <2>a, TurnHandshake DEF TurnStarts
    <2>2. CASE Publish(g)  BY <1>0, <1>1, <2>2, <2>a, PublishHandshake DEF Publish
    <2>3. CASE Wake(g)  BY <1>0, <1>1, <2>3, <2>a, WakeHandshake DEF Wake
    <2>4. CASE Take(g)  BY <1>0, <1>1, <2>4, <2>a, TakeHandshake DEF Take
    <2>5. CASE Finalizes(g)
      <3>1. PICK shown \in {0, sim.turn + 1} :
              sims' = [sims EXCEPT ![g] = [sim EXCEPT !.at = "storing", !.finished = TRUE,
                                             !.observation = shown, !.result = g]]
        BY <2>5 DEF Finalizes
      <3>2. LET new == [sim EXCEPT !.at = "storing", !.finished = TRUE,
                                   !.observation = shown, !.result = g]
            IN  new \in Sim /\ Handshake(new)
        BY <1>0, <2>5, <2>a, <3>1, EndHandshake DEF Finalizes
      <3> QED  BY <1>1, <2>5, <2>a, <3>1, <3>2 DEF Finalizes
    <2>6. CASE OrchestratorRaises(g)
      <3>1. sim.finished = TRUE  BY <1>0, <2>6 DEF Handshake, OrchestratorRaises, Sim
      <3>2. PICK shown \in {0, sim.observation} :
              sims' = [sims EXCEPT ![g] = [sim EXCEPT !.at = "storing", !.finished = TRUE,
                                             !.observation = shown, !.result = sim.result]]
        BY <1>0, <2>6, <3>1 DEF OrchestratorRaises, Sim
      <3>3. LET new == [sim EXCEPT !.at = "storing", !.finished = TRUE,
                                   !.observation = shown, !.result = sim.result]
            IN  new \in Sim /\ Handshake(new)
        BY <1>0, <2>6, <2>a, <3>2, EndHandshake DEF OrchestratorRaises
      <3> QED  BY <1>1, <2>6, <2>a, <3>2, <3>3 DEF OrchestratorRaises
    <2>7. CASE StoreRun(g) \/ SignalDone(g)
      <3>1. sim.finished = TRUE  BY <1>0, <2>7 DEF Handshake, StoreRun, SignalDone, Sim
      <3>2. PICK where \in {"signalling", "dead"} :
              sims' = [sims EXCEPT ![g] = [sim EXCEPT !.at = where, !.finished = TRUE,
                                             !.observation = sim.observation,
                                             !.result = sim.result]]
        BY <1>0, <2>7, <3>1 DEF StoreRun, SignalDone, Sim
      <3>3. LET new == [sim EXCEPT !.at = where, !.finished = TRUE,
                                   !.observation = sim.observation, !.result = sim.result]
            IN  new \in Sim /\ Handshake(new)
        BY <1>0, <2>7, <2>a, <3>2, EndHandshake DEF StoreRun, SignalDone
      <3>4. run' \in 0..MaxResets /\ done' \in BOOLEAN
        BY <2>7, <2>a DEF StoreRun, SignalDone, Stored
      <3> QED  BY <1>1, <2>7, <3>2, <3>3, <3>4 DEF StoreRun, SignalDone
    <2> QED  BY <2>1, <2>2, <2>3, <2>4, <2>5, <2>6, <2>7 DEF Thread
  <1>2. sims' \in [Simulations -> Sim] /\ \A h \in Simulations : Handshake(sims'[h])
    BY <1>1, OneChanges
  <1> QED  BY <1>1, <1>2 DEF TypedInv, TypeOK

-----------------------------------------------------------------------------
(* The calls.                                                              *)

\* A call starts with a well-typed reply, and the current simulation is one.
LEMMA ReplyTyped ==
  ASSUME TypedInv
  PROVE  /\ \A call \in {"none", "reset", "step", "unparsed"} :
              Started(call) \in [call : {"none", "reset", "step", "unparsed"},
                 raised : BOOLEAN, terminated : BOOLEAN,
                 observation : 0..MaxTurns + 1, run : 0..MaxResets]
         /\ current # 0 => current \in Simulations /\ Agent \in Sim /\ Handshake(Agent)
  <1>1. NoRun \in 0..MaxResets /\ 0 \in 0..MaxTurns + 1  BY GymAssumption DEF NoRun
  <1>2. current # 0 => current \in Simulations
    BY GymAssumption DEF TypedInv, TypeOK, Simulations
  <1> QED  BY <1>1, <1>2 DEF TypedInv, TypeOK, Started, Quiet, Agent

\* Calls that leave the simulations alone change only the reply, run and done.
LEMMA CallTyped ==
  ASSUME IInv,
         \/ ResetStart \/ StepUnready \/ StepAfterEnd \/ StepUnparsed \/ StepStart
         \/ ResetFails \/ ActionRefused \/ Poll \/ ReadDone \/ ReadObservation \/ Reward
  PROVE  TypedInv'
  <1>1. UNCHANGED sims
    BY DEF ResetStart, StepUnready, StepAfterEnd, StepUnparsed, StepStart, ResetFails,
           ActionRefused, Poll, ReadDone, ReadObservation, Reward
  <1>0. NoRun \in 0..MaxResets  BY GymAssumption DEF NoRun
  <1>2. current' \in 0..MaxResets /\ run' \in 0..MaxResets /\ done' \in BOOLEAN
        /\ caller' \in {"idle", "joining", "acting", "polling", "ending", "reading", "rewarding"}
    BY <1>0 DEF IInv, TypedInv, TypeOK, ResetStart, StepUnready, StepAfterEnd,
           StepUnparsed, StepStart, ResetFails, ActionRefused, Poll, ReadDone,
           ReadObservation, Reward, Return, Goes, Cleared
  <1>3. reply' \in [call : {"none", "reset", "step", "unparsed"}, raised : BOOLEAN,
                    terminated : BOOLEAN, observation : 0..MaxTurns + 1, run : 0..MaxResets]
    <2> USE ReplyTyped DEF IInv, TypedInv, TypeOK, Return, Goes
    <2>1. CASE ResetStart \/ StepStart \/ StepUnready
      BY <2>1 DEF ResetStart, StepStart, StepUnready
    <2>2. CASE StepAfterEnd \/ StepUnparsed  BY <2>2 DEF StepAfterEnd, StepUnparsed
    <2>3. CASE ResetFails \/ ActionRefused  BY <2>3 DEF ResetFails, ActionRefused
    <2>4. CASE Poll  BY <2>4 DEF Poll
    <2>5. CASE ReadDone
      <3>1. (reply.call = "step" /\ done) \in BOOLEAN  OBVIOUS
      <3>2. CASE reply.call = "reset" /\ done  BY <2>5, <3>2 DEF ReadDone
      <3>3. CASE ~(reply.call = "reset" /\ done)
        <4>1. reply' = [reply EXCEPT !.terminated = reply.call = "step" /\ done]
          BY <2>5, <3>3 DEF ReadDone
        <4> QED  BY <3>1, <4>1
      <3> QED  BY <3>2, <3>3
    <2>6. CASE ReadObservation
      <3>1. Agent.observation \in 0..MaxTurns + 1
        BY <2>6 DEF ReadObservation, Standing, Sim
      <3> QED  BY <2>6, <3>1 DEF ReadObservation
    <2>7. CASE Reward  BY <2>7 DEF Reward
    <2> QED  BY <2>1, <2>2, <2>3, <2>4, <2>5, <2>6, <2>7
  <1> QED  BY <1>1, <1>2, <1>3 DEF IInv, TypedInv, TypeOK

\* reset() starts a well-typed simulation.
LEMMA SpawnTyped ==
  ASSUME IInv, ResetSpawn
  PROVE  TypedInv'
  <1> DEFINE new == [Unstarted EXCEPT !.at = "others"]
  <1>1. current + 1 \in Simulations
    BY GymAssumption DEF IInv, TypedInv, TypeOK, Standing, ResetSpawn, Simulations
  <1>2. new \in Sim /\ Handshake(new)
    <2>1. new \in Sim  BY StartHandshake DEF Sim, Places
    <2>2. Handshake(new)
      BY StartHandshake DEF Unstarted, Handshake, NoneThere, NoAction
    <2> QED  BY <2>1, <2>2
  <1>3. sims' = [sims EXCEPT ![current + 1] = new]  BY DEF ResetSpawn
  <1>4. sims' \in [Simulations -> Sim] /\ \A h \in Simulations : Handshake(sims'[h])
    BY <1>1, <1>2, <1>3, OneChanges DEF IInv
  <1>5. current' \in 0..MaxResets
    BY <1>1, GymAssumption DEF ResetSpawn, Simulations
  <1> QED  BY <1>4, <1>5 DEF IInv, TypedInv, TypeOK, ResetSpawn, Goes

\* set_action leaves the simulation in order.
LEMMA SetTyped ==
  ASSUME IInv, SetAction
  PROVE  TypedInv'
  <1> DEFINE new == [Agent EXCEPT !.next = Agent.given + 1, !.given = Agent.given + 1,
                                  !.finished = TRUE]
  <1>1. current \in Simulations /\ Agent \in Sim /\ Handshake(Agent)
    BY ReplyTyped DEF IInv, Standing, SetAction
  <1>2. new \in Sim /\ Handshake(new)
    BY <1>1, SetHandshake DEF SetAction, AgentUnlocked, MaySet, IsAgentTurn
  <1>3. sims' = [sims EXCEPT ![current] = new]  BY DEF SetAction, Agent
  <1>4. sims' \in [Simulations -> Sim] /\ \A h \in Simulations : Handshake(sims'[h])
    BY <1>1, <1>2, <1>3, OneChanges DEF IInv
  <1> QED  BY <1>4 DEF IInv, TypedInv, TypeOK, SetAction, Goes

-----------------------------------------------------------------------------
(* Where the simulations stand.                                            *)

\* A parked thread of a replaced simulation has no step to take, and neither
\* has the current one unless it publishes or a call is polling.
LEMMA ThreadFacts ==
  ASSUME IInv, NEW g \in Simulations, Thread(g)
  PROVE  /\ sims \in [Simulations -> Sim] /\ current \in 0..MaxResets /\ g <= current
         /\ sims' = [sims EXCEPT ![g] = sims'[g]]
         /\ \A h \in Simulations : h # g => sims'[h] = sims[h]
         /\ sims[g].at # "none" /\ sims[g].at # "dead" /\ sims'[g].at # "none"
         /\ UNCHANGED <<caller, reply, current>>
         /\ Publish(g) \/ (g = current /\ caller = "polling")
  <1> USE DEF At, ThreadStep
  <1>1. sims[g] \in Sim /\ sims' = [sims EXCEPT ![g] = sims'[g]]
        /\ UNCHANGED <<caller, reply, current>>
        /\ sims \in [Simulations -> Sim] /\ current \in 0..MaxResets
    BY DEF IInv, TypedInv, TypeOK, Thread, TurnStarts, Publish, Wake, Take, Finalizes,
           OrchestratorRaises, StoreRun, SignalDone
  <1>2. sims[g].at # "none" /\ sims[g].at # "dead" /\ sims'[g].at # "none"
    <2>1. CASE TurnStarts(g) \/ Publish(g) \/ Wake(g)
      BY <1>1, <2>1 DEF TurnStarts, Publish, Wake, Sim
    <2>2. CASE Take(g) \/ StoreRun(g) \/ SignalDone(g)
      BY <1>1, <2>2 DEF Take, StoreRun, SignalDone, Sim
    <2>3. CASE Finalizes(g)  BY <1>1, <2>3 DEF Finalizes, Sim
    <2>4. CASE OrchestratorRaises(g)  BY <1>1, <2>4 DEF OrchestratorRaises, Sim
    <2> QED  BY <2>1, <2>2, <2>3, <2>4 DEF Thread
  <1>a. \A h \in Simulations : h # g => sims'[h] = sims[h]  BY <1>1
  <1>3. Parked(sims[g]) => Publish(g)
    BY DEF Parked, Thread, TurnStarts, Publish, Wake, Take, Finalizes,
           OrchestratorRaises, StoreRun, SignalDone
  <1>5. g <= current
    BY <1>1, <1>2 DEF IInv, Standing, Simulations
  <1>6. g < current => Publish(g)  BY <1>3 DEF IInv, Standing
  <1>7. g = current /\ caller # "polling" => Publish(g)
    BY <1>1, <1>3 DEF IInv, Standing, Simulations, Agent
  <1>8. Publish(g) \/ (g = current /\ caller = "polling")
    BY <1>1, <1>5, <1>6, <1>7 DEF Simulations
  <1> QED  BY <1>1, <1>2, <1>a, <1>5, <1>8

\* A step of a thread does not move a replaced one.
LEMMA ThreadStanding ==
  ASSUME IInv, NEW g \in Simulations, Thread(g)
  PROVE  Standing'
  <1> USE DEF At, ThreadStep
  <1>1. sims[g] \in Sim /\ sims' = [sims EXCEPT ![g] = sims'[g]]
        /\ UNCHANGED <<caller, reply, current>>
        /\ sims \in [Simulations -> Sim] /\ current \in 0..MaxResets
    BY ThreadFacts
  <1>2. sims[g].at # "none" /\ sims[g].at # "dead" /\ sims'[g].at # "none"
    BY ThreadFacts
  <1>a. \A h \in Simulations : h # g => sims'[h] = sims[h]  BY ThreadFacts
  <1>4. Publish(g) => Parked(sims'[g]) /\ UNCHANGED done
    <2> SUFFICES ASSUME Publish(g) PROVE Parked(sims'[g]) /\ UNCHANGED done
      OBVIOUS
    <2>1. ~sims[g].finished  BY DEF IInv, TypedInv, Handshake, Publish
    <2> QED  BY <1>1, <2>1 DEF Publish, Parked
  <1>5. g <= current  BY ThreadFacts
  <1>6. g < current => Publish(g)  BY <1>1, ThreadFacts DEF Simulations
  <1>7. g = current /\ caller # "polling" => Publish(g)  BY ThreadFacts
  <1>8. (\A h \in Simulations : h < current => Parked(sims[h]))'
    BY <1>1, <1>4, <1>6 DEF IInv, Standing
  <1>9. (\A h \in Simulations : h > current => sims[h].at = "none")'
    BY <1>1, <1>5, <1>a DEF IInv, Standing, Simulations
  <1>10. (current # 0 /\ caller # "polling" => Parked(Agent))'
    <2> SUFFICES ASSUME current # 0, caller # "polling" PROVE Parked(sims'[current])
      BY <1>1 DEF Agent, Parked
    <2>1. CASE g = current  BY <1>4, <1>7, <2>1
    <2>2. CASE g # current
      <3>1. current \in Simulations  BY <1>1 DEF Simulations
      <3>2. Parked(sims[current])  BY DEF IInv, Standing, Agent
      <3> QED  BY <1>a, <2>2, <3>1, <3>2
    <2> QED  BY <2>1, <2>2
  <1>11. (done => current # 0 /\ Agent.at = "dead")'
    <2>1. CASE SignalDone(g)
      <3>1. ~Publish(g)  BY <2>1 DEF Publish, SignalDone
      <3>2. g = current /\ g # 0  BY <1>1, <1>5, <1>6, <3>1 DEF Simulations
      <3> QED  BY <1>1, <2>1, <3>2 DEF SignalDone, Agent
    <2>2. CASE ~SignalDone(g)
      <3>1. UNCHANGED done
        BY <2>2 DEF Thread, TurnStarts, Publish, Wake, Take, Finalizes,
                    OrchestratorRaises, StoreRun
      <3>2. done => g # current  BY <1>2 DEF IInv, Standing, Agent
      <3>3. done => current \in Simulations /\ current # 0 /\ Agent.at = "dead"
        BY <1>1 DEF IInv, Standing, Simulations
      <3> QED  BY <1>1, <1>a, <3>1, <3>2, <3>3 DEF Agent
    <2> QED  BY <2>1, <2>2
  <1>12. (caller = "joining" => current < MaxResets /\ ~done)'
    <2>1. CASE SignalDone(g)
      <3>1. ~Publish(g)  BY <2>1 DEF Publish, SignalDone
      <3>2. caller = "polling"  BY <1>1, <1>5, <1>6, <1>7, <3>1 DEF Simulations
      <3> QED  BY <1>1, <3>2
    <2>2. CASE ~SignalDone(g)
      BY <1>1, <2>2 DEF IInv, Standing, Thread, TurnStarts, Publish, Wake, Take, Finalizes,
                        OrchestratorRaises, StoreRun
    <2> QED  BY <2>1, <2>2
  <1> QED  BY <1>1, <1>8, <1>9, <1>10, <1>11, <1>12 DEF IInv, Standing

\* The other steps of a call move no thread.
LEMMA CallStanding ==
  ASSUME IInv,
         \/ ResetStart \/ StepUnready \/ StepAfterEnd \/ StepUnparsed \/ StepStart
         \/ ResetFails \/ ActionRefused \/ ReadDone \/ ReadObservation \/ Reward
  PROVE  Standing'
  <1>1. UNCHANGED <<sims, current>> /\ (done' => done)
    BY DEF ResetStart, StepUnready, StepAfterEnd, StepUnparsed, StepStart, ResetFails,
           ActionRefused, ReadDone, ReadObservation, Reward, Cleared
  <1>2. caller # "polling" /\ caller' # "polling"
        /\ (caller' \notin {"idle", "joining"} => current # 0)
        /\ (caller' = "joining" => current < MaxResets /\ ~done')
    BY DEF IInv, Standing, ResetStart, StepUnready, StepAfterEnd, StepUnparsed, StepStart,
           ResetFails, ActionRefused, ReadDone, ReadObservation, Reward, Return, Cleared
  <1> QED  BY <1>1, <1>2 DEF IInv, Standing, Agent

\* When polling is over the current simulation is at the player's turn or over.
LEMMA PollStanding ==
  ASSUME IInv, Poll
  PROVE  Standing'
  <1>1. current # 0 /\ current \in Simulations /\ Agent \in Sim /\ Handshake(Agent)
    BY ReplyTyped DEF IInv, Standing, Poll
  <1>2. Parked(Agent)
    <2>1. CASE done  BY <2>1 DEF IInv, Standing, Parked
    <2>2. CASE IsAgentTurn
      BY <1>1, <2>2 DEF IsAgentTurn, Handshake, Parked, Sim, Places
    <2> QED  BY <2>1, <2>2 DEF Poll, PollOver
  <1> QED  BY <1>1, <1>2 DEF IInv, Standing, Poll, Goes, Agent

\* reset() only replaces a thread that is parked or dead.
LEMMA SpawnStanding ==
  ASSUME IInv, ResetSpawn
  PROVE  Standing'
  <1>1. current \in 0..MaxResets /\ current + 1 \in Simulations
        /\ sims \in [Simulations -> Sim] /\ current' = current + 1
        /\ caller = "joining" /\ caller' = "polling" /\ UNCHANGED done
        /\ (current # 0 => Parked(sims[current]))
    BY GymAssumption DEF IInv, TypedInv, TypeOK, Standing, ResetSpawn, Simulations, Goes, Agent
  <1>2. \A h \in Simulations : h # current + 1 => sims'[h] = sims[h]
    BY <1>1 DEF ResetSpawn
  <1>3. (\A h \in Simulations : h < current => Parked(sims[h]))'
    BY <1>1, <1>2 DEF IInv, Standing, Simulations
  <1>4. (\A h \in Simulations : h > current => sims[h].at = "none")'
    BY <1>1, <1>2 DEF IInv, Standing, Simulations
  <1>5. current' # 0  BY <1>1
  <1>6. ~done'  BY <1>1 DEF IInv, Standing
  <1> QED  BY <1>1, <1>3, <1>4, <1>5, <1>6 DEF Standing

\* set_action wakes the current thread, for which the call then polls.
LEMMA SetStanding ==
  ASSUME IInv, SetAction
  PROVE  Standing'
  <1>1. current # 0 /\ current \in Simulations /\ sims \in [Simulations -> Sim]
        /\ Agent \in Sim /\ Handshake(Agent)
    BY ReplyTyped DEF IInv, TypedInv, TypeOK, Standing, SetAction
  <1>2. caller' = "polling" /\ UNCHANGED <<current, done>>  BY DEF SetAction, Goes
  <1>3. Agent.at # "dead"
    BY <1>1, SetHandshake DEF SetAction, AgentUnlocked, MaySet, IsAgentTurn, Handshake
  <1>4. \A h \in Simulations : h # current => sims'[h] = sims[h]
    BY <1>1 DEF SetAction
  <1>5. (\A h \in Simulations : h < current => Parked(sims[h]))'
        /\ (\A h \in Simulations : h > current => sims[h].at = "none")'
    BY <1>1, <1>2, <1>4 DEF IInv, Standing, Simulations
  <1>6. ~done  BY <1>3 DEF IInv, Standing
  <1> QED  BY <1>1, <1>2, <1>5, <1>6 DEF Standing

-----------------------------------------------------------------------------
(* The theorems.                                                           *)

\* The invariant holds at the start.
LEMMA InitIInv == Init => IInv
  <1> SUFFICES ASSUME Init PROVE IInv  OBVIOUS
  <1>1. NoRun \in 0..MaxResets /\ 0 \in 0..MaxTurns + 1 /\ 0 \in 0..MaxResets
    BY GymAssumption DEF NoRun
  <1>2. TypedInv
    BY <1>1, StartHandshake DEF Init, TypedInv, TypeOK, Quiet
  <1>3. Standing
    BY DEF Init, Standing, Unstarted, Simulations
  <1> QED  BY <1>2, <1>3 DEF IInv

\* Every step keeps the invariant.
LEMMA NextIInv == IInv /\ [Next]_vars => IInv'
  <1> SUFFICES ASSUME IInv, [Next]_vars PROVE IInv'  OBVIOUS
  <1>1. CASE UNCHANGED vars
    BY <1>1 DEF vars, IInv, TypedInv, TypeOK, Standing, Agent
  <1>2. CASE \E g \in Simulations : Thread(g)
    BY <1>2, ThreadTyped, ThreadStanding DEF IInv
  <1>3. CASE ResetSpawn  BY <1>3, SpawnTyped, SpawnStanding DEF IInv
  <1>4. CASE SetAction  BY <1>4, SetTyped, SetStanding DEF IInv
  <1>5. CASE Poll  BY <1>5, CallTyped, PollStanding DEF IInv
  <1>6. CASE \/ ResetStart \/ StepUnready \/ StepAfterEnd \/ StepUnparsed \/ StepStart
            \/ ResetFails \/ ActionRefused \/ ReadDone \/ ReadObservation \/ Reward
    BY <1>6, CallTyped, CallStanding DEF IInv
  <1> QED  BY <1>1, <1>2, <1>3, <1>4, <1>5, <1>6 DEF Next, InCall

\* The invariant that the theorems rest on.
LEMMA Invariant == Spec => []IInv
  BY InitIInv, NextIInv, PTL DEF Spec

\* The variables keep their types, and no simulation gets more turns, or more
\* actions, than its orchestrator has steps.
THEOREM TypeCorrect == Spec => []TypeOK
  <1>1. IInv => TypeOK  BY DEF IInv, TypedInv
  <1> QED  BY Invariant, <1>1, PTL

\* set_action and generate_next_message pass every action on once, in order,
\* whatever the interleaving of the caller and the orchestrator's thread.
THEOREM HandshakeHolds == Spec => []ActionsTakenOnce
  <1>1. IInv => ActionsTakenOnce
    <2> SUFFICES ASSUME IInv, NEW g \in Simulations
                 PROVE  /\ sims[g].last = sims[g].taken
                        /\ sims[g].next = (IF sims[g].given = sims[g].taken
                                             THEN NoAction ELSE sims[g].given)
                        /\ sims[g].given \in {sims[g].taken, sims[g].taken + 1}
      BY DEF ActionsTakenOnce
    <2>1. sims[g] \in Sim /\ Handshake(sims[g])  BY DEF IInv, TypedInv, TypeOK
    <2> QED  BY <2>1 DEF Handshake, NoneThere, OneThere, Sim, Places
  <1> QED  BY Invariant, <1>1, PTL

\* A thread that a reset left behind never reaches the end of its simulation, so
\* it cannot end or reward the simulation that replaced it.
THEOREM ReplacedStill == Spec => []ReplacedStandStill
  <1>1. IInv => ReplacedStandStill  BY DEF IInv, Standing, Parked, ReplacedStandStill
  <1> QED  BY Invariant, <1>1, PTL

-----------------------------------------------------------------------------
(* What the calls return.                                                  *)

\* The observation by the place of the thread: that of the turn, except between
\* the signal and the assignment.
Shows(sim) ==
    /\ sim.at \in {"none", "others", "waiting", "taking"} => sim.observation = sim.turn
    /\ sim.at = "publishing" => sim.observation = sim.turn - 1

\* The run is there from before the end is signalled until a reset clears both.
RunThere ==
    run = IF current # 0 /\ (done \/ Agent.at = "signalling") THEN Agent.result ELSE NoRun

\* What is known of the reply while the call goes on.
ReplyHolds ==
    /\ caller # "idle" => ~reply.raised /\ reply.call \in {"reset", "step"}
    /\ caller = "acting" => reply.call = "step" /\ ~done
    /\ caller = "joining" => reply.call = "reset"
    /\ caller \in {"joining", "acting", "polling", "ending"} => reply.terminated = FALSE
    /\ caller \in {"polling", "ending", "reading", "rewarding"} =>
         (Agent.at = "dead" => done)
    /\ caller \in {"reading", "rewarding"} => reply.terminated = done
    /\ caller = "rewarding" /\ Agent.at # "dead" =>
         reply.observation \in {Agent.turn - 1, Agent.turn}
    /\ caller = "idle" /\ reply.call # "none" /\ reply.raised = FALSE => current # 0

Answers == EndComesWithRun /\ AtMostOneTurnOld /\ RefusedOnlyWhenForgotten

CallsInv ==
    /\ \A g \in Simulations : Shows(sims[g])
    /\ RunThere /\ ReplyHolds /\ Answers

\* A thread keeps its observation and the run that it leaves in order.
LEMMA ThreadShows ==
  ASSUME IInv, CallsInv, NEW g \in Simulations, Thread(g)
  PROVE  /\ \A h \in Simulations : Shows(sims'[h])
         /\ RunThere'
         /\ Publish(g) =>
              /\ UNCHANGED <<run, done>> /\ sims[g].at = "publishing"
              /\ sims'[g].at = "waiting" /\ sims'[g].turn = sims[g].turn
              /\ sims'[g].result = sims[g].result
         /\ sims'[g].at = "dead" => done'
  <1> USE DEF At, ThreadStep
  <1> DEFINE sim == sims[g]
  <1>0. /\ sim \in Sim /\ Shows(sim) /\ current \in 0..MaxResets
        /\ sims \in [Simulations -> Sim]
    BY ThreadFacts DEF CallsInv
  <1>1. /\ \A h \in Simulations : h # g => sims'[h] = sims[h]
        /\ UNCHANGED <<caller, reply, current>>
        /\ g \in Nat \ {0} /\ current \in Nat
        /\ Publish(g) \/ g = current
    BY <1>0, ThreadFacts, GymAssumption DEF Simulations
  <1>2. CASE TurnStarts(g) \/ Publish(g) \/ Wake(g) \/ Take(g)
    <2>1. /\ UNCHANGED <<run, done>> /\ sim.at \notin {"storing", "signalling", "dead"}
          /\ sims'[g].at \notin {"storing", "signalling", "dead"}
          /\ sims'[g].result = sim.result
      <3>1. CASE TurnStarts(g)  BY <1>0, <3>1 DEF TurnStarts, Sim
      <3>2. CASE Publish(g)  BY <1>0, <3>2 DEF Publish, Sim
      <3>3. CASE Wake(g)  BY <1>0, <3>3 DEF Wake, Sim
      <3>4. CASE Take(g)  BY <1>0, <3>4 DEF Take, Sim
      <3> QED  BY <1>2, <3>1, <3>2, <3>3, <3>4
    <2>2. Shows(sims'[g])
      <3>1. sim.turn \in Nat  BY <1>0, GymAssumption DEF Sim
      <3>2. CASE TurnStarts(g)  BY <1>0, <3>1, <3>2 DEF TurnStarts, Shows, Sim
      <3>3. CASE Publish(g)  BY <1>0, <3>3 DEF Publish, Shows, ObservationOf, Sim
      <3>4. CASE Wake(g)  BY <1>0, <3>4 DEF Wake, Shows, Sim
      <3>5. CASE Take(g)  BY <1>0, <3>5 DEF Take, Shows, Sim
      <3> QED  BY <1>2, <3>2, <3>3, <3>4, <3>5
    <2>3. Publish(g) => /\ sim.at = "publishing" /\ sims'[g].at = "waiting"
                        /\ sims'[g].turn = sim.turn
      BY <1>0 DEF Publish, Sim
    <2>4. RunThere'
      <3>1. CASE g = current
        BY <1>1, <2>1, <3>1 DEF CallsInv, RunThere, Agent
      <3>2. CASE g # current /\ current # 0
        <4>1. current \in Simulations  BY <1>0, <3>2 DEF Simulations
        <4> QED  BY <1>1, <2>1, <3>2, <4>1 DEF CallsInv, RunThere, Agent
      <3>3. CASE current = 0  BY <1>1, <2>1, <3>3 DEF CallsInv, RunThere
      <3> QED  BY <3>1, <3>2, <3>3
    <2> QED  BY <1>1, <2>1, <2>2, <2>3, <2>4 DEF CallsInv
  <1>3. CASE Finalizes(g) \/ OrchestratorRaises(g)
    <2>1. /\ UNCHANGED <<run, done>> /\ sim.at = "others" /\ sims'[g].at = "storing"
      <3>1. CASE Finalizes(g)
        <4>1. PICK shown \in {0, sim.turn + 1} :
                sims' = [sims EXCEPT ![g] = [sim EXCEPT !.at = "storing", !.finished = TRUE,
                                               !.observation = shown, !.result = g]]
          BY <3>1 DEF Finalizes
        <4> QED  BY <1>0, <3>1, <4>1 DEF Finalizes, Sim
      <3>2. CASE OrchestratorRaises(g)
        BY <1>0, <3>2 DEF OrchestratorRaises, Sim
      <3> QED  BY <1>3, <3>1, <3>2
    <2>2. g = current /\ ~Publish(g) /\ ~done
      BY <1>1, <2>1 DEF Publish, IInv, Standing, Agent
    <2>3. RunThere'  BY <1>1, <2>1, <2>2 DEF CallsInv, RunThere, Agent
    <2>4. Shows(sims'[g])  BY <2>1 DEF Shows
    <2> QED  BY <1>1, <2>1, <2>2, <2>3, <2>4 DEF CallsInv
  <1>4. CASE StoreRun(g)
    <2>1. /\ run' = sim.result /\ UNCHANGED done
          /\ sim.at = "storing" /\ sims'[g].at = "signalling" /\ sims'[g].result = sim.result
      BY <1>0, <1>4 DEF StoreRun, Stored, Sim
    <2>2. g = current /\ ~Publish(g)  BY <1>1, <2>1 DEF Publish
    <2>3. RunThere'  BY <1>1, <2>1, <2>2 DEF RunThere, Agent
    <2>4. Shows(sims'[g])  BY <2>1 DEF Shows
    <2> QED  BY <1>1, <2>1, <2>2, <2>3, <2>4 DEF CallsInv
  <1>5. CASE SignalDone(g)
    <2>1. /\ UNCHANGED run /\ done'
          /\ sim.at = "signalling" /\ sims'[g].at = "dead" /\ sims'[g].result = sim.result
      BY <1>0, <1>5 DEF SignalDone, Sim
    <2>2. g = current /\ ~Publish(g)  BY <1>1, <2>1 DEF Publish
    <2>3. RunThere'  BY <1>1, <2>1, <2>2 DEF CallsInv, RunThere, Agent
    <2>4. Shows(sims'[g])  BY <2>1 DEF Shows
    <2> QED  BY <1>1, <2>1, <2>2, <2>3, <2>4 DEF CallsInv
  <1> QED  BY <1>2, <1>3, <1>4, <1>5 DEF Thread

\* A thread leaves what calls return in order: outside of polling it can only
\* publish.
LEMMA ThreadAnswers ==
  ASSUME IInv, CallsInv, NEW g \in Simulations, Thread(g)
  PROVE  ReplyHolds' /\ Answers'
  <1>1. /\ UNCHANGED <<caller, reply, current>>
        /\ \A h \in Simulations : h # g => sims'[h] = sims[h]
        /\ Publish(g) \/ (g = current /\ caller = "polling")
        /\ current \in 0..MaxResets
    BY ThreadFacts
  <1>2. CASE Publish(g)
    <2>1. /\ UNCHANGED <<run, done>>
          /\ sims[g].at # "dead" /\ sims'[g].at # "dead"
          /\ sims'[g].turn = sims[g].turn /\ sims'[g].result = sims[g].result
      BY <1>2, ThreadShows
    <2>2. current # 0 =>
            /\ sims'[current].at = "dead" <=> sims[current].at = "dead"
            /\ sims'[current].turn = sims[current].turn
            /\ sims'[current].result = sims[current].result
      <3> SUFFICES ASSUME current # 0
                   PROVE  /\ sims'[current].at = "dead" <=> sims[current].at = "dead"
                          /\ sims'[current].turn = sims[current].turn
                          /\ sims'[current].result = sims[current].result
        OBVIOUS
      <3>1. current \in Simulations  BY <1>1, GymAssumption DEF Simulations
      <3> QED  BY <1>1, <2>1, <3>1
    <2>3. caller \notin {"idle", "joining"} => current # 0  BY DEF IInv, Standing
    <2>4. ReplyHolds'
      BY <1>1, <2>1, <2>2, <2>3 DEF CallsInv, ReplyHolds, Agent
    <2>5. reply.raised \in BOOLEAN /\ reply.terminated \in BOOLEAN
      BY DEF IInv, TypedInv, TypeOK
    <2>6. Answers'
      BY <1>1, <2>1, <2>2, <2>5 DEF CallsInv, ReplyHolds, Answers, EndComesWithRun,
         AtMostOneTurnOld, RefusedOnlyWhenForgotten, Agent
    <2> QED  BY <2>4, <2>6
  <1>3. CASE g = current /\ caller = "polling"
    <2>1. sims'[current].at = "dead" => done'  BY <1>3, ThreadShows
    <2>2. ReplyHolds'  BY <1>1, <1>3, <2>1 DEF CallsInv, ReplyHolds, Agent
    <2>3. Answers'
      BY <1>1, <1>3 DEF Answers, EndComesWithRun, AtMostOneTurnOld,
         RefusedOnlyWhenForgotten
    <2> QED  BY <2>2, <2>3
  <1> QED  BY <1>1, <1>2, <1>3

\* A caller who acts finds the end known: outside of polling a simulation that is
\* over has left its run, and the environment knows unless a reset forgot it.
LEMMA AgentShows ==
  ASSUME IInv, CallsInv, current # 0
  PROVE  /\ current \in Simulations /\ Agent \in Sim /\ Handshake(Agent) /\ Shows(Agent)
         /\ done => Agent.at = "dead" /\ run = Agent.result
         /\ ~done /\ Agent.at # "signalling" => run = NoRun
         /\ caller # "polling" => Parked(Agent) /\ Agent.at # "signalling"
  <1>1. current \in Simulations /\ Agent \in Sim /\ Handshake(Agent)
    BY ReplyTyped DEF IInv
  <1>2. Shows(Agent)  BY <1>1 DEF CallsInv, Agent
  <1> QED  BY <1>1, <1>2 DEF CallsInv, RunThere, IInv, Standing, Parked

\* The steps of a call that change neither the simulations, nor the run, nor
\* what is known of the end.
LEMMA CallAnswers ==
  ASSUME IInv, CallsInv,
         \/ StepUnready \/ StepAfterEnd \/ StepUnparsed \/ StepStart
         \/ ResetFails \/ ActionRefused \/ Poll \/ ReadDone \/ ReadObservation \/ Reward
  PROVE  CallsInv'
  <1>1. UNCHANGED <<sims, current, run, done>>
    BY DEF StepUnready, StepAfterEnd, StepUnparsed, StepStart, ResetFails,
           ActionRefused, Poll, ReadDone, ReadObservation, Reward
  <1>2. (\A g \in Simulations : Shows(sims[g]))' /\ RunThere'
    BY <1>1 DEF CallsInv, RunThere, Agent
  <1>t. /\ reply \in [call : {"none", "reset", "step", "unparsed"}, raised : BOOLEAN,
                  terminated : BOOLEAN, observation : 0..MaxTurns + 1, run : 0..MaxResets]
        /\ done \in BOOLEAN
        /\ caller \notin {"idle", "joining"} => current # 0
    BY DEF IInv, TypedInv, TypeOK, Standing
  <1>3. ReplyHolds' /\ Answers'
    <2> USE DEF Return, Goes, Started, Quiet
    <2>1. CASE StepUnready
      BY <1>1, <2>1 DEF StepUnready, ReplyHolds, Answers, EndComesWithRun,
         AtMostOneTurnOld, RefusedOnlyWhenForgotten
    <2>2. CASE StepAfterEnd
      BY <1>1, <2>2, AgentShows DEF StepAfterEnd, ReplyHolds, Answers, EndComesWithRun,
         AtMostOneTurnOld, RefusedOnlyWhenForgotten, Agent
    <2>3. CASE StepUnparsed
      BY <1>1, <2>3 DEF StepUnparsed, ReplyHolds, Answers, EndComesWithRun,
         AtMostOneTurnOld, RefusedOnlyWhenForgotten
    <2>4. CASE StepStart
      BY <1>1, <2>4 DEF StepStart, ReplyHolds, Answers, EndComesWithRun,
         AtMostOneTurnOld, RefusedOnlyWhenForgotten
    <2>5. CASE ResetFails
      <3>1. reply.call = "reset"  BY <2>5 DEF ResetFails, CallsInv, ReplyHolds
      <3> QED  BY <1>1, <1>t, <2>5, <3>1 DEF ResetFails, ReplyHolds, Answers,
         EndComesWithRun, AtMostOneTurnOld, RefusedOnlyWhenForgotten
    <2>6. CASE ActionRefused
      <3>1. current # 0 /\ reply.call = "step" /\ ~done
        BY <1>t, <2>6 DEF ActionRefused, CallsInv, ReplyHolds
      <3>2. Agent.finished /\ Agent.at # "publishing"
        BY <2>6 DEF ActionRefused, AgentUnlocked, MaySet, IsAgentTurn
      <3>3. Agent.at = "dead" /\ run = NoRun
        BY <2>6, <3>1, <3>2, AgentShows DEF ActionRefused, Parked
      <3> QED  BY <1>1, <1>t, <2>6, <3>1, <3>3 DEF ActionRefused, ReplyHolds, Answers,
         EndComesWithRun, AtMostOneTurnOld, RefusedOnlyWhenForgotten, Agent
    <2>7. CASE Poll
      BY <1>1, <2>7 DEF Poll, CallsInv, ReplyHolds, Answers, EndComesWithRun,
         AtMostOneTurnOld, RefusedOnlyWhenForgotten, Agent
    <2>8. CASE ReadDone
      <3>1. /\ ~reply.raised /\ reply.call \in {"reset", "step"}
            /\ reply.terminated = FALSE /\ (Agent.at = "dead" => done)
        BY <2>8 DEF ReadDone, CallsInv, ReplyHolds
      <3>2. current # 0 /\ (done => Agent.at = "dead")
        BY <1>t, <2>8, AgentShows DEF ReadDone
      <3>3. CASE reply.call = "reset" /\ done
        <4>1. caller' = "idle" /\ reply' = [reply EXCEPT !.run = run]
          BY <2>8, <3>3 DEF ReadDone
        <4> QED  BY <1>1, <1>t, <3>1, <3>2, <3>3, <4>1 DEF ReplyHolds, Answers,
           EndComesWithRun, AtMostOneTurnOld, RefusedOnlyWhenForgotten, Agent
      <3>4. CASE ~(reply.call = "reset" /\ done)
        <4>1. caller' = "reading"
              /\ reply' = [reply EXCEPT !.terminated = reply.call = "step" /\ done]
          BY <2>8, <3>4 DEF ReadDone
        <4>2. reply'.terminated = done /\ reply'.raised = reply.raised
              /\ reply'.call = reply.call
          BY <1>t, <3>1, <3>4, <4>1
        <4> QED  BY <1>1, <3>1, <4>1, <4>2 DEF ReplyHolds, Answers,
           EndComesWithRun, AtMostOneTurnOld, RefusedOnlyWhenForgotten, Agent
      <3> QED  BY <3>3, <3>4
    <2>9. CASE ReadObservation
      <3>1. current # 0 /\ Parked(Agent) /\ Agent \in Sim /\ Shows(Agent)
        BY <1>t, <2>9, AgentShows DEF ReadObservation
      <3>2. Agent.at # "dead" => Agent.observation \in {Agent.turn - 1, Agent.turn}
        BY <3>1 DEF Parked, Shows
      <3>3. caller' = "rewarding" /\ reply' = [reply EXCEPT !.observation = Agent.observation]
        BY <2>9 DEF ReadObservation
      <3>4. /\ reply'.observation = Agent.observation /\ reply'.raised = reply.raised
            /\ reply'.call = reply.call /\ reply'.terminated = reply.terminated
        BY <1>t, <3>3
      <3> QED  BY <1>1, <2>9, <3>2, <3>3, <3>4 DEF ReadObservation, CallsInv, ReplyHolds,
         Answers, EndComesWithRun, AtMostOneTurnOld, RefusedOnlyWhenForgotten, Agent
    <2>10. CASE Reward
      <3>1. /\ ~reply.raised /\ reply.call \in {"reset", "step"} /\ reply.terminated = done
            /\ (Agent.at = "dead" => done)
            /\ (Agent.at # "dead" => reply.observation \in {Agent.turn - 1, Agent.turn})
        BY <2>10 DEF Reward, CallsInv, ReplyHolds
      <3>2. /\ current # 0 /\ (done => Agent.at = "dead" /\ run = Agent.result)
            /\ (~done => run = NoRun)
        BY <1>t, <2>10, AgentShows DEF Reward
      <3>3. caller' = "idle" /\ reply' = [reply EXCEPT !.run = run]
        BY <2>10 DEF Reward
      <3>4. /\ reply'.run = run /\ reply'.observation = reply.observation
            /\ reply'.raised = reply.raised /\ reply'.call = reply.call
            /\ reply'.terminated = reply.terminated
        BY <1>t, <3>3
      <3> QED  BY <1>1, <3>1, <3>2, <3>3, <3>4 DEF ReplyHolds, Answers, EndComesWithRun,
         AtMostOneTurnOld, RefusedOnlyWhenForgotten, Agent
    <2> QED  BY <2>1, <2>2, <2>3, <2>4, <2>5, <2>6, <2>7, <2>8, <2>9, <2>10
  <1> QED  BY <1>2, <1>3 DEF CallsInv

\* The steps of a call that forget the end, start a simulation or set an action.
LEMMA ResetAnswers ==
  ASSUME IInv, CallsInv, ResetStart
  PROVE  CallsInv'
  <1>1. /\ UNCHANGED <<sims, current>> /\ run' = NoRun /\ ~done'
        /\ caller = "idle" /\ caller' = "joining" /\ reply' = Started("reset")
    BY DEF ResetStart, Cleared
  <1>2. RunThere'
    <2>1. CASE current = 0  BY <1>1, <2>1 DEF RunThere
    <2>2. CASE current # 0
      <3>1. Agent.at # "signalling"  BY <1>1, <2>2, AgentShows
      <3> QED  BY <1>1, <3>1 DEF RunThere, Agent
    <2> QED  BY <2>1, <2>2
  <1>3. ReplyHolds' /\ Answers'
    BY <1>1 DEF ReplyHolds, Started, Quiet, Answers, EndComesWithRun, AtMostOneTurnOld,
       RefusedOnlyWhenForgotten
  <1> QED  BY <1>1, <1>2, <1>3 DEF CallsInv

\* reset() begins to poll for a simulation that has shown nothing yet.
LEMMA SpawnAnswers ==
  ASSUME IInv, CallsInv, ResetSpawn
  PROVE  CallsInv'
  <1>1. /\ caller = "joining" /\ caller' = "polling" /\ UNCHANGED <<reply, run, done>>
        /\ current' = current + 1 /\ ~done
        /\ sims \in [Simulations -> Sim]
        /\ current \in Nat /\ current + 1 \in Simulations
        /\ sims' = [sims EXCEPT ![current + 1] = [Unstarted EXCEPT !.at = "others"]]
    BY GymAssumption DEF IInv, TypedInv, TypeOK, Standing, ResetSpawn, Simulations, Goes
  <1>2. sims'[current'] = [Unstarted EXCEPT !.at = "others"]  BY <1>1
  <1>3. sims'[current'].at = "others" /\ Shows(sims'[current'])
    BY <1>2 DEF Unstarted, Shows
  <1>4. (\A g \in Simulations : Shows(sims[g]))'
    BY <1>1, <1>3 DEF CallsInv
  <1>5. run = NoRun
    <2>1. CASE current = 0  BY <2>1 DEF CallsInv, RunThere
    <2>2. CASE current # 0  BY <1>1, <2>2, AgentShows
    <2> QED  BY <2>1, <2>2
  <1>6. RunThere'  BY <1>1, <1>3, <1>5 DEF RunThere, Agent
  <1>7. ReplyHolds' /\ Answers'
    BY <1>1, <1>3 DEF CallsInv, ReplyHolds, Answers, EndComesWithRun, AtMostOneTurnOld,
       RefusedOnlyWhenForgotten, Agent
  <1> QED  BY <1>4, <1>6, <1>7 DEF CallsInv

\* set_action begins to poll for the turn after the action.
LEMMA SetAnswers ==
  ASSUME IInv, CallsInv, SetAction
  PROVE  CallsInv'
  <1>1. /\ caller = "acting" /\ caller' = "polling"
        /\ UNCHANGED <<reply, run, done, current>> /\ current # 0
        /\ sims \in [Simulations -> Sim]
    BY DEF IInv, TypedInv, TypeOK, Standing, SetAction, Goes
  <1>2. current \in Simulations /\ Agent \in Sim /\ Handshake(Agent) /\ Shows(Agent)
    BY <1>1, AgentShows
  <1>3. Agent.at = "waiting"
    BY <1>2, SetHandshake DEF SetAction, AgentUnlocked, MaySet, IsAgentTurn
  <1>4. sims'[current] = [Agent EXCEPT !.next = Agent.given + 1, !.given = Agent.given + 1,
                                       !.finished = TRUE]
    BY <1>1, <1>2 DEF SetAction, Agent
  <1>5. /\ sims'[current].at = "waiting" /\ sims'[current].turn = Agent.turn
        /\ sims'[current].observation = Agent.observation
    BY <1>2, <1>3, <1>4 DEF Sim
  <1>6. Shows(sims'[current])  BY <1>2, <1>3, <1>5 DEF Shows
  <1>7. (\A g \in Simulations : Shows(sims[g]))'
    BY <1>1, <1>2, <1>6 DEF CallsInv, SetAction
  <1>8. ~done /\ run = NoRun
    BY <1>1, <1>3, AgentShows
  <1>9. RunThere'  BY <1>1, <1>5, <1>8 DEF RunThere, Agent
  <1>10. ReplyHolds' /\ Answers'
    BY <1>1, <1>5 DEF CallsInv, ReplyHolds, Answers, EndComesWithRun, AtMostOneTurnOld,
       RefusedOnlyWhenForgotten, Agent
  <1> QED  BY <1>7, <1>9, <1>10 DEF CallsInv

\* Nothing was answered at the start.
LEMMA InitCalls == Init => CallsInv
  BY DEF Init, CallsInv, Shows, Unstarted, RunThere, ReplyHolds, Quiet, Answers,
     EndComesWithRun, AtMostOneTurnOld, RefusedOnlyWhenForgotten

\* Every step keeps what is known of the calls.
LEMMA NextCalls == IInv /\ CallsInv /\ [Next]_vars => CallsInv'
  <1> SUFFICES ASSUME IInv, CallsInv, [Next]_vars PROVE CallsInv'  OBVIOUS
  <1>1. CASE UNCHANGED vars
    BY <1>1 DEF vars, CallsInv, RunThere, ReplyHolds, Answers, EndComesWithRun,
       AtMostOneTurnOld, RefusedOnlyWhenForgotten, Agent
  <1>2. CASE \E g \in Simulations : Thread(g)
    BY <1>2, ThreadShows, ThreadAnswers DEF CallsInv
  <1>3. CASE ResetStart  BY <1>3, ResetAnswers
  <1>4. CASE ResetSpawn  BY <1>4, SpawnAnswers
  <1>5. CASE SetAction  BY <1>5, SetAnswers
  <1>6. CASE \/ StepUnready \/ StepAfterEnd \/ StepUnparsed \/ StepStart
            \/ ResetFails \/ ActionRefused \/ Poll \/ ReadDone \/ ReadObservation \/ Reward
    BY <1>6, CallAnswers
  <1> QED  BY <1>1, <1>2, <1>3, <1>4, <1>5, <1>6 DEF Next, InCall

\* What is known of the calls holds throughout.
LEMMA CallsInvariant == Spec => []CallsInv
  BY InitCalls, NextCalls, Invariant, PTL DEF Spec

\* step() reports the end with the run of the current simulation, and only then,
\* however the thread's last steps fall between the caller's.
THEOREM EndHasRun == Spec => []EndComesWithRun
  <1>1. CallsInv => EndComesWithRun  BY DEF CallsInv, Answers
  <1> QED  BY CallsInvariant, <1>1, PTL

\* A call returns the history of the player's turn or of the one before, and
\* never that of a simulation which a reset replaced.
THEOREM ObservationFresh == Spec => []AtMostOneTurnOld
  <1>1. CallsInv => AtMostOneTurnOld  BY DEF CallsInv, Answers
  <1> QED  BY CallsInvariant, <1>1, PTL

\* set_action refuses only the caller whose failed reset wiped the end.
THEOREM RefusalForgotten == Spec => []RefusedOnlyWhenForgotten
  <1>1. CallsInv => RefusedOnlyWhenForgotten  BY DEF CallsInv, Answers
  <1> QED  BY CallsInvariant, <1>1, PTL

=============================================================================
