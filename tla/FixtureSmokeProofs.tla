---------------------------- MODULE FixtureSmokeProofs ----------------------------
(***************************************************************************)
(* Proofs about FixtureSmoke: the types, that the graph stays one piece    *)
(* with the log, that the dry run accepts its three files only as they     *)
(* were written, and that every script ends as SmokeContract promises.     *)
(*                                                                         *)
(* Acceptance is followed from the emission to the final state: the log is *)
(* numbered and its first events are known, the packets are made from it,  *)
(* damages bring nothing new into a file but a few values, and what the    *)
(* validators then let pass has none of them and is in the old order.      *)
(***************************************************************************)
EXTENDS FixtureSmoke, SequenceTheorems, WellFoundedInduction, TLAPS

-----------------------------------------------------------------------------
(* The invariant.                                                          *)

\* The statements before final_state.json is written, and those after it.
Unwritten ==
    Emissions \cup {"begin", "early", "derive", "pack", "read", "diff", "validate", "vendor",
                    "final"}
Written == {"early.raw", "early.summary", "summary", "raw", "print"}

\* The statements of the dry run's own part, the last of which others have too.
DryRunPart == {"read", "diff", "validate", "vendor"}
Planning == pc \in DryRunPart \/ (pc = "final" /\ script = "dryrun")

\* What has been written and printed at each statement.
EndInv ==
    /\ pc \in Unwritten \cup Written \cup {"raise", "done", "killed"}
    /\ script \in Scripts /\ symbols \in BOOLEAN
    /\ pc = "pack" => HasPackets
    /\ pc \in DryRunPart => script = "dryrun"
    /\ pc \in Unwritten => final = Absent
    /\ pc \in Written => final \in PassStates \cup Failures
    /\ final \in PassStates \cup Failures \cup {Absent}
    /\ pc # "done" => exit = 2
    /\ exit \in 0..2 /\ (pc = "done" => exit # 2)

\* The events emitted, and the ids that main() holds of them.
EmitInv ==
    /\ turn \in DOMAIN Transcript
    /\ held \in [Names -> 0..Len(log)] /\ held["none"] = None
    /\ log \in Seq(EventType)
    /\ \A i \in DOMAIN log : log[i].id = i /\ log[i].parent < i
    /\ pc \in Emissions \cup {"begin", "derive", "pack"} => lines = log

\* The statements that are passed once, in this order, before the first turn.
Opening == <<"run.started", "cli.config_inspected", "batch.started", "task.started",
             "orchestrator.initialized", "initial.snapshot">>

\* Where the events stand that a dry run forks at.
OrderInv ==
    /\ pc = "begin" => log = <<>>
    /\ \A k \in 1..6 : pc = Opening[k] => Len(log) = k - 1
    /\ pc \in Emissions /\ (\A k \in 1..6 : pc # Opening[k]) => Len(log) >= 6
    /\ pc \in Emissions \ {"results.persisted", "run.completed"} =>
         \A i \in DOMAIN log : log[i].type # "evaluation.completed"
    /\ \A i \in DOMAIN log :
         /\ log[i].type = "run.started" => i = 1
         /\ log[i].type = "task.started" => i = 4
         /\ log[i].type = "tool.dispatch_requested" => i > 6
         /\ log[i].type = "evaluation.completed" =>
              \A j \in DOMAIN log : log[j].type = "tool.dispatch_requested" => j < i

Elements(s) == {s[i] : i \in DOMAIN s}

\* One packet per event, each with the hash of the one before it.
PacketsInv ==
    /\ built \in Seq(Elements(built))
    /\ Len(built) <= Len(log)
    /\ \A i \in DOMAIN built :
         i \in DOMAIN log /\ built[i] = Packet(i - 1, log[i], PreviousHash(built, i))
    /\ pc = "pack" => trace = Exported(log, nodes, edges)

\* What damages can make of an event, in events.jsonl and in the projection,
\* and of a packet.  The place in the file may be any.
LineOf(e) ==
    [id : {e.id}, parent : Nat, type : {e.type, "damaged"}, component : {e.component},
     task : {e.task}, turn : {e.turn}, role : {e.role}, tool : {e.tool}, state : {e.state},
     claim : {e.claim, "damaged"}]
LoggedOf(e) ==
    [id : {e.id}, parent : {e.parent}, type : {e.type}, component : {e.component},
     task : {e.task}, turn : {e.turn}, role : {e.role}, tool : {e.tool}, state : {e.state},
     claim : {e.claim, "altered"}]
PacketOf(p) ==
    [id : {p.id}, index : {p.index}, event : {p.event},
     previous : {p.previous, <<"damaged">>}, safe : BOOLEAN,
     body : {p.body, <<"damaged">>}, hash : {p.hash, <<"damaged">>}]

LinesOf == UNION {LineOf(log[i]) : i \in DOMAIN log}
LoggedLinesOf == UNION {LoggedOf(log[i]) : i \in DOMAIN log}
PacketsOf == UNION {PacketOf(built[i]) : i \in DOMAIN built}

TraceFields == {"event_log", "counts", "nodes", "edges", "safe"}

\* What the dry run has read and planned at each of its statements.
DryRunInv ==
    /\ Planning =>
         /\ Len(log) = Expected /\ Len(built) = Expected
         /\ lines \in Seq(LinesOf)
         /\ packets \in Seq(PacketsOf)
         /\ DOMAIN trace = TraceFields /\ trace.event_log \in Seq(LoggedLinesOf)
    /\ DOMAIN plans = {"replay", "forks", "diff"}
    /\ Planning /\ pc # "read" =>
         /\ ~PlanRaises(lines, packets)
         /\ plans.replay = ReplayPlan(lines, packets)
         /\ plans.forks = ForkPlan(lines, packets)
    /\ Planning /\ pc \notin {"read", "diff"} =>
         plans.diff = DiffReport(lines, packets, plans.forks)
    /\ Planning /\ pc \notin {"read", "diff", "validate"} =>
         errors = TraceErrors(lines, Expected) \cup GraphErrors(trace, lines)
                    \cup ChainErrors(packets, lines, Expected)
                    \cup PlanErrors(plans.replay, plans.forks, Decisions(plans.forks), lines,
                                    packets)

\* What nothing above depends on.
SettingInv ==
    /\ upstream \in BOOLEAN /\ runtime \in BOOLEAN
    /\ faults \in 0..MaxFaults
    /\ vendor \in {"unknown", "clean", "dirty"}

Inv ==
    /\ SettingInv /\ EndInv /\ EmitInv /\ GraphFaithful /\ OrderInv
    /\ PacketsInv /\ DryRunInv /\ AcceptedOnlyAsWritten

-----------------------------------------------------------------------------
(* The statements.                                                         *)

\* Every emission passes the id of an emission before it, or none.
LEMMA ParentNamed == \A at \in Emissions : ParentName[at] \in Names
  BY DEF ParentName, Names, Emissions

\* What an emission writes of itself.
LEMMA Described ==
  ASSUME NEW at \in Emissions
  PROVE  StateOf(at) \in {"initial", "final", Absent}
  BY DEF StateOf

\* What is claimed and what is written in the end is one of the states there are.
LEMMA States ==
  ASSUME script \in Scripts
  PROVE  /\ Claim \in PassStates \cup Failures
         /\ PacketState \in PassStates \cup Failures
         /\ DryRunState \in PassStates \cup Failures
<1>1. Claim \in PassStates \cup Failures
  BY DEF Scripts, Claim, PassOf, StoreStatus, PassStates, Failures, TracePass, PacketPass,
         DryRunPass
<1>2. PacketState \in PassStates \cup Failures /\ DryRunState \in PassStates \cup Failures
  BY DEF PacketState, DryRunState, PassStates, Failures
<1> QED BY <1>1, <1>2

\* Only the dry run passes as a dry run, and a state is never the absence of one.
LEMMA StatesApart ==
  /\ Absent \notin PassStates \cup Failures
  /\ script \in Scripts /\ script # "dryrun" => Claim # DryRunPass /\ PacketState # DryRunPass
  /\ "upstream_missing" # DryRunPass /\ "reactive_manager_validation_failed" # DryRunPass
  /\ "reactive_manager_inputs_missing" # DryRunPass /\ Absent # DryRunPass
  BY DEF Absent, PassStates, Failures, TracePass, PacketPass, DryRunPass, Scripts, Claim, PassOf,
         StoreStatus, PacketState

\* An emission is followed by another one or by what is derived of them.
LEMMA NextStatements ==
  ASSUME NEW at \in Emissions
  PROVE  NextStatement(at) \in Emissions \cup {"derive"}
<1>1. CASE EndOfTurn(at)
  BY <1>1 DEF NextStatement, Emissions
<1>2. CASE ~EndOfTurn(at)
  <2>1. NextStatement(at) = After[at]
    BY <1>2 DEF NextStatement
  <2>2. After[at] \in Emissions \cup {"derive"}
    BY DEF After, Emissions
  <2> QED BY <2>1, <2>2
<1> QED BY <1>1, <1>2

\* Where the order of the events is decided: what comes after what.
LEMMA OrderOfStatements ==
  ASSUME NEW at \in Emissions
  PROVE  /\ \A k \in 1..5 : at = Opening[k] => NextStatement(at) = Opening[k + 1]
         /\ at = Opening[6] => NextStatement(at) = "turn.started"
         /\ (\A k \in 1..6 : at # Opening[k]) => \A k \in 1..6 : NextStatement(at) # Opening[k]
         /\ at \in {"evaluation.completed", "results.persisted", "run.completed"} =>
              NextStatement(at) \in {"results.persisted", "run.completed", "derive"}
<1> USE DEF Opening, InTurn, NextStatement, EndOfTurn
<1>1. CASE EndOfTurn(at)
  BY <1>1
<1>2. CASE ~EndOfTurn(at)
  <2>1. NextStatement(at) = After[at]
    BY <1>2
  <2>2. /\ \A k \in 1..5 : at = Opening[k] => After[at] = Opening[k + 1]
        /\ at = Opening[6] => After[at] = "turn.started"
        /\ (\A k \in 1..6 : at # Opening[k]) => \A k \in 1..6 : After[at] # Opening[k]
        /\ at \in {"evaluation.completed", "results.persisted", "run.completed"} =>
             After[at] \in {"results.persisted", "run.completed", "derive"}
    BY DEF After, Emissions
  <2> QED BY <2>1, <2>2
<1> QED BY <1>1, <1>2

-----------------------------------------------------------------------------
(* Emission.                                                               *)

\* The actions of the four scripts are one.
LEMMA Emitting ==
  EmitTrace \/ EmitGraph \/ EmitPackets \/ EmitDryRun => EmitEvent(Claim)
  BY Zenon DEF EmitTrace, EmitGraph, EmitPackets, EmitDryRun

\* What every other step leaves alone of what was emitted, and where it goes.
Quiet ==
    /\ log' = log /\ held' = held /\ turn' = turn /\ nodes' = nodes /\ edges' = edges
    /\ lines' # lines => pc = "read" /\ pc' = "read"
    /\ \/ pc' = pc
       \/ pc = "begin" /\ pc' = "run.started"
       \/ pc = "derive" /\ pc' = "pack"
       \/ pc' \notin Emissions \cup {"begin", "derive", "pack"}

\* A step emits one event or leaves all that was emitted alone.
LEMMA EmitsOrQuiet ==
  ASSUME EndInv, [Next]_vars
  PROVE  EmitEvent(Claim) \/ Quiet
<1> USE DEF emitted, Emissions, Quiet
<1>1. CASE Begin
  BY <1>1 DEF Begin
<1>2. CASE EmitTrace \/ EmitGraph \/ EmitPackets \/ EmitDryRun
  BY <1>2, Emitting
<1>3. CASE EarlyTrace \/ EarlyGraph \/ EarlyPackets \/ EarlyDryRun
  BY <1>3 DEF EarlyTrace, EarlyGraph, EarlyPackets, EarlyDryRun, WriteFinal
<1>4. CASE EarlyRaw \/ WriteSummary \/ WriteRaw
  BY <1>4 DEF EarlyRaw, WriteSummary, WriteRaw, WriteFile
<1>5. CASE EarlySummary
  BY <1>5 DEF EarlySummary
<1>6. CASE Derive
  BY <1>6 DEF Derive
<1>7. CASE BuildPacket
  BY <1>7 DEF BuildPacket
<1>8. CASE WritePackets
  BY <1>8 DEF WritePackets
<1>9. CASE ReadAndPlan
  BY <1>9 DEF ReadAndPlan
<1>10. CASE PlanDiff
  BY <1>10 DEF PlanDiff
<1>11. CASE Validate
  BY <1>11 DEF Validate
<1>12. CASE CheckVendor
  BY <1>12 DEF CheckVendor
<1>13. CASE FinishTrace \/ FinishGraph \/ FinishPackets \/ FinishDryRun
  BY <1>13 DEF FinishTrace, FinishGraph, FinishPackets, FinishDryRun, WriteFinal
<1>14. CASE PrintState
  BY <1>14 DEF PrintState
<1>15. CASE Handle
  BY <1>15 DEF Handle
<1>16. CASE Damage
  BY <1>16 DEF Damage
<1>17. CASE Kill
  BY <1>17 DEF Kill
<1>18. CASE UNCHANGED vars
  BY <1>18 DEF vars
<1> QED BY <1>1, <1>2, <1>3, <1>4, <1>5, <1>6, <1>7, <1>8, <1>9, <1>10, <1>11, <1>12, <1>13,
           <1>14, <1>15, <1>16, <1>17, <1>18 DEF Next, Step

\* The event that is emitted next.
TheEvent == EventAt(pc, Claim)

\* The fields of the event, as they are passed to emit().
LEMMA EventFields ==
  /\ TheEvent.id = Len(log) + 1 /\ TheEvent.parent = held[ParentName[pc]]
  /\ TheEvent.type = TypeOf(pc) /\ TheEvent.component = ComponentOf(pc)
  /\ DOMAIN TheEvent = {"id", "parent", "type", "component", "task", "turn", "role", "tool",
                        "state", "claim"}
  BY DEF TheEvent, EventAt, Event, NextEventId

\* The event has its type, and its parent was emitted before it.
LEMMA EventTyped ==
  ASSUME EndInv, EmitInv, pc \in Emissions
  PROVE  TheEvent \in EventType /\ TheEvent.parent \in 0..Len(log)
<1>1. ParentName[pc] \in Names /\ held[ParentName[pc]] \in 0..Len(log)
  BY ParentNamed DEF EmitInv
<1>2. Len(log) + 1 \in Nat /\ turn \in Nat
  BY FixtureAssumption DEF EmitInv
<1>3. Transcript[turn].role \in STRING /\ Transcript[turn].tool \in STRING
  <2>1. Transcript[turn] \in [role : STRING, tool : STRING]
    <3> DEFINE turns == [role : STRING, tool : STRING]
    <3>1. Transcript \in Seq(turns) /\ turn \in DOMAIN Transcript
      BY FixtureAssumption DEF EmitInv
    <3> HIDE DEF turns
    <3>2. Transcript[turn] \in turns
      BY <3>1
    <3> QED BY <3>2 DEF turns
  <2> QED BY <2>1
<1>4. StateOf(pc) \in {"initial", "final", Absent}
  BY Described
<1>5. Claim \in PassStates \cup Failures
  BY States DEF EndInv
<1>6. DEFINE task == pc \notin {"run.started", "cli.config_inspected", "batch.started",
                                "run.completed"}
             inTurn == IF pc \in InTurn THEN turn ELSE 0
             role == IF pc \in InMessage THEN Transcript[turn].role ELSE Absent
             tool == IF pc \in InTool THEN Transcript[turn].tool ELSE Absent
             claims == IF pc = "run.completed" THEN Claim ELSE Absent
<1>7. TheEvent = [id |-> Len(log) + 1, parent |-> held[ParentName[pc]], type |-> TypeOf(pc),
                  component |-> ComponentOf(pc), task |-> task, turn |-> inTurn,
                  role |-> role, tool |-> tool, state |-> StateOf(pc), claim |-> claims]
  BY Zenon DEF TheEvent, EventAt, Event, NextEventId
<1>8. /\ inTurn \in Nat /\ role \in STRING \cup {Absent} /\ tool \in STRING \cup {Absent}
      /\ claims \in PassStates \cup Failures \cup {Absent} /\ task \in BOOLEAN
  BY <1>2, <1>3, <1>5
<1>9. /\ TypeOf(pc) \in {TypeOf(at) : at \in Emissions}
      /\ ComponentOf(pc) \in {ComponentOf(at) : at \in Emissions}
  OBVIOUS
<1>10. held[ParentName[pc]] \in Nat
  BY <1>1
<1> HIDE DEF task, inTurn, role, tool, claims
<1>11. TheEvent \in EventType
  BY <1>2, <1>4, <1>7, <1>8, <1>9, <1>10 DEF EventType
<1> QED BY <1>1, <1>11, EventFields

\* What emitting it does.
LEMMA EmitDoes ==
  ASSUME EndInv, EmitInv, EmitEvent(Claim)
  PROVE  /\ pc \in Emissions /\ log' = Append(log, TheEvent) /\ lines' = Append(lines, TheEvent)
         /\ nodes' = nodes \cup NodesOf(TheEvent) /\ edges' = edges \cup EdgesOf(TheEvent)
         /\ held' = HeldAfter(pc, TheEvent.id)
         /\ turn' = IF EndOfTurn(pc) /\ turn < Len(Transcript) THEN turn + 1 ELSE turn
         /\ pc' = NextStatement(pc)
         /\ UNCHANGED <<config, derived, reported, faults>>
  BY Zenon DEF EmitEvent, Ingest, TheEvent

\* An emission adds to the log and changes nothing in it.
LEMMA LogGrows ==
  ASSUME EndInv, EmitInv, EmitEvent(Claim)
  PROVE  /\ log' \in Seq(EventType) /\ Len(log') = Len(log) + 1
         /\ log'[Len(log) + 1] = TheEvent /\ \A i \in DOMAIN log : log'[i] = log[i]
         /\ DOMAIN log' = DOMAIN log \cup {Len(log) + 1} /\ Len(log) \in Nat
         /\ DOMAIN log = 1..Len(log)
<1>1. log \in Seq(EventType) /\ TheEvent \in EventType /\ log' = Append(log, TheEvent)
  BY EmitDoes, EventTyped DEF EmitInv
<1> HIDE DEF EventType, TheEvent
<1> QED BY <1>1, AppendProperties, LenProperties

\* An emission keeps the ids in order and what main() holds of them.
LEMMA EmitKeepsIds ==
  ASSUME EndInv, EmitInv, EmitEvent(Claim)
  PROVE  EmitInv'
<1>1. /\ pc \in Emissions /\ lines' = Append(lines, TheEvent) /\ log' = Append(log, TheEvent)
      /\ held' = HeldAfter(pc, TheEvent.id) /\ lines = log
  BY EmitDoes DEF EmitInv
<1>2. /\ log' \in Seq(EventType) /\ Len(log') = Len(log) + 1 /\ DOMAIN log = 1..Len(log)
      /\ log'[Len(log) + 1] = TheEvent /\ \A i \in DOMAIN log : log'[i] = log[i]
      /\ DOMAIN log' = DOMAIN log \cup {Len(log) + 1} /\ Len(log) \in Nat
  BY LogGrows
<1>3. turn' \in DOMAIN Transcript
  <2>1. turn \in DOMAIN Transcript /\ DOMAIN Transcript = 1..Len(Transcript)
        /\ Len(Transcript) \in Nat
    BY FixtureAssumption, LenProperties, Zenon DEF EmitInv
  <2>2. turn' = IF EndOfTurn(pc) /\ turn < Len(Transcript) THEN turn + 1 ELSE turn
    BY EmitDoes
  <2> QED BY <2>1, <2>2
<1>4. held' \in [Names -> 0..Len(log')] /\ held'["none"] = None
  <2> DEFINE id == TheEvent.id
             set == [held EXCEPT ![pc] = id]
  <2>1. held \in [Names -> 0..(Len(log) + 1)] /\ id = Len(log) + 1 /\ held["none"] = None
    BY <1>2, EventFields DEF EmitInv
  <2>2. pc \in Names /\ pc # "none" /\ "latest_parent" \in Names /\ "turn.started" \in Names
        /\ "none" \in Names
    BY <1>1 DEF Names, Emissions
  <2>3. id \in 0..(Len(log) + 1) /\ held["turn.started"] \in 0..(Len(log) + 1)
    BY <1>2, <2>1, <2>2
  <2> HIDE DEF id
  <2>4. set \in [Names -> 0..(Len(log) + 1)] /\ set["none"] = None
    BY <2>1, <2>2, <2>3
  <2> HIDE DEF set
  <2>5. \/ held' = set \/ held' = [set EXCEPT !["latest_parent"] = id]
        \/ held' = [set EXCEPT !["latest_parent"] = held["turn.started"]]
    <3>1. held' = HeldAfter(pc, id)
      BY <1>1 DEF id
    <3> QED BY <3>1 DEF HeldAfter, set
  <2>6. held' \in [Names -> 0..(Len(log) + 1)] /\ held'["none"] = None
    BY <2>2, <2>3, <2>4, <2>5
  <2> QED BY <1>2, <2>6
<1>5. \A i \in DOMAIN log' : log'[i].id = i /\ log'[i].parent < i
  <2>1. TheEvent.id = Len(log) + 1 /\ TheEvent.parent \in 0..Len(log)
    BY <1>1, EventFields, EventTyped
  <2>2. \A i \in DOMAIN log : log[i].id = i /\ log[i].parent < i
    BY DEF EmitInv
  <2>3. TheEvent.parent < Len(log) + 1
    BY <1>2, <2>1
  <2> QED BY <1>2, <2>1, <2>2, <2>3
<1> QED BY <1>1, <1>2, <1>3, <1>4, <1>5 DEF EmitInv

\* The event nodes of an event, and the ends of its edges.
LEMMA OfEvent ==
  ASSUME NEW event
  PROVE  /\ \A n \in NodesOf(event) : n[1] = "event" => n = NodeOf(event)
         /\ NodeOf(event) \in NodesOf(event)
         /\ NodeOf(event)[1] = "event"
         /\ <<"contains_event", <<"run", 1>>, NodeOf(event)>> \in EdgesOf(event)
         /\ \A e \in EdgesOf(event) :
              /\ e[2] \in NodesOf(event)
              /\ \/ e[3] \in NodesOf(event)
                 \/ event.parent # None /\ e[3] = <<"event", event.parent>>
  BY DEF NodesOf, EdgesOf, NodeOf

\* The graph grows with the log.
LEMMA EmitKeepsGraph ==
  ASSUME EndInv, EmitInv, GraphFaithful, EmitEvent(Claim)
  PROVE  GraphFaithful'
<1>1. /\ pc \in Emissions
      /\ nodes' = nodes \cup NodesOf(TheEvent) /\ edges' = edges \cup EdgesOf(TheEvent)
  BY EmitDoes
<1>2. /\ Len(log') = Len(log) + 1 /\ DOMAIN log = 1..Len(log)
      /\ log'[Len(log) + 1] = TheEvent /\ \A i \in DOMAIN log : log'[i] = log[i]
      /\ DOMAIN log' = DOMAIN log \cup {Len(log) + 1} /\ Len(log) \in Nat
  BY LogGrows
<1> HIDE DEF TheEvent
<1>3. {n \in nodes' : n[1] = "event"} = {NodeOf(log'[i]) : i \in DOMAIN log'}
  <2>1. {n \in nodes : n[1] = "event"} = {NodeOf(log[i]) : i \in DOMAIN log}
    BY DEF GraphFaithful
  <2>2. {n \in nodes' : n[1] = "event"} =
          {n \in nodes : n[1] = "event"} \cup {NodeOf(TheEvent)}
    BY <1>1, OfEvent
  <2>3. {NodeOf(log'[i]) : i \in DOMAIN log'} =
          {NodeOf(log[i]) : i \in DOMAIN log} \cup {NodeOf(TheEvent)}
    BY <1>2
  <2> QED BY <2>1, <2>2, <2>3
<1>4. \A e \in edges' : e[2] \in nodes' /\ e[3] \in nodes'
  <2>1. ASSUME TheEvent.parent # None PROVE <<"event", TheEvent.parent>> \in nodes
    <3>1. TheEvent.parent \in DOMAIN log
      BY <1>1, <1>2, <2>1, EventTyped DEF None
    <3>2. log[TheEvent.parent].id = TheEvent.parent
      BY <3>1 DEF EmitInv
    <3>3. NodeOf(log[TheEvent.parent]) = <<"event", TheEvent.parent>>
      BY <3>2 DEF NodeOf
    <3>4. NodeOf(log[TheEvent.parent]) \in {n \in nodes : n[1] = "event"}
      BY <3>1 DEF GraphFaithful
    <3> QED BY <3>3, <3>4
  <2>2. \A e \in edges : e[2] \in nodes /\ e[3] \in nodes
    BY DEF GraphFaithful
  <2> QED BY <1>1, <2>1, <2>2, OfEvent
<1>5. \A i \in DOMAIN log' : <<"contains_event", <<"run", 1>>, NodeOf(log'[i])>> \in edges'
  <2>1. \A i \in DOMAIN log : <<"contains_event", <<"run", 1>>, NodeOf(log[i])>> \in edges
    BY DEF GraphFaithful
  <2> QED BY <1>1, <1>2, <2>1, OfEvent
<1> QED BY <1>3, <1>4, <1>5 DEF GraphFaithful

\* What the emissions are that the order is about.
LEMMA TypesOfStatements ==
  ASSUME NEW at \in Emissions
  PROVE  /\ TypeOf(at) = "run.started" <=> at = Opening[1]
         /\ TypeOf(at) = "task.started" <=> at = Opening[4]
         /\ TypeOf(at) = "tool.dispatch_requested" <=> at = "tool.dispatch_requested"
         /\ TypeOf(at) = "evaluation.completed" <=> at = "evaluation.completed"
         /\ at = "tool.dispatch_requested" =>
              at \in InTurn /\ \A k \in 1..6 : at # Opening[k]
  BY DEF Emissions, TypeOf, Opening, InTurn

\* The six statements of the opening are six different ones.
LEMMA OpeningOnce ==
  ASSUME NEW j \in 1..6, NEW k \in 1..6, Opening[j] = Opening[k]
  PROVE  j = k
  BY DEF Opening

\* How many events there are at a statement of the opening.
LEMMA OpeningPlace ==
  ASSUME OrderInv, NEW k \in 1..6, pc = Opening[k]
  PROVE  Len(log) = k - 1
  BY Zenon DEF OrderInv

\* The events come in the order of the statements.
LEMMA EmitKeepsOrder ==
  ASSUME EndInv, EmitInv, OrderInv, EmitEvent(Claim)
  PROVE  OrderInv'
<1>1. /\ pc \in Emissions /\ pc' = NextStatement(pc)
      /\ TheEvent.type = TypeOf(pc)
  BY EmitDoes, EventFields
<1>2. /\ Len(log') = Len(log) + 1 /\ DOMAIN log = 1..Len(log)
      /\ log'[Len(log) + 1] = TheEvent /\ \A i \in DOMAIN log : log'[i] = log[i]
      /\ DOMAIN log' = DOMAIN log \cup {Len(log) + 1} /\ Len(log) \in Nat
  BY LogGrows
<1> HIDE DEF TheEvent
<1>3. pc' # "begin"
  BY <1>1, NextStatements DEF Emissions
<1>4. \A k \in 1..6 : pc' = Opening[k] => Len(log') = k - 1
  <2> SUFFICES ASSUME NEW k \in 1..6, pc' = Opening[k] PROVE Len(log') = k - 1
    OBVIOUS
  <2>1. PICK j \in 1..6 : pc = Opening[j]
    BY <1>1, OrderOfStatements
  <2>2. Len(log) = j - 1
    BY <2>1 DEF OrderInv
  <2>3. CASE j = 6
    <3>1. pc' = "turn.started"
      BY <1>1, <2>1, <2>3, OrderOfStatements
    <3> QED BY <3>1 DEF Opening
  <2>4. CASE j \in 1..5
    <3>1. pc' = Opening[j + 1]
      BY <1>1, <2>1, <2>4, OrderOfStatements
    <3>2. j + 1 = k
      <4>1. j + 1 \in 1..6 /\ Opening[j + 1] = Opening[k]
        BY <2>4, <3>1
      <4> QED BY <4>1, OpeningOnce, Zenon
    <3> QED BY <1>2, <2>2, <3>2
  <2> QED BY <2>3, <2>4
<1>5. pc' \in Emissions /\ (\A k \in 1..6 : pc' # Opening[k]) => Len(log') >= 6
  <2> SUFFICES ASSUME \A k \in 1..6 : pc' # Opening[k] PROVE Len(log') >= 6
    OBVIOUS
  <2>0. \A k \in 1..6 : pc' # Opening[k]
    OBVIOUS
  <2>1. CASE \A k \in 1..6 : pc # Opening[k]
    <3>1. Len(log) >= 6
      BY <1>1, <2>1 DEF OrderInv
    <3> QED BY <1>2, <3>1
  <2>2. CASE \E k \in 1..6 : pc = Opening[k]
    <3>1. PICK k \in 1..6 : pc = Opening[k]
      BY <2>2
    <3>2. k = 6
      <4>1. k \in 1..5 => pc' = Opening[k + 1] /\ k + 1 \in 1..6
        BY <1>1, <3>1, OrderOfStatements
      <4> QED BY <2>0, <4>1
    <3>3. Len(log) = 5
      <4>1. Len(log) = k - 1
        BY <3>1, OpeningPlace
      <4> QED BY <3>2, <4>1
    <3> QED BY <1>2, <3>3
  <2> QED BY <2>1, <2>2
<1>6. pc' \in Emissions \ {"results.persisted", "run.completed"} =>
        \A i \in DOMAIN log' : log'[i].type # "evaluation.completed"
  <2> SUFFICES ASSUME pc' \in Emissions \ {"results.persisted", "run.completed"}
               PROVE  \A i \in DOMAIN log' : log'[i].type # "evaluation.completed"
    OBVIOUS
  <2>1. pc' # "derive"
    BY DEF Emissions
  <2>2. pc \notin {"evaluation.completed", "results.persisted", "run.completed"}
    BY <1>1, <2>1, OrderOfStatements
  <2>3. TheEvent.type # "evaluation.completed"
    BY <1>1, <2>2, TypesOfStatements
  <2>4. \A i \in DOMAIN log : log[i].type # "evaluation.completed"
    BY <1>1, <2>2 DEF OrderInv
  <2> QED BY <1>2, <2>3, <2>4
<1>7. /\ pc = Opening[1] => Len(log) = 1 - 1
      /\ pc = Opening[4] => Len(log) = 4 - 1
  <2>1. 1 \in 1..6 /\ 4 \in 1..6
    OBVIOUS
  <2> QED BY <2>1, OpeningPlace, Zenon
<1>8. TheEvent.type = "run.started" => Len(log) + 1 = 1
  <2>1. TheEvent.type = "run.started" => pc = Opening[1]
    BY <1>1, TypesOfStatements, Zenon
  <2> QED BY <1>2, <1>7, <2>1
<1>9. TheEvent.type = "task.started" => Len(log) + 1 = 4
  <2>1. TheEvent.type = "task.started" => pc = Opening[4]
    BY <1>1, TypesOfStatements, Zenon
  <2> QED BY <1>2, <1>7, <2>1
<1>10. TheEvent.type = "tool.dispatch_requested" =>
         /\ Len(log) + 1 > 6
         /\ \A i \in DOMAIN log : log[i].type # "evaluation.completed"
  <2> SUFFICES ASSUME TheEvent.type = "tool.dispatch_requested"
               PROVE  /\ Len(log) + 1 > 6
                      /\ \A i \in DOMAIN log : log[i].type # "evaluation.completed"
    OBVIOUS
  <2>1. pc = "tool.dispatch_requested" /\ \A k \in 1..6 : pc # Opening[k]
    BY <1>1, TypesOfStatements
  <2>2. Len(log) >= 6
    BY <1>1, <2>1 DEF OrderInv
  <2>3. \A i \in DOMAIN log : log[i].type # "evaluation.completed"
    BY <1>1, <2>1 DEF OrderInv
  <2> QED BY <1>2, <2>2, <2>3
<1>11. \A i \in DOMAIN log :
         /\ log[i].type = "run.started" => i = 1
         /\ log[i].type = "task.started" => i = 4
         /\ log[i].type = "tool.dispatch_requested" => i > 6
         /\ log[i].type = "evaluation.completed" =>
              \A j \in DOMAIN log : log[j].type = "tool.dispatch_requested" => j < i
  BY DEF OrderInv
<1>12. ASSUME NEW i \in DOMAIN log'
       PROVE  /\ log'[i].type = "run.started" => i = 1
              /\ log'[i].type = "task.started" => i = 4
              /\ log'[i].type = "tool.dispatch_requested" => i > 6
  <2>1. CASE i \in DOMAIN log
    BY <1>2, <1>11, <2>1
  <2>2. CASE i = Len(log) + 1
    BY <1>2, <1>8, <1>9, <1>10, <2>2
  <2> QED BY <1>2, <2>1, <2>2
<1>13. ASSUME NEW i \in DOMAIN log', NEW j \in DOMAIN log',
              log'[i].type = "evaluation.completed",
              log'[j].type = "tool.dispatch_requested"
       PROVE  j < i
  <2>1. CASE i \in DOMAIN log /\ j \in DOMAIN log
    BY <1>2, <1>11, <1>13, <2>1
  <2>2. CASE i = Len(log) + 1 /\ j \in DOMAIN log
    BY <1>2, <2>2
  <2>3. CASE j = Len(log) + 1
    <3>1. TheEvent.type = "tool.dispatch_requested" /\ i \notin DOMAIN log
      BY <1>2, <1>10, <1>13, <2>3
    <3> QED BY <1>2, <1>13, <2>3, <3>1
  <2> QED BY <1>2, <2>1, <2>2, <2>3
<1> QED BY <1>3, <1>4, <1>5, <1>6, <1>12, <1>13 DEF OrderInv

\* The other steps leave all this as it is.
LEMMA QuietKeeps ==
  ASSUME EndInv, EmitInv, GraphFaithful, OrderInv, Quiet
  PROVE  EmitInv' /\ GraphFaithful' /\ OrderInv'
<1> USE DEF Quiet
<1>1. GraphFaithful'
  BY Zenon DEF GraphFaithful
<1>2. EmitInv'
  <2>1. pc' \in Emissions \cup {"begin", "derive", "pack"} => lines' = log'
    <3>1. "read" \notin Emissions \cup {"begin", "derive", "pack"}
      BY DEF Emissions
    <3> QED BY <3>1 DEF EmitInv
  <2> QED BY <2>1 DEF EmitInv
<1>3. OrderInv'
  <2>1. CASE pc' = pc
    BY <2>1 DEF OrderInv
  <2>2. CASE pc = "begin" /\ pc' = "run.started"
    BY <2>2 DEF OrderInv, Opening
  <2>3. CASE pc' \notin Emissions \cup {"begin"}
    <3>1. \A k \in 1..6 : Opening[k] \in Emissions
      BY DEF Opening, Emissions
    <3> QED BY <2>3, <3>1 DEF OrderInv
  <2>4. "pack" \notin Emissions \cup {"begin"}
    BY DEF Emissions
  <2> QED BY <2>1, <2>2, <2>3, <2>4
<1> QED BY <1>1, <1>2, <1>3

\* The ids, the graph and the order are kept by every step.
LEMMA EmissionStep ==
  ASSUME EndInv, EmitInv, GraphFaithful, OrderInv, [Next]_vars
  PROVE  EmitInv' /\ GraphFaithful' /\ OrderInv'
  BY EmitsOrQuiet, EmitKeepsIds, EmitKeepsGraph, EmitKeepsOrder, QuietKeeps

-----------------------------------------------------------------------------
(* The end.                                                                *)

\* Which statement is where.
LEMMA Statements ==
  /\ Emissions \subseteq Unwritten
  /\ \A at \in {"begin", "early", "derive", "pack", "read", "diff", "validate", "vendor",
                "final"} : at \in Unwritten /\ at \notin Emissions
  /\ \A at \in {"early.raw", "early.summary", "summary", "raw", "print"} : at \in Written
  /\ \A at \in Written \cup {"raise", "done", "killed"} :
       at \notin Unwritten /\ at \notin DryRunPart
  /\ \A at \in Emissions \cup {"begin", "early", "derive", "pack", "final"} :
       at \notin DryRunPart
  /\ "done" \notin Written /\ "raise" \notin Written /\ "killed" \notin Written
  BY DEF Unwritten, Written, Emissions, DryRunPart

\* A step that writes no final state and does not end.
LEMMA Going ==
  ASSUME EndInv, final' = final, exit' = exit, pc # "done", pc' # "done",
         script' = script, symbols' = symbols,
         \/ pc \in Unwritten /\ pc' \in Unwritten
         \/ pc \in Written /\ pc' \in Written
         \/ pc' \in {"raise", "killed"},
         pc' \in DryRunPart => script = "dryrun", pc' = "pack" => HasPackets
  PROVE  EndInv'
  BY Statements DEF EndInv, HasPackets

\* A step that writes the final state.
LEMMA Finishing ==
  ASSUME EndInv, pc \in Unwritten, final' \in PassStates \cup Failures, exit' = exit,
         script' = script, symbols' = symbols, pc' \in Written
  PROVE  EndInv'
<1>1. pc # "done" /\ pc' # "done" /\ pc' # "pack" /\ pc' \notin Unwritten /\ pc' \notin DryRunPart
  BY Statements
<1> QED BY <1>1 DEF EndInv

\* What was written and printed is known after every step.
LEMMA EndStep ==
  ASSUME EndInv, [Next]_vars
  PROVE  EndInv'
<1> USE DEF config, reported
<1>1. CASE Begin
  <2>1. pc = "begin" /\ pc' \in {"run.started", "early"} /\ final' = final /\ exit' = exit
        /\ script' = script /\ symbols' = symbols
    BY <1>1 DEF Begin
  <2>2. "run.started" \in Emissions
    BY DEF Emissions
  <2> QED BY <2>1, <2>2, Going, Statements
<1>2. CASE EmitTrace \/ EmitGraph \/ EmitPackets \/ EmitDryRun
  <2>1. EmitEvent(Claim)
    BY <1>2, Emitting
  <2>2. pc \in Emissions /\ pc' = NextStatement(pc) /\ final' = final /\ exit' = exit
        /\ script' = script /\ symbols' = symbols
    BY <2>1 DEF EmitEvent
  <2>3. pc' \in Emissions \cup {"derive"}
    BY <2>2, NextStatements
  <2> QED BY <2>2, <2>3, Going, Statements
<1>3. CASE EarlyTrace \/ EarlyGraph \/ EarlyPackets \/ EarlyDryRun
  <2>1. pc = "early" /\ pc' = "early.raw" /\ final' \in PassStates \cup Failures /\ exit' = exit
        /\ script' = script /\ symbols' = symbols
    BY <1>3 DEF EarlyTrace, EarlyGraph, EarlyPackets, EarlyDryRun, WriteFinal, Failures
  <2> QED BY <2>1, Finishing, Statements
<1>4. CASE EarlyRaw \/ WriteSummary \/ WriteRaw
  <2>1. pc \in {"early.raw", "summary", "raw"} /\ pc' \in {"print", "early.summary", "raw"}
        /\ final' = final /\ exit' = exit /\ script' = script /\ symbols' = symbols
    BY <1>4 DEF EarlyRaw, WriteSummary, WriteRaw, WriteFile
  <2> QED BY <2>1, Going, Statements
<1>5. CASE EarlySummary
  <2>1. pc = "early.summary" /\ pc' \in {"print", "raise"}
        /\ final' = final /\ exit' = exit /\ script' = script /\ symbols' = symbols
    BY <1>5 DEF EarlySummary
  <2> QED BY <2>1, Going, Statements
<1>6. CASE Derive
  <2>1. pc = "derive" /\ pc' \in {"pack", "final"} /\ (pc' = "pack" => HasPackets)
        /\ final' = final /\ exit' = exit /\ script' = script /\ symbols' = symbols
    BY <1>6 DEF Derive
  <2> QED BY <2>1, Going, Statements
<1>7. CASE BuildPacket
  <2>1. pc = "pack" /\ pc' = "pack"
        /\ final' = final /\ exit' = exit /\ script' = script /\ symbols' = symbols
    BY <1>7 DEF BuildPacket
  <2>2. HasPackets
    BY <2>1 DEF EndInv
  <2> QED BY <2>1, <2>2, Going, Statements
<1>8. CASE WritePackets
  <2>1. /\ pc = "pack" /\ pc' \in {"final", "read", "early"}
        /\ pc' = "read" => script # "packets"
        /\ final' = final /\ exit' = exit /\ script' = script /\ symbols' = symbols
    BY <1>8 DEF WritePackets
  <2>2. script \in {"packets", "dryrun"}
    BY <2>1 DEF EndInv, HasPackets
  <2> QED BY <2>1, <2>2, Going, Statements
<1>9. CASE ReadAndPlan \/ PlanDiff \/ Validate \/ CheckVendor
  <2>1. /\ pc \in DryRunPart /\ pc' \in {"raise", "diff", "validate", "vendor", "final"}
        /\ final' = final /\ exit' = exit /\ script' = script /\ symbols' = symbols
    BY <1>9 DEF ReadAndPlan, PlanDiff, Validate, CheckVendor, DryRunPart
  <2>2. script = "dryrun" /\ pc \in Unwritten
    BY <2>1, Statements DEF EndInv, DryRunPart
  <2> QED BY <2>1, <2>2, Going, Statements
<1>10. CASE FinishTrace \/ FinishGraph \/ FinishPackets \/ FinishDryRun
  <2>1. pc = "final" /\ pc' = "summary" /\ final' \in {Claim, PacketState, DryRunState}
        /\ exit' = exit /\ script' = script /\ symbols' = symbols
    BY <1>10 DEF FinishTrace, FinishGraph, FinishPackets, FinishDryRun, WriteFinal, TraceState,
                 GraphState
  <2>2. final' \in PassStates \cup Failures
    BY <2>1, States DEF EndInv
  <2> QED BY <2>1, <2>2, Finishing, Statements
<1>11. CASE PrintState \/ Handle
  <2>1. pc' = "done" /\ final' = final /\ exit' \in {0, 1} /\ script' = script
        /\ symbols' = symbols
    BY <1>11 DEF PrintState, Handle, ExitCode
  <2>2. "done" \notin Unwritten /\ "done" \notin Written /\ "done" \notin DryRunPart
    BY Statements
  <2> QED BY <2>1, <2>2 DEF EndInv
<1>12. CASE Damage
  <2>1. pc = "read" /\ pc' = "read"
        /\ final' = final /\ exit' = exit /\ script' = script /\ symbols' = symbols
    BY <1>12 DEF Damage
  <2>2. script = "dryrun"
    BY <2>1 DEF EndInv, DryRunPart
  <2> QED BY <2>1, <2>2, Going, Statements
<1>13. CASE Kill
  <2>1. pc # "done" /\ pc' = "killed"
        /\ final' = final /\ exit' = exit /\ script' = script /\ symbols' = symbols
    BY <1>13 DEF Kill
  <2> QED BY <2>1, Going, Statements
<1>14. CASE UNCHANGED vars
  BY <1>14 DEF vars, EndInv, HasPackets
<1> QED BY <1>1, <1>2, <1>3, <1>4, <1>5, <1>6, <1>7, <1>8, <1>9, <1>10, <1>11, <1>12, <1>13,
           <1>14 DEF Next, Step

-----------------------------------------------------------------------------
(* Sequences.                                                              *)

\* A sequence is one of whatever its elements belong to.
LEMMA Retyped ==
  ASSUME NEW S, NEW T, NEW s \in Seq(S), \A i \in DOMAIN s : s[i] \in T
  PROVE  s \in Seq(T)
  OBVIOUS

\* A line lost, repeated or moved: no order brings in anything new.
LEMMA OrdersKeep ==
  ASSUME NEW S, NEW s \in Seq(S), NEW t \in DamagedOrders(s)
  PROVE  t \in Seq(S)
<1>1. Len(s) \in Nat /\ DOMAIN s = 1..Len(s) /\ \A i \in DOMAIN s : s[i] \in S
  BY LenProperties, ElementOfSeq
<1>2. ASSUME NEW m \in Int, NEW n \in Int, m >= 1, n <= Len(s)
      PROVE  SubSeq(s, m, n) \in Seq(S)
  <2>1. \A i \in m..n : s[i] \in S
    BY <1>1, <1>2
  <2> QED BY <2>1, SubSeqProperties
<1>3. CASE t \in {RemoveAt(s, i) : i \in DOMAIN s}
  <2>1. PICK i \in DOMAIN s : t = RemoveAt(s, i)
    BY <1>3
  <2>2. SubSeq(s, 1, i - 1) \in Seq(S) /\ SubSeq(s, i + 1, Len(s)) \in Seq(S)
    <3>1. i \in Int /\ i - 1 \in Int /\ i + 1 \in Int /\ i - 1 <= Len(s) /\ i + 1 >= 1
          /\ Len(s) \in Int /\ Len(s) <= Len(s) /\ 1 \in Int /\ 1 >= 1
      BY <1>1
    <3> QED BY <1>2, <3>1
  <2> QED BY <2>1, <2>2, ConcatProperties DEF RemoveAt
<1>4. CASE t \in {InsertAt(s, i, s[i]) : i \in DOMAIN s}
  <2>1. PICK i \in DOMAIN s : t = InsertAt(s, i, s[i])
    BY <1>4
  <2>2. SubSeq(s, 1, i - 1) \in Seq(S) /\ SubSeq(s, i, Len(s)) \in Seq(S)
    <3>1. i \in Int /\ i - 1 \in Int /\ i >= 1 /\ i - 1 <= Len(s)
          /\ Len(s) \in Int /\ Len(s) <= Len(s) /\ 1 \in Int /\ 1 >= 1
      BY <1>1
    <3> QED BY <1>2, <3>1
  <2>3. <<s[i]>> \in Seq(S)
    BY <1>1
  <2>4. SubSeq(s, 1, i - 1) \o <<s[i]>> \in Seq(S)
    BY <2>2, <2>3, ConcatProperties
  <2> QED BY <2>1, <2>2, <2>4, ConcatProperties DEF InsertAt
<1>5. CASE t \in {[s EXCEPT ![i] = s[i + 1], ![i + 1] = s[i]] : i \in 1..(Len(s) - 1)}
  <2>1. PICK i \in 1..(Len(s) - 1) : t = [s EXCEPT ![i] = s[i + 1], ![i + 1] = s[i]]
    BY <1>5
  <2>2. i \in 1..Len(s) /\ i + 1 \in 1..Len(s) /\ s[i] \in S /\ s[i + 1] \in S
    BY <1>1
  <2>3. [s EXCEPT ![i] = s[i + 1]] \in Seq(S)
        /\ Len([s EXCEPT ![i] = s[i + 1]]) = Len(s)
    BY <2>2, ExceptSeq
  <2>4. [[s EXCEPT ![i] = s[i + 1]] EXCEPT ![i + 1] = s[i]] \in Seq(S)
    BY <2>2, <2>3, ExceptSeq
  <2> QED BY <2>1, <2>4
<1> QED BY <1>3, <1>4, <1>5 DEF DamagedOrders

-----------------------------------------------------------------------------
(* The packets.                                                            *)

\* A packet is made of its event and of the packet before.
LEMMA BuildKeepsPackets ==
  ASSUME EmitInv, PacketsInv, BuildPacket
  PROVE  PacketsInv'
<1> DEFINE next == Packet(Len(built), log[Len(built) + 1], LastHash(built))
<1>1. /\ pc = "pack" /\ Len(built) < Len(log) /\ built' = Append(built, next)
      /\ log' = log /\ trace' = trace /\ nodes' = nodes /\ edges' = edges
  BY DEF BuildPacket, emitted
<1>2. Len(built) \in Nat /\ DOMAIN built = 1..Len(built) /\ Len(log) \in Nat
      /\ DOMAIN log = 1..Len(log)
  BY LenProperties DEF PacketsInv, EmitInv
<1> DEFINE S == Elements(built) \cup {next}
<1>3. built' \in Seq(S) /\ Len(built') = Len(built) + 1
      /\ (\A i \in DOMAIN built : built'[i] = built[i]) /\ built'[Len(built) + 1] = next
      /\ DOMAIN built' = 1..(Len(built) + 1)
  <2> HIDE DEF next
  <2>1. built \in Seq(S)
    <3>1. \A i \in DOMAIN built : built[i] \in S
      BY DEF Elements
    <3> HIDE DEF S
    <3> QED BY <3>1, Retyped DEF PacketsInv
  <2>2. next \in S
    OBVIOUS
  <2> HIDE DEF S
  <2> QED BY <1>1, <1>2, <2>1, <2>2, AppendProperties, LenProperties
<1> HIDE DEF S
<1>4. built' \in Seq(Elements(built'))
  <2>1. \A i \in DOMAIN built' : built'[i] \in Elements(built')
    BY DEF Elements
  <2> QED BY <1>3, <2>1, Retyped
<1>5. next = Packet((Len(built) + 1) - 1, log[Len(built) + 1],
                    PreviousHash(built', Len(built) + 1))
  <2>1. (Len(built) + 1) - 1 = Len(built)
    BY <1>2
  <2>2. LastHash(built) = PreviousHash(built', Len(built) + 1)
    <3>1. CASE built = <<>>
      <4>1. Len(built) = 0
        BY <3>1
      <4> QED BY <3>1, <4>1 DEF LastHash, PreviousHash
    <3>2. CASE built # <<>>
      <4>1. Len(built) # 0
        BY <3>2, EmptySeq DEF PacketsInv
      <4>2. Len(built) + 1 # 1 /\ Len(built) \in DOMAIN built
        BY <1>2, <4>1
      <4>3. built'[Len(built)] = built[Len(built)]
        BY <1>3, <4>2
      <4> QED BY <2>1, <3>2, <4>2, <4>3 DEF LastHash, PreviousHash
    <3> QED BY <3>1, <3>2
  <2> QED BY <2>1, <2>2, Zenon
<1> HIDE DEF next
<1>6. ASSUME NEW i \in DOMAIN built'
      PROVE  i \in DOMAIN log' /\ built'[i] = Packet(i - 1, log'[i], PreviousHash(built', i))
  <2>1. CASE i = Len(built) + 1
    <3>1. i \in DOMAIN log'
      BY <1>1, <1>2, <2>1
    <3>2. built'[i] = next
      BY <1>3, <2>1
    <3> QED BY <1>1, <1>5, <2>1, <3>1, <3>2, Zenon
  <2>2. CASE i \in DOMAIN built
    <3>1. i \in DOMAIN log /\ built[i] = Packet(i - 1, log[i], PreviousHash(built, i))
      BY <2>2 DEF PacketsInv
    <3>2. PreviousHash(built', i) = PreviousHash(built, i)
      <4>1. i # 1 => i - 1 \in DOMAIN built
        BY <1>2, <2>2
      <4> QED BY <1>3, <4>1 DEF PreviousHash
    <3> QED BY <1>1, <1>3, <2>2, <3>1, <3>2, Zenon
  <2> QED BY <1>2, <1>3, <2>1, <2>2
<1>7. Len(built') <= Len(log')
  BY <1>1, <1>2, <1>3
<1>8. trace' = Exported(log', nodes', edges')
  BY <1>1 DEF PacketsInv
<1> QED BY <1>4, <1>6, <1>7, <1>8 DEF PacketsInv

\* Every other step keeps the packets, and begins them with the projection of the log.
LEMMA OthersKeepBuilt ==
  ASSUME EndInv, [Next]_vars, ~BuildPacket
  PROVE  /\ built' = built
         /\ pc' = "pack" => \/ trace' = Exported(log', nodes', edges')
                            \/ pc = "pack" /\ trace' = trace /\ ~EmitEvent(Claim)
<1> USE DEF derived, Emissions
<1>1. CASE Begin
  BY <1>1 DEF Begin
<1>2. CASE EmitTrace \/ EmitGraph \/ EmitPackets \/ EmitDryRun
  <2>1. EmitEvent(Claim)
    BY <1>2, Emitting
  <2>2. built' = built /\ pc \in Emissions /\ pc' = NextStatement(pc)
    BY <2>1 DEF EmitEvent
  <2> QED BY <2>2, NextStatements
<1>3. CASE EarlyTrace \/ EarlyGraph \/ EarlyPackets \/ EarlyDryRun
  BY <1>3 DEF EarlyTrace, EarlyGraph, EarlyPackets, EarlyDryRun, WriteFinal
<1>4. CASE EarlyRaw \/ WriteSummary \/ WriteRaw
  BY <1>4 DEF EarlyRaw, WriteSummary, WriteRaw, WriteFile
<1>5. CASE EarlySummary
  BY <1>5 DEF EarlySummary
<1>6. CASE Derive
  <2>1. built' = built /\ log' = log /\ nodes' = nodes /\ edges' = edges
        /\ (pc' = "pack" => trace' = Exported(log, nodes, edges))
    BY <1>6 DEF Derive, emitted
  <2> QED BY <2>1
<1>7. CASE WritePackets
  BY <1>7 DEF WritePackets
<1>8. CASE ReadAndPlan
  BY <1>8 DEF ReadAndPlan
<1>9. CASE PlanDiff \/ Validate \/ CheckVendor
  BY <1>9 DEF PlanDiff, Validate, CheckVendor
<1>10. CASE FinishTrace \/ FinishGraph \/ FinishPackets \/ FinishDryRun
  BY <1>10 DEF FinishTrace, FinishGraph, FinishPackets, FinishDryRun, WriteFinal
<1>11. CASE PrintState \/ Handle
  BY <1>11 DEF PrintState, Handle
<1>12. CASE Damage
  BY <1>12 DEF Damage
<1>13. CASE Kill
  BY <1>13 DEF Kill
<1>14. CASE UNCHANGED vars
  BY <1>14 DEF vars, EmitEvent
<1> QED BY <1>1, <1>2, <1>3, <1>4, <1>5, <1>6, <1>7, <1>8, <1>9, <1>10, <1>11, <1>12, <1>13,
           <1>14 DEF Next, Step

\* The packets built are those of the log after every step.
LEMMA PacketsStep ==
  ASSUME EndInv, EmitInv, PacketsInv, [Next]_vars
  PROVE  PacketsInv'
<1>1. CASE BuildPacket
  BY <1>1, BuildKeepsPackets
<1>2. CASE ~BuildPacket
  <2>1. built' = built
    BY <1>2, OthersKeepBuilt
  <2>2. /\ \A i \in DOMAIN log : i \in DOMAIN log' /\ log'[i] = log[i]
        /\ Len(log) <= Len(log')
    <3>1. CASE EmitEvent(Claim)
      BY <3>1, LogGrows
    <3>2. CASE Quiet
      <4>1. Len(log) \in Nat
        BY LenProperties DEF EmitInv
      <4> QED BY <3>2, <4>1 DEF Quiet
    <3> QED BY <3>1, <3>2, EmitsOrQuiet
  <2>3. Len(built') <= Len(log')
    <3>1. Len(log) \in Nat /\ Len(built) \in Nat /\ Len(built) <= Len(log)
      BY LenProperties DEF EmitInv, PacketsInv
    <3>2. Len(log') \in Nat
      BY LogGrows, EmitsOrQuiet, <3>1 DEF Quiet
    <3> QED BY <2>1, <2>2, <3>1, <3>2
  <2>4. \A i \in DOMAIN built' :
          i \in DOMAIN log' /\ built'[i] = Packet(i - 1, log'[i], PreviousHash(built', i))
    <3>1. \A i \in DOMAIN built :
            i \in DOMAIN log /\ built[i] = Packet(i - 1, log[i], PreviousHash(built, i))
      BY DEF PacketsInv
    <3> QED BY <2>1, <2>2, <3>1
  <2>5. pc' = "pack" => trace' = Exported(log', nodes', edges')
    <3>1. CASE pc = "pack" /\ trace' = trace /\ ~EmitEvent(Claim)
      <4>1. log' = log /\ nodes' = nodes /\ edges' = edges
        BY <3>1, EmitsOrQuiet DEF Quiet
      <4> QED BY <3>1, <4>1 DEF PacketsInv
    <3> QED BY <1>2, <3>1, OthersKeepBuilt
  <2>6. built' \in Seq(Elements(built'))
    BY <2>1 DEF PacketsInv
  <2> QED BY <2>3, <2>4, <2>5, <2>6 DEF PacketsInv
<1> QED BY <1>1, <1>2

-----------------------------------------------------------------------------
(* What the dry run reads.                                                 *)

\* A packet has its fields, and its hash is that of the others.
LEMMA PacketFields ==
  ASSUME NEW index, NEW event, NEW previous
  PROVE  LET p == Packet(index, event, previous)
         IN  /\ p.id = index + 1 /\ p.index = index /\ p.event = event.id
             /\ p.previous = previous /\ p.safe = TRUE
             /\ p.body = <<PacketType(event), event>>
             /\ p.hash = <<p.id, p.index, p.event, p.previous, p.body, p.safe>>
             /\ p \in PacketOf(p)
  BY DEF Packet, HashOf, PacketOf

\* What was written is one of the things that damages can make of it.
LEMMA AsWritten ==
  ASSUME NEW e \in EventType
  PROVE  e \in LineOf(e) /\ e \in LoggedOf(e)
<1> DEFINE types == {TypeOf(at) : at \in Emissions}
           components == {ComponentOf(at) : at \in Emissions}
           texts == STRING \cup {Absent}
           claims == PassStates \cup Failures \cup {Absent}
<1>1. e \in [id : Nat, parent : Nat, type : types, component : components, task : BOOLEAN,
             turn : Nat, role : texts, tool : texts, state : {"initial", "final", Absent},
             claim : claims]
  BY DEF EventType
<1> HIDE DEF types, components, texts, claims
<1> QED BY <1>1 DEF LineOf, LoggedOf

\* With packets that are valid, the dry run starts from what was written.
LEMMA WriteBeginsDryRun ==
  ASSUME EndInv, EmitInv, PacketsInv, DryRunInv, WritePackets, pc' = "read"
  PROVE  DryRunInv'
<1>1. /\ pc = "pack" /\ packets' = built /\ built' = built /\ log' = log /\ lines' = lines
      /\ trace' = trace /\ plans' = plans
      /\ errors' = StatePacketErrors(built, log, trace, Expected)
      /\ errors' = {}
  BY DEF WritePackets, emitted
<1>2. Len(built) = Expected /\ Len(built) = Len(log)
  BY <1>1 DEF StatePacketErrors
<1>3. lines' \in Seq(LinesOf')
  <2>1. lines = log /\ log \in Seq(EventType)
    BY <1>1 DEF EmitInv
  <2>2. \A i \in DOMAIN log : log[i] \in LinesOf
    <3>1. \A i \in DOMAIN log : log[i] \in EventType
      BY <2>1
    <3> QED BY <3>1, AsWritten DEF LinesOf
  <2>3. lines \in Seq(LinesOf)
    BY <2>1, <2>2, Retyped
  <2> QED BY <1>1, <2>3 DEF LinesOf
<1>4. packets' \in Seq(PacketsOf')
  <2>1. \A i \in DOMAIN built : built[i] \in PacketOf(built[i])
    <3> SUFFICES ASSUME NEW i \in DOMAIN built PROVE built[i] \in PacketOf(built[i])
      OBVIOUS
    <3>1. built[i] = Packet(i - 1, log[i], PreviousHash(built, i))
      BY DEF PacketsInv
    <3> DEFINE p == Packet(i - 1, log[i], PreviousHash(built, i))
    <3>2. p \in PacketOf(p)
      BY PacketFields
    <3> QED BY <3>1, <3>2, Zenon
  <2>2. \A i \in DOMAIN built : built[i] \in PacketsOf
    BY <2>1 DEF PacketsOf
  <2>3. built \in Seq(PacketsOf)
    BY <2>2, Retyped DEF PacketsInv
  <2> QED BY <1>1, <2>3 DEF PacketsOf
<1>5. DOMAIN trace' = TraceFields /\ trace'.event_log \in Seq(LoggedLinesOf')
  <2>1. trace = Exported(log, nodes, edges) /\ log \in Seq(EventType)
    BY <1>1 DEF PacketsInv, EmitInv
  <2>2. DOMAIN trace = TraceFields /\ trace.event_log = log
    BY <2>1 DEF Exported, TraceFields
  <2>3. \A i \in DOMAIN log : log[i] \in LoggedLinesOf
    <3>1. \A i \in DOMAIN log : log[i] \in EventType
      BY <2>1
    <3> QED BY <3>1, AsWritten DEF LoggedLinesOf
  <2>4. log \in Seq(LoggedLinesOf)
    BY <2>1, <2>3, Retyped
  <2> QED BY <1>1, <2>2, <2>4 DEF LoggedLinesOf
<1>6. DOMAIN plans' = {"replay", "forks", "diff"}
  BY <1>1 DEF DryRunInv
<1> QED BY <1>1, <1>2, <1>3, <1>4, <1>5, <1>6 DEF DryRunInv

\* A damaged file is still made of what damages can make.
LEMMA DamageKeepsDryRun ==
  ASSUME EndInv, EmitInv, DryRunInv, Damage
  PROVE  DryRunInv'
<1>1. /\ pc = "read" /\ pc' = "read" /\ log' = log /\ built' = built /\ plans' = plans
      /\ script' = script
      /\ \/ lines' \in DamagedEvents /\ UNCHANGED <<packets, trace>>
         \/ packets' \in DamagedPackets /\ UNCHANGED <<lines, trace>>
         \/ trace' \in DamagedTraces /\ UNCHANGED <<lines, packets>>
  BY DEF Damage, config
<1>2. /\ Len(log) = Expected /\ Len(built) = Expected
      /\ lines \in Seq(LinesOf) /\ packets \in Seq(PacketsOf)
      /\ DOMAIN trace = TraceFields /\ trace.event_log \in Seq(LoggedLinesOf)
      /\ DOMAIN plans = {"replay", "forks", "diff"}
  BY <1>1 DEF DryRunInv, Planning, DryRunPart
<1>3. LinesOf' = LinesOf /\ PacketsOf' = PacketsOf /\ LoggedLinesOf' = LoggedLinesOf
  BY <1>1 DEF LinesOf, PacketsOf, LoggedLinesOf
<1>4. ASSUME lines' \in DamagedEvents PROVE lines' \in Seq(LinesOf)
  <2>1. DOMAIN lines = 1..Len(lines) /\ Len(lines) \in Nat
    BY <1>2, LenProperties
  <2>2. ASSUME NEW i \in DOMAIN lines, NEW d,
               d \in {[lines[i] EXCEPT !.claim = "damaged"],
                      [lines[i] EXCEPT !.parent = Len(lines) + 1],
                      [lines[i] EXCEPT !.type = "damaged"]}
        PROVE  [lines EXCEPT ![i] = d] \in Seq(LinesOf)
    <3>1. lines[i] \in LinesOf
      BY <1>2, <2>1, ElementOfSeq
    <3>2. PICK j \in DOMAIN log : lines[i] \in LineOf(log[j])
      BY <3>1 DEF LinesOf
    <3>3. Len(lines) + 1 \in Nat
      BY <2>1
    <3>4. d \in LineOf(log[j])
      BY <2>2, <3>2, <3>3 DEF LineOf
    <3>5. d \in LinesOf
      BY <3>4 DEF LinesOf
    <3> QED BY <1>2, <2>1, <3>5, ExceptSeq
  <2>3. CASE lines' \in DamagedOrders(lines)
    BY <1>2, <2>3, OrdersKeep
  <2>4. CASE lines' \in {[lines EXCEPT ![i].claim = "damaged"] : i \in DOMAIN lines}
    <3>1. PICK i \in DOMAIN lines : lines' = [lines EXCEPT ![i].claim = "damaged"]
      BY <2>4
    <3>2. lines' = [lines EXCEPT ![i] = [lines[i] EXCEPT !.claim = "damaged"]]
      BY <3>1
    <3> QED BY <2>2, <3>2
  <2>5. CASE lines' \in {[lines EXCEPT ![i].parent = Len(lines) + 1] : i \in DOMAIN lines}
    <3>1. PICK i \in DOMAIN lines : lines' = [lines EXCEPT ![i].parent = Len(lines) + 1]
      BY <2>5
    <3>2. lines' = [lines EXCEPT ![i] = [lines[i] EXCEPT !.parent = Len(lines) + 1]]
      BY <3>1
    <3> QED BY <2>2, <3>2
  <2>6. CASE lines' \in {[lines EXCEPT ![i].type = "damaged"] : i \in DOMAIN lines}
    <3>1. PICK i \in DOMAIN lines : lines' = [lines EXCEPT ![i].type = "damaged"]
      BY <2>6
    <3>2. lines' = [lines EXCEPT ![i] = [lines[i] EXCEPT !.type = "damaged"]]
      BY <3>1
    <3> QED BY <2>2, <3>2
  <2> QED BY <1>4, <2>3, <2>4, <2>5, <2>6 DEF DamagedEvents
<1>5. ASSUME packets' \in DamagedPackets PROVE packets' \in Seq(PacketsOf)
  <2>1. DOMAIN packets = 1..Len(packets)
    BY <1>2, LenProperties
  <2>2. ASSUME NEW i \in DOMAIN packets, NEW d,
               d \in {[packets[i] EXCEPT !.hash = <<"damaged">>],
                      [packets[i] EXCEPT !.previous = <<"damaged">>],
                      [packets[i] EXCEPT !.body = <<"damaged">>],
                      [packets[i] EXCEPT !.safe = FALSE]}
        PROVE  [packets EXCEPT ![i] = d] \in Seq(PacketsOf)
    <3>1. packets[i] \in PacketsOf
      BY <1>2, <2>1, ElementOfSeq
    <3>2. PICK j \in DOMAIN built : packets[i] \in PacketOf(built[j])
      BY <3>1 DEF PacketsOf
    <3>3. d \in PacketOf(built[j])
      BY <2>2, <3>2 DEF PacketOf
    <3>4. d \in PacketsOf
      BY <3>3 DEF PacketsOf
    <3> QED BY <1>2, <2>1, <3>4, ExceptSeq
  <2>3. CASE packets' \in DamagedOrders(packets)
    BY <1>2, <2>3, OrdersKeep
  <2>4. CASE packets' \in {[packets EXCEPT ![i].hash = <<"damaged">>] : i \in DOMAIN packets}
    <3>1. PICK i \in DOMAIN packets : packets' = [packets EXCEPT ![i].hash = <<"damaged">>]
      BY <2>4
    <3>2. packets' = [packets EXCEPT ![i] = [packets[i] EXCEPT !.hash = <<"damaged">>]]
      BY <3>1
    <3> QED BY <2>2, <3>2
  <2>5. CASE packets' \in {[packets EXCEPT ![i].previous = <<"damaged">>] :
                             i \in DOMAIN packets}
    <3>1. PICK i \in DOMAIN packets : packets' = [packets EXCEPT ![i].previous = <<"damaged">>]
      BY <2>5
    <3>2. packets' = [packets EXCEPT ![i] = [packets[i] EXCEPT !.previous = <<"damaged">>]]
      BY <3>1
    <3> QED BY <2>2, <3>2
  <2>6. CASE packets' \in {[packets EXCEPT ![i].body = <<"damaged">>] : i \in DOMAIN packets}
    <3>1. PICK i \in DOMAIN packets : packets' = [packets EXCEPT ![i].body = <<"damaged">>]
      BY <2>6
    <3>2. packets' = [packets EXCEPT ![i] = [packets[i] EXCEPT !.body = <<"damaged">>]]
      BY <3>1
    <3> QED BY <2>2, <3>2
  <2>7. CASE packets' \in {[packets EXCEPT ![i].safe = FALSE] : i \in DOMAIN packets}
    <3>1. PICK i \in DOMAIN packets : packets' = [packets EXCEPT ![i].safe = FALSE]
      BY <2>7
    <3>2. packets' = [packets EXCEPT ![i] = [packets[i] EXCEPT !.safe = FALSE]]
      BY <3>1
    <3> QED BY <2>2, <3>2
  <2> QED BY <1>5, <2>3, <2>4, <2>5, <2>6, <2>7 DEF DamagedPackets
<1>6. ASSUME trace' \in DamagedTraces
      PROVE  DOMAIN trace' = TraceFields /\ trace'.event_log \in Seq(LoggedLinesOf)
  <2> DEFINE logged == trace.event_log
  <2>0. "event_log" \in DOMAIN trace /\ logged \in Seq(LoggedLinesOf)
    BY <1>2 DEF TraceFields
  <2>1. DOMAIN logged = 1..Len(logged)
    BY <2>0, LenProperties
  <2>2. ASSUME NEW s \in Seq(LoggedLinesOf), trace' = [trace EXCEPT !.event_log = s]
        PROVE  DOMAIN trace' = TraceFields /\ trace'.event_log \in Seq(LoggedLinesOf)
    BY <1>2, <2>0, <2>2
  <2>3. CASE trace' \in {[trace EXCEPT !.event_log = s] : s \in DamagedOrders(logged)}
    <3>1. PICK s \in DamagedOrders(logged) : trace' = [trace EXCEPT !.event_log = s]
      BY <2>3
    <3>2. s \in Seq(LoggedLinesOf)
      BY <2>0, OrdersKeep
    <3> QED BY <2>2, <3>1, <3>2
  <2>4. CASE trace' \in {[trace EXCEPT !.event_log[i].claim = "altered"] :
                           i \in DOMAIN trace.event_log}
    <3>1. PICK i \in DOMAIN logged : trace' = [trace EXCEPT !.event_log[i].claim = "altered"]
      BY <2>4
    <3> DEFINE d == [logged[i] EXCEPT !.claim = "altered"]
               s == [logged EXCEPT ![i] = d]
    <3>2. trace' = [trace EXCEPT !.event_log = s]
      BY <3>1
    <3>3. logged[i] \in LoggedLinesOf
      BY <2>0, <2>1, ElementOfSeq
    <3>4. PICK j \in DOMAIN log : logged[i] \in LoggedOf(log[j])
      BY <3>3 DEF LoggedLinesOf
    <3>5. d \in LoggedOf(log[j])
      BY <3>4 DEF LoggedOf
    <3>6. d \in LoggedLinesOf
      BY <3>5 DEF LoggedLinesOf
    <3> HIDE DEF d
    <3>7. s \in Seq(LoggedLinesOf)
      BY <2>0, <2>1, <3>6, ExceptSeq
    <3> QED BY <2>2, <3>2, <3>7
  <2>5. CASE trace' \in {[trace EXCEPT !.nodes = {}], [trace EXCEPT !.safe = FALSE]}
    BY <1>2, <2>5 DEF TraceFields
  <2> QED BY <1>6, <2>3, <2>4, <2>5 DEF DamagedTraces
<1> QED BY <1>1, <1>2, <1>3, <1>4, <1>5, <1>6 DEF DryRunInv, Planning

\* The plans are made of the files as they are then, and so are the errors.
LEMMA PlanningKeepsDryRun ==
  ASSUME EndInv, DryRunInv, ReadAndPlan \/ PlanDiff \/ Validate \/ CheckVendor
  PROVE  DryRunInv'
<1>1. /\ pc \in DryRunPart /\ pc' \in {"raise", "diff", "validate", "vendor", "final"}
      /\ log' = log /\ built' = built /\ lines' = lines /\ packets' = packets
      /\ trace' = trace /\ script' = script
  BY DEF ReadAndPlan, PlanDiff, Validate, CheckVendor, DryRunPart, config, emitted
<1>2. Planning /\ script = "dryrun"
  BY <1>1 DEF Planning, EndInv
<1>3. /\ Len(log) = Expected /\ Len(built) = Expected
      /\ lines \in Seq(LinesOf) /\ packets \in Seq(PacketsOf)
      /\ DOMAIN trace = TraceFields /\ trace.event_log \in Seq(LoggedLinesOf)
      /\ DOMAIN plans = {"replay", "forks", "diff"}
  BY <1>2 DEF DryRunInv
<1>4. LinesOf' = LinesOf /\ PacketsOf' = PacketsOf /\ LoggedLinesOf' = LoggedLinesOf
  BY <1>1 DEF LinesOf, PacketsOf, LoggedLinesOf
<1>5. CASE ReadAndPlan
  <2>1. \/ pc' = "raise" /\ plans' = plans
        \/ /\ pc' = "diff" /\ ~PlanRaises(lines, packets)
           /\ plans' = [plans EXCEPT !.replay = ReplayPlan(lines, packets),
                                     !.forks = ForkPlan(lines, packets)]
    BY <1>5, Zenon DEF ReadAndPlan
  <2>2. CASE pc' = "raise" /\ plans' = plans
    <3>1. ~Planning'
      BY <2>2 DEF Planning, DryRunPart
    <3> QED BY <1>3, <2>2, <3>1 DEF DryRunInv
  <2>3. CASE /\ pc' = "diff" /\ ~PlanRaises(lines, packets)
             /\ plans' = [plans EXCEPT !.replay = ReplayPlan(lines, packets),
                                       !.forks = ForkPlan(lines, packets)]
    <3>1. /\ DOMAIN plans' = {"replay", "forks", "diff"}
          /\ plans'.replay = ReplayPlan(lines, packets)
          /\ plans'.forks = ForkPlan(lines, packets)
      BY <1>3, <2>3
    <3> QED BY <1>1, <1>3, <1>4, <2>3, <3>1 DEF DryRunInv
  <2> QED BY <2>1, <2>2, <2>3
<1>6. CASE PlanDiff
  <2>1. /\ pc = "diff" /\ pc' = "validate"
        /\ plans' = [plans EXCEPT !.diff = DiffReport(lines, packets, plans.forks)]
    BY <1>6, Zenon DEF PlanDiff
  <2>2. /\ DOMAIN plans' = {"replay", "forks", "diff"}
        /\ plans'.replay = plans.replay /\ plans'.forks = plans.forks
        /\ plans'.diff = DiffReport(lines, packets, plans.forks)
    BY <1>3, <2>1
  <2>3. /\ ~PlanRaises(lines, packets) /\ plans.replay = ReplayPlan(lines, packets)
        /\ plans.forks = ForkPlan(lines, packets)
    BY <1>2, <2>1 DEF DryRunInv
  <2> QED BY <1>1, <1>3, <1>4, <2>1, <2>2, <2>3 DEF DryRunInv
<1>7. CASE Validate
  <2>1. /\ pc = "validate" /\ pc' = "vendor" /\ plans' = plans
        /\ errors' = TraceErrors(lines, Expected) \cup GraphErrors(trace, lines)
                       \cup ChainErrors(packets, lines, Expected)
                       \cup PlanErrors(plans.replay, plans.forks, Decisions(plans.forks), lines,
                                       packets)
    BY <1>7, Zenon DEF Validate
  <2>2. /\ ~PlanRaises(lines, packets) /\ plans.replay = ReplayPlan(lines, packets)
        /\ plans.forks = ForkPlan(lines, packets)
        /\ plans.diff = DiffReport(lines, packets, plans.forks)
    BY <1>2, <2>1 DEF DryRunInv
  <2> QED BY <1>1, <1>3, <1>4, <2>1, <2>2 DEF DryRunInv
<1>8. CASE CheckVendor
  <2>0. pc = "vendor" /\ pc' \in {"final", "raise"} /\ plans' = plans /\ errors' = errors
    BY <1>8 DEF CheckVendor
  <2>3. CASE pc' = "raise"
    <3>1. ~Planning'
      BY <2>3 DEF Planning, DryRunPart
    <3> QED BY <1>3, <2>0, <3>1 DEF DryRunInv
  <2> SUFFICES ASSUME pc' = "final"
               PROVE  DryRunInv'
    BY <2>0, <2>3
  <2>1. pc = "vendor" /\ pc' = "final" /\ plans' = plans /\ errors' = errors
    BY <2>0
  <2>2. /\ ~PlanRaises(lines, packets) /\ plans.replay = ReplayPlan(lines, packets)
        /\ plans.forks = ForkPlan(lines, packets)
        /\ plans.diff = DiffReport(lines, packets, plans.forks)
        /\ errors = TraceErrors(lines, Expected) \cup GraphErrors(trace, lines)
                      \cup ChainErrors(packets, lines, Expected)
                      \cup PlanErrors(plans.replay, plans.forks, Decisions(plans.forks), lines,
                                      packets)
    BY <1>2, <2>1, Zenon DEF DryRunInv
  <2> QED BY <1>1, <1>3, <1>4, <2>1, <2>2 DEF DryRunInv
<1> QED BY <1>5, <1>6, <1>7, <1>8

\* Every other step is not in the dry run's part when it is over, or changes nothing.
LEMMA OthersLeaveDryRun ==
  ASSUME EndInv, [Next]_vars,
         ~(ReadAndPlan \/ PlanDiff \/ Validate \/ CheckVendor \/ Damage),
         ~(WritePackets /\ pc' = "read")
  PROVE  UNCHANGED vars \/ (~Planning' /\ plans' = plans)
<1> USE DEF derived, config, Planning, DryRunPart
<1>1. CASE Begin
  BY <1>1 DEF Begin
<1>2. CASE EmitTrace \/ EmitGraph \/ EmitPackets \/ EmitDryRun
  <2>1. EmitEvent(Claim)
    BY <1>2, Emitting
  <2>2. plans' = plans /\ pc \in Emissions /\ pc' = NextStatement(pc)
    BY <2>1 DEF EmitEvent
  <2>3. pc' \in Emissions \cup {"derive"}
    BY <2>2, NextStatements
  <2> QED BY <2>2, <2>3 DEF Emissions
<1>3. CASE EarlyTrace \/ EarlyGraph \/ EarlyPackets \/ EarlyDryRun
  BY <1>3 DEF EarlyTrace, EarlyGraph, EarlyPackets, EarlyDryRun, WriteFinal
<1>4. CASE EarlyRaw \/ WriteSummary \/ WriteRaw
  BY <1>4 DEF EarlyRaw, WriteSummary, WriteRaw, WriteFile
<1>5. CASE EarlySummary
  BY <1>5 DEF EarlySummary
<1>6. CASE Derive
  BY <1>6 DEF Derive, HasGraph, HasPackets
<1>7. CASE BuildPacket
  BY <1>7 DEF BuildPacket
<1>8. CASE WritePackets
  <2>1. /\ pc = "pack" /\ plans' = plans /\ script' = script
        /\ \/ script = "packets" /\ pc' = "final"
           \/ pc' \in {"read", "early"}
    BY <1>8 DEF WritePackets
  <2> QED BY <1>8, <2>1
<1>9. CASE FinishTrace \/ FinishGraph \/ FinishPackets \/ FinishDryRun
  BY <1>9 DEF FinishTrace, FinishGraph, FinishPackets, FinishDryRun, WriteFinal
<1>10. CASE PrintState \/ Handle
  BY <1>10 DEF PrintState, Handle
<1>11. CASE Kill
  BY <1>11 DEF Kill
<1>12. CASE UNCHANGED vars
  BY <1>12
<1> QED BY <1>1, <1>2, <1>3, <1>4, <1>5, <1>6, <1>7, <1>8, <1>9, <1>10, <1>11, <1>12
        DEF Next, Step

\* What the dry run has read and planned is known after every step.
LEMMA DryRunStep ==
  ASSUME EndInv, EmitInv, PacketsInv, DryRunInv, [Next]_vars
  PROVE  DryRunInv'
<1>1. CASE ReadAndPlan \/ PlanDiff \/ Validate \/ CheckVendor
  BY <1>1, PlanningKeepsDryRun
<1>2. CASE Damage
  BY <1>2, DamageKeepsDryRun
<1>3. CASE WritePackets /\ pc' = "read"
  BY <1>3, WriteBeginsDryRun
<1>4. CASE ~Planning' /\ plans' = plans
  BY <1>4 DEF DryRunInv
<1>5. CASE UNCHANGED vars
  <2>1. /\ pc' = pc /\ script' = script /\ log' = log /\ built' = built /\ lines' = lines
        /\ packets' = packets /\ trace' = trace /\ plans' = plans /\ errors' = errors
    BY <1>5 DEF vars, config, emitted, derived
  <2> QED BY <2>1, Zenon DEF DryRunInv, Planning, LinesOf, PacketsOf, LoggedLinesOf
<1> QED BY <1>1, <1>2, <1>3, <1>4, <1>5, OthersLeaveDryRun

-----------------------------------------------------------------------------
(* What the validators of the dry run let pass.                            *)

\* The two copies of an event are damaged in different fields, so that what
\* both can be is the event.
LEMMA BothAreTheEvent ==
  ASSUME NEW e \in EventType, NEW x \in LineOf(e), x \in LoggedOf(e)
  PROVE  x = e
<1> DEFINE types == {TypeOf(at) : at \in Emissions}
           components == {ComponentOf(at) : at \in Emissions}
           texts == STRING \cup {Absent}
           claims == PassStates \cup Failures \cup {Absent}
<1>1. e \in [id : Nat, parent : Nat, type : types, component : components, task : BOOLEAN,
             turn : Nat, role : texts, tool : texts, state : {"initial", "final", Absent},
             claim : claims]
  BY DEF EventType
<1> HIDE DEF types, components, texts, claims
<1>2. x.claim \in {e.claim, "damaged"} /\ x.claim \in {e.claim, "altered"}
  BY DEF LineOf, LoggedOf
<1>3. x.claim = e.claim
  BY <1>2
<1>4. x.id = e.id /\ x.parent = e.parent /\ x.type = e.type /\ x.component = e.component
      /\ x.task = e.task /\ x.turn = e.turn /\ x.role = e.role /\ x.tool = e.tool
      /\ x.state = e.state
  BY DEF LoggedOf
<1>5. x = [id |-> x.id, parent |-> x.parent, type |-> x.type, component |-> x.component,
           task |-> x.task, turn |-> x.turn, role |-> x.role, tool |-> x.tool,
           state |-> x.state, claim |-> x.claim]
  BY DEF LoggedOf
<1>6. e = [id |-> e.id, parent |-> e.parent, type |-> e.type, component |-> e.component,
           task |-> e.task, turn |-> e.turn, role |-> e.role, tool |-> e.tool,
           state |-> e.state, claim |-> e.claim]
  BY <1>1
<1> QED BY <1>3, <1>4, <1>5, <1>6

\* The events are accepted only as they were emitted: their ids fix the order,
\* and the projection says the same.
LEMMA LogAccepted ==
  ASSUME EmitInv, lines \in Seq(LinesOf), trace.event_log \in Seq(LoggedLinesOf),
         Len(log) = Expected, TraceErrors(lines, Expected) = {},
         GraphErrors(trace, lines) = {}
  PROVE  /\ lines = log
         /\ trace.event_log = log /\ trace.counts = Len(log) /\ trace.safe
<1>1. trace.event_log = lines /\ trace.counts = Len(lines) /\ trace.safe
  BY DEF GraphErrors, ProjectionErrors
<1>2. Len(lines) = Len(log) /\ \A i \in DOMAIN lines : lines[i].id = i
  BY DEF TraceErrors
<1>3. /\ log \in Seq(EventType) /\ Len(log) \in Nat
      /\ DOMAIN log = 1..Len(log) /\ DOMAIN lines = 1..Len(log)
  BY <1>2, LenProperties DEF EmitInv
<1>4. ASSUME NEW i \in DOMAIN lines
      PROVE  lines[i] = log[i]
  <2>1. lines[i] \in LinesOf /\ lines[i] \in LoggedLinesOf /\ lines[i].id = i
    BY <1>1, <1>2, ElementOfSeq, LenProperties
  <2>2. PICK j \in DOMAIN log : lines[i] \in LineOf(log[j])
    BY <2>1 DEF LinesOf
  <2>3. PICK k \in DOMAIN log : lines[i] \in LoggedOf(log[k])
    BY <2>1 DEF LoggedLinesOf
  <2>4. lines[i].id = log[j].id /\ lines[i].id = log[k].id
    BY <2>2, <2>3 DEF LineOf, LoggedOf
  <2>5. log[j].id = j /\ log[k].id = k
    BY DEF EmitInv
  <2>6. j = i /\ k = i
    BY <2>1, <2>4, <2>5
  <2>7. log[i] \in EventType
    BY <1>3, <2>6
  <2> QED BY <2>2, <2>3, <2>6, <2>7, BothAreTheEvent
<1>5. lines \in Seq(EventType)
  <2>1. \A i \in DOMAIN lines : lines[i] \in EventType
    BY <1>3, <1>4
  <2> QED BY <2>1, Retyped
<1>6. lines = log
  <2>1. \A i \in 1..Len(lines) : lines[i] = log[i]
    BY <1>2, <1>3, <1>4
  <2> QED BY <1>2, <1>3, <1>5, <2>1, SeqEqual
<1> QED BY <1>1, <1>6

\* Packet i of those built is numbered i and made from event i.
LEMMA BuiltFields ==
  ASSUME EmitInv, PacketsInv, NEW i \in DOMAIN built
  PROVE  /\ i \in Nat \ {0} /\ i \in DOMAIN log
         /\ built[i].id = i /\ built[i].index = i - 1 /\ built[i].event = i
         /\ DOMAIN built[i] = {"id", "index", "event", "previous", "safe", "body", "hash"}
         /\ built[i].hash = HashOf(built[i])
<1> DEFINE previous == PreviousHash(built, i)
<1>1. i \in DOMAIN log /\ built[i] = Packet(i - 1, log[i], previous) /\ log[i].id = i
  BY DEF PacketsInv, EmitInv
<1>2. i \in Nat \ {0} /\ (i - 1) + 1 = i
  BY <1>1, LenProperties DEF EmitInv
<1> HIDE DEF previous
<1>3. /\ Packet(i - 1, log[i], previous).id = (i - 1) + 1
      /\ Packet(i - 1, log[i], previous).index = i - 1
      /\ Packet(i - 1, log[i], previous).event = log[i].id
      /\ DOMAIN Packet(i - 1, log[i], previous) =
           {"id", "index", "event", "previous", "safe", "body", "hash"}
      /\ Packet(i - 1, log[i], previous).hash = HashOf(Packet(i - 1, log[i], previous))
  BY DEF Packet, HashOf
<1> QED BY <1>1, <1>2, <1>3

\* The packets are accepted only as they were built: a hash that is right for
\* its packet is the one that was written, and all else with it.
LEMMA PacketsAccepted ==
  ASSUME EmitInv, PacketsInv, packets \in Seq(PacketsOf), Len(built) = Expected,
         NEW events, ChainErrors(packets, events, Expected) = {}
  PROVE  packets = built
<1>1. Len(packets) = Len(built)
      /\ \A i \in DOMAIN packets : PacketErrors(packets, events, i) = {}
  BY DEF ChainErrors
<1>2. /\ built \in Seq(Elements(built)) /\ Len(built) \in Nat
      /\ DOMAIN built = 1..Len(built) /\ DOMAIN packets = 1..Len(built)
  BY <1>1, LenProperties DEF PacketsInv
<1>3. ASSUME NEW i \in DOMAIN packets
      PROVE  packets[i] = built[i]
  <2>1. packets[i].id = i /\ packets[i].hash = HashOf(packets[i])
    BY <1>1 DEF PacketErrors
  <2>2. PICK j \in DOMAIN built : packets[i] \in PacketOf(built[j])
    <3>1. packets[i] \in PacketsOf
      BY ElementOfSeq, LenProperties
    <3> QED BY <3>1 DEF PacketsOf
  <2>3. packets[i].id = built[j].id
    BY <2>2 DEF PacketOf
  <2>4. built[j].id = j
    BY BuiltFields
  <2>5. j = i
    BY <2>1, <2>3, <2>4
  <2>6. packets[i].hash \in {built[i].hash, <<"damaged">>}
    BY <2>2, <2>5 DEF PacketOf
  <2>7. HashOf(packets[i]) # <<"damaged">>
    BY DEF HashOf
  <2>8. HashOf(packets[i]) = HashOf(built[i]) /\ packets[i].hash = built[i].hash
    BY <2>1, <2>2, <2>5, <2>6, <2>7, BuiltFields, Zenon
  <2>9. /\ packets[i].id = built[i].id /\ packets[i].index = built[i].index
        /\ packets[i].event = built[i].event /\ packets[i].previous = built[i].previous
        /\ packets[i].body = built[i].body /\ packets[i].safe = built[i].safe
    BY <2>8 DEF HashOf
  <2>10. packets[i] = [id |-> packets[i].id, index |-> packets[i].index,
                       event |-> packets[i].event, previous |-> packets[i].previous,
                       safe |-> packets[i].safe, body |-> packets[i].body,
                       hash |-> packets[i].hash]
    BY <2>2 DEF PacketOf
  <2>11. built[i] = [id |-> built[i].id, index |-> built[i].index,
                     event |-> built[i].event, previous |-> built[i].previous,
                     safe |-> built[i].safe, body |-> built[i].body,
                     hash |-> built[i].hash]
    <3>1. built[i] = Packet(i - 1, log[i], PreviousHash(built, i))
      BY <2>5 DEF PacketsInv
    <3> QED BY <3>1 DEF Packet
  <2> QED BY <2>8, <2>9, <2>10, <2>11
<1>4. packets \in Seq(Elements(built))
  <2>1. \A i \in DOMAIN packets : packets[i] \in Elements(built)
    BY <1>2, <1>3 DEF Elements
  <2> QED BY <2>1, Retyped
<1>5. \A i \in 1..Len(packets) : packets[i] = built[i]
  BY <1>1, <1>2, <1>3
<1> QED BY <1>1, <1>2, <1>4, <1>5, SeqEqual

-----------------------------------------------------------------------------
(* What is planned from files that are as they were written.               *)

\* A set of numbers has a least one, as list.index and next() find it.
LEMMA Least ==
  ASSUME NEW T \in SUBSET Nat, T # {}
  PROVE  \E x \in T : \A y \in T : x <= y
<1> DEFINE R == {ss \in Nat \X Nat : ss[1] < ss[2]}
<1>1. IsWellFoundedOn(R, Nat)
  BY NatLessThanWellFounded DEF OpToRel
<1>2. ASSUME NEW x \in Nat, NEW y \in Nat, y < x PROVE <<y, x>> \in R
  BY <1>2
<1> HIDE DEF R
<1>3. PICK x \in T : \A y \in T : ~(<<y, x>> \in R)
  BY <1>1, WFMin
<1>4. ASSUME NEW y \in T PROVE x <= y
  <2>1. x \in Nat /\ y \in Nat
    OBVIOUS
  <2>2. ~(y < x)
    BY <2>1, <1>2, <1>3
  <2> QED BY <2>1, <2>2
<1> QED BY <1>4

\* Every event has the one packet of its own number, and a packet is found by it.
LEMMA PacketsFound ==
  ASSUME EmitInv, PacketsInv, NEW i \in DOMAIN built
  PROVE  /\ PacketsOfEvent(built, i) = {i}
         /\ PacketByEvent(built, i).id = i
         /\ PacketById(built, i).index = i - 1
<1>1. \A j \in DOMAIN built : j \in Nat /\ built[j].id = j /\ built[j].event = j
  BY BuiltFields
<1>2. PacketsOfEvent(built, i) = {i}
  BY <1>1 DEF PacketsOfEvent
<1>3. PacketByEvent(built, i) = built[i]
  <2> DEFINE Latest(x) == \A j \in PacketsOfEvent(built, i) : j <= x
  <2>1. Latest(i)
    BY <1>1, <1>2
  <2>2. \A x \in PacketsOfEvent(built, i) : Latest(x) <=> x = i
    BY <1>2, <2>1
  <2>3. (CHOOSE x \in PacketsOfEvent(built, i) : Latest(x)) = i
    BY <1>2, <2>2
  <2> QED BY <2>3 DEF PacketByEvent
<1>4. PacketById(built, i) = built[i]
  <2> DEFINE Latest(x) == /\ built[x].id = i
                          /\ \A j \in DOMAIN built : built[j].id = i => j <= x
  <2>1. Latest(i)
    BY <1>1
  <2>2. \A x \in DOMAIN built : Latest(x) <=> x = i
    BY <1>1, <2>1
  <2>3. (CHOOSE x \in DOMAIN built : Latest(x)) = i
    BY <2>1, <2>2
  <2> QED BY <2>3 DEF PacketById
<1> QED BY <1>2, <1>3, <1>4, BuiltFields

\* An event stands where its number says.
LEMMA IndexFound ==
  ASSUME EmitInv, NEW i \in DOMAIN log
  PROVE  IndexOfEvent(log, log[i]) = i - 1
<1>1. \A j \in DOMAIN log : j \in Nat /\ log[j].id = j
  BY LenProperties DEF EmitInv
<1> DEFINE Earliest(x) == /\ log[x] = log[i]
                          /\ \A j \in DOMAIN log : log[j] = log[i] => x <= j
<1>2. \A j \in DOMAIN log : log[j] = log[i] => j = i
  BY <1>1
<1>3. \A x \in DOMAIN log : Earliest(x) <=> x = i
  BY <1>1, <1>2
<1>4. (CHOOSE x \in DOMAIN log : Earliest(x)) = i
  BY <1>3
<1> QED BY <1>4 DEF IndexOfEvent

\* The event a fork is made at is the first of its type.
LEMMA EventFound ==
  ASSUME EmitInv, NEW type, EventsOfType(log, type) # {}
  PROVE  LET f == FindEvent(log, type).id
         IN  /\ f \in DOMAIN log /\ log[f].type = type
             /\ \A j \in DOMAIN log : log[j].type = type => f <= j
<1> DEFINE T == EventsOfType(log, type)
           Earliest(x) == \A j \in T : x <= j
<1>1. T \in SUBSET Nat /\ T \subseteq DOMAIN log /\ T # {}
  BY LenProperties DEF EmitInv, EventsOfType
<1>2. \E x \in T : Earliest(x)
  <2> HIDE DEF T
  <2> QED BY <1>1, Least
<1>3. PICK f : f = CHOOSE x \in T : Earliest(x)
  OBVIOUS
<1>4. f \in T /\ Earliest(f)
  BY <1>2, <1>3
<1>5. FindEvent(log, type) = log[f]
  BY <1>3 DEF FindEvent
<1>6. FindEvent(log, type).id = f
  BY <1>1, <1>4, <1>5 DEF EmitInv
<1> QED BY <1>4, <1>6 DEF EventsOfType

\* The points a dry run forks at.
Fork(k) == FindEvent(log, SafeForkSelectors[k].type).id

\* The fork points are four different events, one after the other.
LEMMA ForksFound ==
  ASSUME EmitInv, OrderInv, ~PlanRaises(log, built)
  PROVE  /\ \A k \in 1..4 : Fork(k) \in DOMAIN log
         /\ Fork(1) < Fork(2) /\ Fork(2) < Fork(3) /\ Fork(3) < Fork(4)
<1>1. /\ DOMAIN SafeForkSelectors = 1..4
      /\ SafeForkSelectors[1].type = "run.started" /\ SafeForkSelectors[2].type = "task.started"
      /\ SafeForkSelectors[3].type = "tool.dispatch_requested"
      /\ SafeForkSelectors[4].type = "evaluation.completed"
  BY DEF SafeForkSelectors
<1>2. \A k \in 1..4 : /\ Fork(k) \in DOMAIN log
                      /\ log[Fork(k)].type = SafeForkSelectors[k].type
  <2> SUFFICES ASSUME NEW k \in 1..4
               PROVE  /\ Fork(k) \in DOMAIN log
                      /\ log[Fork(k)].type = SafeForkSelectors[k].type
    OBVIOUS
  <2>1. EventsOfType(log, SafeForkSelectors[k].type) # {}
    BY <1>1 DEF PlanRaises
  <2> QED BY <2>1, EventFound DEF Fork
<1>3. \A i \in DOMAIN log : i \in Nat
  BY LenProperties DEF EmitInv
<1>4. 1 \in 1..4 /\ 2 \in 1..4 /\ 3 \in 1..4 /\ 4 \in 1..4
  OBVIOUS
<1>5. Fork(1) = 1 /\ Fork(2) = 4 /\ Fork(3) > 6 /\ Fork(4) > Fork(3)
  <2>1. log[Fork(1)].type = "run.started" /\ log[Fork(2)].type = "task.started"
        /\ log[Fork(3)].type = "tool.dispatch_requested"
        /\ log[Fork(4)].type = "evaluation.completed"
        /\ Fork(1) \in DOMAIN log /\ Fork(2) \in DOMAIN log /\ Fork(3) \in DOMAIN log
        /\ Fork(4) \in DOMAIN log
    BY <1>1, <1>2, <1>4
  <2>2. Fork(1) = 1 /\ Fork(2) = 4 /\ Fork(3) > 6
    BY <2>1 DEF OrderInv
  <2>3. Fork(3) < Fork(4)
    BY <2>1 DEF OrderInv
  <2> QED BY <1>3, <2>1, <2>2, <2>3
<1> QED BY <1>2, <1>3, <1>4, <1>5

\* The comparison of two neighbouring forks covers the events from one to the other.
LEMMA WindowsFound ==
  ASSUME EmitInv, OrderInv, PacketsInv, DOMAIN built = DOMAIN log, ~PlanRaises(log, built),
         NEW forks, forks = ForkPlan(log, built)
  PROVE  /\ Len(DiffReport(log, built, forks)) = 3
         /\ \A k \in 1..3 : DiffReport(log, built, forks)[k].window =
                              {i \in DOMAIN log : Fork(k) <= i /\ i <= Fork(k + 1)}
         /\ \A k \in 1..4 : forks[k].event = Fork(k)
<1>1. DOMAIN SafeForkSelectors = 1..4
  BY DEF SafeForkSelectors
<1>2. Len(forks) = 4
  <2>1. DOMAIN forks = 1..4
    BY <1>1 DEF ForkPlan
  <2>2. forks \in Seq({forks[k] : k \in 1..4})
    BY <1>1 DEF ForkPlan
  <2> QED BY <2>1, <2>2, LenProperties
<1>3. \A k \in 1..4 : Fork(k) \in DOMAIN log /\ Fork(k) \in DOMAIN built
  BY ForksFound
<1>4. ASSUME NEW k \in 1..4
      PROVE  /\ forks[k].event = Fork(k) /\ forks[k].packet = Fork(k)
             /\ PacketById(built, forks[k].packet).index = Fork(k) - 1
  <2>1. /\ forks[k].event = Fork(k) /\ forks[k].packet = PacketByEvent(built, Fork(k)).id
    BY <1>1 DEF ForkPlan, Fork
  <2>2. /\ PacketByEvent(built, Fork(k)).id = Fork(k)
        /\ PacketById(built, Fork(k)).index = Fork(k) - 1
    BY <1>3, PacketsFound
  <2> QED BY <2>1, <2>2
<1> DEFINE diff == DiffReport(log, built, forks)
<1>5. DOMAIN diff = 1..3
  BY <1>2 DEF DiffReport
<1>6. Len(diff) = 3
  <2>1. diff \in Seq({diff[k] : k \in 1..3})
    BY <1>2 DEF DiffReport
  <2> QED BY <1>5, <2>1, LenProperties
<1>7. ASSUME NEW k \in 1..3
      PROVE  diff[k].window = {i \in DOMAIN log : Fork(k) <= i /\ i <= Fork(k + 1)}
  <2>1. k \in 1..4 /\ k + 1 \in 1..4
    OBVIOUS
  <2>2. /\ PacketById(built, forks[k].packet).index = Fork(k) - 1
        /\ PacketById(built, forks[k + 1].packet).index = Fork(k + 1) - 1
    BY <1>4, <2>1
  <2>3. diff[k].window =
          {log[i].id : i \in {j \in DOMAIN log :
             /\ PacketById(built, forks[k].packet).index <= IndexOfEvent(log, log[j])
             /\ IndexOfEvent(log, log[j]) <= PacketById(built, forks[k + 1].packet).index}}
    BY <1>2 DEF DiffReport
  <2>4. \A j \in DOMAIN log : j \in Nat /\ log[j].id = j
    BY LenProperties DEF EmitInv
  <2>5. \A j \in DOMAIN log : IndexOfEvent(log, log[j]) = j - 1
    BY IndexFound
  <2>6. Fork(k) \in Nat /\ Fork(k + 1) \in Nat
    BY <1>3, <2>1, <2>4
  <2>7. {j \in DOMAIN log : /\ Fork(k) - 1 <= IndexOfEvent(log, log[j])
                            /\ IndexOfEvent(log, log[j]) <= Fork(k + 1) - 1}
          = {i \in DOMAIN log : Fork(k) <= i /\ i <= Fork(k + 1)}
    BY <2>4, <2>5, <2>6
  <2>8. diff[k].window = {log[i].id : i \in {i \in DOMAIN log : Fork(k) <= i
                                                                /\ i <= Fork(k + 1)}}
    BY <2>2, <2>3, <2>7
  <2> HIDE DEF diff
  <2> QED BY <2>4, <2>8
<1> QED BY <1>4, <1>6, <1>7

\* A dry run without errors has read what was written, and its plans follow it.
LEMMA Accepted ==
  ASSUME EmitInv, OrderInv, PacketsInv, DryRunInv, pc = "final", script = "dryrun", errors = {}
  PROVE  /\ lines = log /\ packets = built
         /\ trace.event_log = log /\ trace.counts = Len(log) /\ trace.safe
         /\ DOMAIN plans.replay = DOMAIN log
         /\ \A i \in DOMAIN log : plans.replay[i] = [index |-> i - 1, event |-> i, packet |-> i]
         /\ \A k \in 1..(Len(plans.diff) - 1) :
              plans.diff[k].window \cap plans.diff[k + 1].window = {plans.forks[k + 1].event}
<1>1. Planning /\ pc \notin {"read", "diff", "validate"}
  BY DEF Planning
<1>2. /\ Len(log) = Expected /\ Len(built) = Expected
      /\ lines \in Seq(LinesOf) /\ packets \in Seq(PacketsOf)
      /\ trace.event_log \in Seq(LoggedLinesOf)
      /\ ~PlanRaises(lines, packets)
      /\ plans.replay = ReplayPlan(lines, packets) /\ plans.forks = ForkPlan(lines, packets)
      /\ plans.diff = DiffReport(lines, packets, plans.forks)
  BY <1>1 DEF DryRunInv
<1>3. /\ TraceErrors(lines, Expected) = {} /\ GraphErrors(trace, lines) = {}
      /\ ChainErrors(packets, lines, Expected) = {}
  <2>1. errors = TraceErrors(lines, Expected) \cup GraphErrors(trace, lines)
                   \cup ChainErrors(packets, lines, Expected)
                   \cup PlanErrors(plans.replay, plans.forks, Decisions(plans.forks), lines,
                                   packets)
    BY <1>1, Zenon DEF DryRunInv
  <2> QED BY <2>1
<1>4. lines = log /\ trace.event_log = log /\ trace.counts = Len(log) /\ trace.safe
  BY <1>2, <1>3, LogAccepted
<1>5. packets = built
  BY <1>2, <1>3, PacketsAccepted
<1>6. /\ DOMAIN log = 1..Expected /\ DOMAIN built = DOMAIN log
      /\ \A i \in DOMAIN log : i \in Nat /\ log[i].id = i
  BY <1>2, LenProperties DEF EmitInv, PacketsInv
<1>7. /\ DOMAIN plans.replay = DOMAIN log
      /\ \A i \in DOMAIN log : plans.replay[i] = [index |-> i - 1, event |-> i, packet |-> i]
  <2>1. plans.replay = ReplayPlan(log, built)
    BY <1>2, <1>4, <1>5
  <2>2. \A i \in DOMAIN log : PacketByEvent(built, log[i].id).id = i
    BY <1>6, PacketsFound
  <2>3. \A i \in DOMAIN log : plans.replay[i] =
          [index |-> i - 1, event |-> log[i].id, packet |-> PacketByEvent(built, log[i].id).id]
    BY <2>1 DEF ReplayPlan
  <2>4. \A i \in DOMAIN log : plans.replay[i] = [index |-> i - 1, event |-> i, packet |-> i]
    BY <1>6, <2>2, <2>3
  <2> QED BY <2>1, <2>4 DEF ReplayPlan
<1>8. /\ Len(plans.diff) = 3
      /\ \A k \in 1..3 : plans.diff[k].window =
                           {i \in DOMAIN log : Fork(k) <= i /\ i <= Fork(k + 1)}
      /\ \A k \in 1..4 : plans.forks[k].event = Fork(k)
  <2>1. /\ ~PlanRaises(log, built) /\ plans.forks = ForkPlan(log, built)
        /\ plans.diff = DiffReport(log, built, plans.forks)
    BY <1>2, <1>4, <1>5
  <2> QED BY <1>6, <2>1, WindowsFound
<1>9. ASSUME NEW k \in 1..(Len(plans.diff) - 1)
      PROVE  plans.diff[k].window \cap plans.diff[k + 1].window = {plans.forks[k + 1].event}
  <2>1. k \in 1..3 /\ k + 1 \in 1..3 /\ k + 1 \in 1..4 /\ k \in {1, 2} /\ (k + 1) + 1 = k + 2
    BY <1>8
  <2>2. /\ plans.diff[k].window = {i \in DOMAIN log : Fork(k) <= i /\ i <= Fork(k + 1)}
        /\ plans.diff[k + 1].window = {i \in DOMAIN log : Fork(k + 1) <= i /\ i <= Fork(k + 2)}
        /\ plans.forks[k + 1].event = Fork(k + 1)
    BY <1>8, <2>1
  <2>3. ~PlanRaises(log, built)
    BY <1>2, <1>4, <1>5
  <2>4. Fork(k + 1) \in DOMAIN log /\ Fork(k) < Fork(k + 1) /\ Fork(k + 1) < Fork(k + 2)
    BY <2>1, <2>3, ForksFound
  <2>5. Fork(k + 1) \in Nat /\ DOMAIN log \subseteq Nat
    BY <1>6, <2>4
  <2>6. Fork(k) \in DOMAIN log /\ Fork(k + 2) \in DOMAIN log
    BY <2>1, <2>3, ForksFound
  <2> QED BY <2>2, <2>4, <2>5, <2>6
<1> QED BY <1>4, <1>5, <1>7, <1>8, <1>9

\* Nothing else passes a dry run, and after a pass nothing is read, made or planned.
LEMMA KeepsAccepted ==
  ASSUME EndInv, [Next]_vars, ~FinishDryRun, final' = DryRunPass
  PROVE  final = DryRunPass /\ UNCHANGED <<lines, log, trace, built, packets, plans>>
<1> USE DEF emitted, derived
<1>1. Absent # DryRunPass
  BY StatesApart
<1>2. pc \in Unwritten => final # DryRunPass
  BY <1>1 DEF EndInv
<1>3. CASE /\ pc \in Unwritten /\ final' = final
  BY <1>2, <1>3
<1>4. CASE UNCHANGED <<final, lines, log, trace, built, packets, plans>>
  BY <1>4
<1>5. CASE EmitTrace \/ EmitGraph \/ EmitPackets \/ EmitDryRun
  <2>1. EmitEvent(Claim)
    BY <1>5, Emitting
  <2>2. pc \in Emissions /\ final' = final
    BY <2>1 DEF EmitEvent, reported
  <2> QED BY <1>3, <2>2 DEF Unwritten
<1>6. CASE EarlyTrace \/ EarlyGraph \/ EarlyPackets \/ EarlyDryRun
  <2>1. final' \in {"upstream_missing", "reactive_manager_validation_failed",
                    "reactive_manager_inputs_missing"}
    BY <1>6 DEF EarlyTrace, EarlyGraph, EarlyPackets, EarlyDryRun, WriteFinal
  <2> QED BY <2>1, StatesApart
<1>7. CASE FinishTrace \/ FinishGraph \/ FinishPackets
  <2>1. script \in Scripts /\ script # "dryrun" /\ final' \in {Claim, PacketState}
    BY <1>7 DEF FinishTrace, FinishGraph, FinishPackets, WriteFinal, TraceState, GraphState,
                EndInv
  <2> QED BY <2>1, StatesApart
<1>8. CASE Begin \/ Derive \/ BuildPacket \/ WritePackets \/ ReadAndPlan \/ PlanDiff \/ Validate
           \/ CheckVendor \/ Damage
  <2>1. pc \in Unwritten /\ final' = final
    BY <1>8 DEF Begin, Derive, BuildPacket, WritePackets, ReadAndPlan, PlanDiff, Validate,
                CheckVendor, Damage, Unwritten, reported
  <2> QED BY <1>3, <2>1
<1>9. CASE EarlyRaw \/ WriteSummary \/ WriteRaw \/ EarlySummary
  BY <1>4, <1>9 DEF EarlyRaw, WriteSummary, WriteRaw, WriteFile, EarlySummary
<1>10. CASE PrintState \/ Handle
  BY <1>4, <1>10 DEF PrintState, Handle
<1>11. CASE Kill \/ UNCHANGED vars
  BY <1>4, <1>11 DEF Kill, vars, reported
<1> QED BY <1>5, <1>6, <1>7, <1>8, <1>9, <1>10, <1>11 DEF Next, Step

\* A pass of the dry run is preceded by its acceptance and followed by no change.
LEMMA AcceptStep ==
  ASSUME EmitInv, EndInv, OrderInv, PacketsInv, DryRunInv, AcceptedOnlyAsWritten, [Next]_vars
  PROVE  AcceptedOnlyAsWritten'
<1>1. CASE FinishDryRun
  <2>1. /\ pc = "final" /\ script = "dryrun" /\ final' = DryRunState
        /\ lines' = lines /\ log' = log /\ trace' = trace /\ built' = built
        /\ packets' = packets /\ plans' = plans
    BY <1>1 DEF FinishDryRun, WriteFinal, emitted, derived
  <2>2. final' = DryRunPass => errors = {}
    BY <2>1, StatesApart DEF DryRunState
  <2>3. CASE errors = {}
    <3>1. /\ lines = log /\ packets = built
          /\ trace.event_log = log /\ trace.counts = Len(log) /\ trace.safe
          /\ DOMAIN plans.replay = DOMAIN log
          /\ \A i \in DOMAIN log :
               plans.replay[i] = [index |-> i - 1, event |-> i, packet |-> i]
          /\ \A k \in 1..(Len(plans.diff) - 1) :
               plans.diff[k].window \cap plans.diff[k + 1].window = {plans.forks[k + 1].event}
      BY <2>1, <2>3, Accepted
    <3> QED BY <2>1, <3>1 DEF AcceptedOnlyAsWritten
  <2>4. CASE final' # DryRunPass
    BY <2>4 DEF AcceptedOnlyAsWritten, DryRunPass
  <2> QED BY <2>2, <2>3, <2>4
<1>2. CASE ~FinishDryRun /\ final' = DryRunPass
  <2>1. final = DryRunPass /\ lines' = lines /\ log' = log /\ trace' = trace
        /\ built' = built /\ packets' = packets /\ plans' = plans
    BY <1>2, KeepsAccepted
  <2> QED BY <2>1 DEF AcceptedOnlyAsWritten
<1>3. CASE final' # DryRunPass
  BY <1>3 DEF AcceptedOnlyAsWritten, DryRunPass
<1> QED BY <1>1, <1>2, <1>3

-----------------------------------------------------------------------------
(* The theorems.                                                           *)

\* The environment keeps its types, and the damages their bound.
LEMMA SettingStep ==
  ASSUME SettingInv, [Next]_vars
  PROVE  SettingInv'
<1> USE DEF SettingInv, config, derived
<1>1. CASE Begin \/ EarlySummary
  BY <1>1 DEF Begin, EarlySummary
<1>2. CASE EmitTrace \/ EmitGraph \/ EmitPackets \/ EmitDryRun
  <2>1. EmitEvent(Claim)
    BY <1>2, Emitting
  <2> QED BY <2>1 DEF EmitEvent
<1>3. CASE EarlyTrace \/ EarlyGraph \/ EarlyPackets \/ EarlyDryRun
  BY <1>3 DEF EarlyTrace, EarlyGraph, EarlyPackets, EarlyDryRun, WriteFinal
<1>4. CASE EarlyRaw \/ WriteSummary \/ WriteRaw
  BY <1>4 DEF EarlyRaw, WriteSummary, WriteRaw, WriteFile
<1>5. CASE Derive \/ BuildPacket \/ WritePackets \/ ReadAndPlan \/ PlanDiff \/ Validate
  BY <1>5 DEF Derive, BuildPacket, WritePackets, ReadAndPlan, PlanDiff, Validate
<1>6. CASE CheckVendor
  BY <1>6 DEF CheckVendor
<1>7. CASE FinishTrace \/ FinishGraph \/ FinishPackets \/ FinishDryRun
  BY <1>7 DEF FinishTrace, FinishGraph, FinishPackets, FinishDryRun, WriteFinal
<1>8. CASE PrintState \/ Handle
  BY <1>8 DEF PrintState, Handle
<1>9. CASE Damage
  <2>1. faults < MaxFaults /\ faults' = faults + 1 /\ vendor' = vendor
        /\ upstream' = upstream /\ runtime' = runtime
    BY <1>9 DEF Damage
  <2> QED BY <2>1, FixtureAssumption
<1>10. CASE Kill \/ UNCHANGED vars
  BY <1>10 DEF Kill, vars
<1> QED BY <1>1, <1>2, <1>3, <1>4, <1>5, <1>6, <1>7, <1>8, <1>9, <1>10 DEF Next, Step

\* The invariant holds before the first statement.
LEMMA InitInv ==
  ASSUME Init
  PROVE  Inv
<1>1. /\ pc = "begin" /\ turn = 1 /\ held = [n \in Names |-> None] /\ lines = <<>> /\ log = <<>>
      /\ nodes = {} /\ edges = {} /\ built = <<>> /\ plans = NoPlans /\ final = Absent
      /\ exit = 2 /\ script \in Scripts /\ symbols \in BOOLEAN
  BY DEF Init
<1>2. Len(log) = 0 /\ DOMAIN log = {} /\ DOMAIN built = {} /\ Len(built) = 0
  BY <1>1
<1>3. SettingInv
  BY FixtureAssumption DEF Init, SettingInv
<1>4. EndInv
  <2>1. pc \in Unwritten /\ pc \notin Written /\ pc # "done" /\ pc # "pack"
        /\ pc \notin DryRunPart
    BY <1>1, Statements
  <2> QED BY <1>1, <2>1 DEF EndInv
<1>5. EmitInv
  <2>1. turn \in DOMAIN Transcript
    <3>1. Len(Transcript) \in Nat /\ DOMAIN Transcript = 1..Len(Transcript)
      BY FixtureAssumption, LenProperties
    <3>2. Len(Transcript) # 0
      BY FixtureAssumption, EmptySeq
    <3> QED BY <1>1, <3>1, <3>2
  <2>2. held \in [Names -> 0..Len(log)]
    BY <1>1, <1>2 DEF None
  <2>3. held["none"] = None
    BY <1>1 DEF Names
  <2>4. log \in Seq(EventType)
    BY <1>1
  <2> QED BY <1>1, <1>2, <2>1, <2>2, <2>3, <2>4 DEF EmitInv
<1>6. GraphFaithful
  BY <1>1, <1>2 DEF GraphFaithful
<1>7. OrderInv
  <2>1. pc \notin Emissions
    BY <1>1, Statements
  <2>2. \A k \in 1..6 : Opening[k] \in Emissions
    BY DEF Opening, Emissions
  <2> QED BY <1>1, <1>2, <2>1, <2>2 DEF OrderInv
<1>8. PacketsInv
  BY <1>1, <1>2 DEF PacketsInv
<1>9. DryRunInv
  <2>1. ~Planning
    BY <1>1 DEF Planning, DryRunPart
  <2> QED BY <1>1, <2>1 DEF DryRunInv, NoPlans
<1>10. AcceptedOnlyAsWritten
  BY <1>1, StatesApart DEF AcceptedOnlyAsWritten
<1> QED BY <1>3, <1>4, <1>5, <1>6, <1>7, <1>8, <1>9, <1>10 DEF Inv

\* The invariant holds of every state that is reached.
THEOREM Invariant == Spec => []Inv
<1>1. Init => Inv
  BY InitInv
<1>2. Inv /\ [Next]_vars => Inv'
  BY SettingStep, EndStep, EmissionStep, PacketsStep, DryRunStep, AcceptStep DEF Inv
<1> QED BY <1>1, <1>2, PTL DEF Spec

\* Every variable has its type, and each event names one before it as its parent.
THEOREM TypeCorrect == Spec => []TypeOK
<1>1. Inv => TypeOK
  BY DEF Inv, SettingInv, EndInv, EmitInv, TypeOK
<1> QED BY <1>1, Invariant, PTL

\* The graph the store keeps is one piece with the events it was given, at every moment.
THEOREM GraphStaysFaithful == Spec => []GraphFaithful
<1>1. Inv => GraphFaithful
  BY DEF Inv
<1> QED BY <1>1, Invariant, PTL

\* A dry run that passes has read events and packets as they were written and the
\* log of the projection, whatever was damaged, and planned from that.
THEOREM AcceptsOnlyAsWritten == Spec => []AcceptedOnlyAsWritten
<1>1. Inv => AcceptedOnlyAsWritten
  BY DEF Inv
<1> QED BY <1>1, Invariant, PTL

\* What a step is for whoever only sees the end of the run.
LEMMA StepKeepsPromise ==
  ASSUME EndInv, [Next]_vars
  PROVE  [Promise!Next]_(Promise!vars)
<1> USE DEF reported, Promise!vars
<1>1. ASSUME pc \notin {"done", "killed"}, pc' \notin {"done", "killed"},
             final' = final, printed' = printed
      PROVE  UNCHANGED Promise!vars
  BY <1>1
<1>2. CASE Begin \/ EarlySummary
  <2>1. /\ pc \notin {"done", "killed"} /\ pc' \notin {"done", "killed"}
        /\ final' = final /\ printed' = printed
    BY <1>2 DEF Begin, EarlySummary
  <2> QED BY <1>1, <2>1
<1>3. CASE EmitTrace \/ EmitGraph \/ EmitPackets \/ EmitDryRun
  <2>1. EmitEvent(Claim)
    BY <1>3, Emitting
  <2>2. pc \in Emissions /\ pc' = NextStatement(pc) /\ final' = final /\ printed' = printed
    BY <2>1 DEF EmitEvent
  <2>3. pc' \in Emissions \cup {"derive"}
    BY <2>2, NextStatements
  <2> QED BY <1>1, <2>2, <2>3 DEF Emissions
<1>4. CASE \/ EarlyTrace \/ EarlyGraph \/ EarlyPackets \/ EarlyDryRun
           \/ FinishTrace \/ FinishGraph \/ FinishPackets \/ FinishDryRun
  <2>1. /\ pc \in {"early", "final"} /\ pc' \in {"early.raw", "summary"}
        /\ printed' = printed
        /\ final' \in {"upstream_missing", "reactive_manager_validation_failed",
                       "reactive_manager_inputs_missing", Claim, PacketState, DryRunState}
    BY <1>4 DEF EarlyTrace, EarlyGraph, EarlyPackets, EarlyDryRun, FinishTrace, FinishGraph,
                FinishPackets, FinishDryRun, WriteFinal, TraceState, GraphState
  <2>2. final' \in PassStates \cup Failures
    BY <2>1, States DEF EndInv, Failures
  <2>3. final = Absent
    BY <2>1, Statements DEF EndInv
  <2> QED BY <2>1, <2>2, <2>3 DEF Promise!Next, Promise!Claim
<1>5. CASE EarlyRaw \/ WriteSummary \/ WriteRaw
  <2>1. /\ pc \notin {"done", "killed"} /\ pc' \notin {"done", "killed"}
        /\ final' = final /\ printed' = printed
    BY <1>5 DEF EarlyRaw, WriteSummary, WriteRaw, WriteFile
  <2> QED BY <1>1, <2>1
<1>6. CASE Derive \/ BuildPacket \/ WritePackets
  <2>1. /\ pc \notin {"done", "killed"} /\ pc' \notin {"done", "killed"}
        /\ final' = final /\ printed' = printed
    BY <1>6 DEF Derive, BuildPacket, WritePackets
  <2> QED BY <1>1, <2>1
<1>7. CASE ReadAndPlan \/ PlanDiff \/ Validate \/ CheckVendor \/ Damage
  <2>1. /\ pc \notin {"done", "killed"} /\ pc' \notin {"done", "killed"}
        /\ final' = final /\ printed' = printed
    BY <1>7 DEF ReadAndPlan, PlanDiff, Validate, CheckVendor, Damage
  <2> QED BY <1>1, <2>1
<1>8. CASE PrintState
  <2>1. /\ pc = "print" /\ pc' = "done" /\ printed' = final /\ final' = final
        /\ exit' = IF final \in PassStates THEN 0 ELSE 1
    BY <1>8 DEF PrintState, ExitCode
  <2>2. final # Absent
    BY <2>1, Statements, StatesApart DEF EndInv
  <2> QED BY <2>1, <2>2 DEF Promise!Next, Promise!Return
<1>9. CASE Handle
  <2>1. pc = "raise" /\ pc' = "done" /\ printed' = ErrorLine /\ final' = final /\ exit' = 1
    BY <1>9 DEF Handle
  <2>2. ErrorLine \in ErrorLines
    BY DEF ErrorLine, ErrorLines, EndInv, Scripts
  <2> QED BY <2>1, <2>2 DEF Promise!Next, Promise!Raise
<1>10. CASE Kill
  <2>1. pc \notin {"done", "killed"} /\ pc' = "killed" /\ final' = final /\ printed' = printed
    BY <1>10 DEF Kill
  <2> QED BY <2>1 DEF Promise!Next, Promise!Kill
<1>11. CASE UNCHANGED vars
  <2>1. pc' = pc /\ final' = final /\ printed' = printed /\ exit' = exit
    BY <1>11 DEF vars
  <2> QED BY <2>1
<1> QED BY <1>2, <1>3, <1>4, <1>5, <1>6, <1>7, <1>8, <1>9, <1>10, <1>11 DEF Next, Step

\* Each of the four scripts ends as every smoke command promises to: the state is written once,
\* and the line printed and the exit code agree with it.
THEOREM KeepsPromise == Spec => Promise!Spec
<1>1. Init => Promise!Init
  BY DEF Init, Promise!Init
<1>2. Inv /\ [Next]_vars => [Promise!Next]_(Promise!vars)
  BY StepKeepsPromise DEF Inv
<1> QED BY <1>1, <1>2, Invariant, PTL DEF Spec, Promise!Spec

=============================================================================
