---------------------------- MODULE FixtureSmoke ----------------------------
(***************************************************************************)
(* One invocation of a fixture smoke: run_trace_smoke (phase 2),           *)
(* run_activegraph_trace_smoke (3), run_state_packet_smoke (4) or          *)
(* run_reactive_manager_dry_run (5).  All four emit the same lifecycle     *)
(* through the same TraceWriter; each then derives more from it: the graph,*)
(* the packets, the plans that are built from the files read back.         *)
(*                                                                         *)
(* A step is one write or one check.  The process may be killed between    *)
(* any two; a file may be damaged before the dry run reads it; the vendored*)
(* tree may be dirty when it is looked at.                                 *)
(***************************************************************************)
EXTENDS TraceArtifacts, SequencesExt

CONSTANTS
    Transcript,     \* FIXTURE_TRANSCRIPT: the turns, each a role and a tool or Absent
    Expected,       \* EXPECTED_FIXTURE_PACKET_COUNT
    MaxFaults       \* bound of the model: damages to the files of one run

ASSUME FixtureAssumption ==
    /\ Transcript \in Seq([role : STRING, tool : STRING]) /\ Transcript # <<>>
    /\ Expected \in Nat /\ MaxFaults \in Nat

Scripts == {"trace", "graph", "packets", "dryrun"}

VARIABLES
    script,         \* which of the four scripts this is
    upstream,       \* the vendored tree is there, at the expected commit
    symbols,        \* inspect_source_symbols found every symbol
    runtime,        \* an ActiveGraph runtime is importable
    pc,             \* the statement main() stands at
    turn,           \* the turn of the transcript being emitted, from 1
    held,           \* the event ids main() holds: held[pc] and latest_parent
    lines,          \* events.jsonl
    log,            \* the events as they were emitted (_events of the store)
    nodes, edges,   \* _nodes and _edges of the store
    trace,          \* activegraph_trace.json
    built,          \* the state packets in memory
    packets,        \* state_packets.jsonl
    errors,         \* the errors of the last validation
    plans,          \* replay, fork and diff plans
    vendor,         \* what git status said of the vendored tree
    dir,            \* the artifacts in the run directory
    final,          \* the state in final_state.json
    listed,         \* the artifacts final_state.json lists
    printed,        \* the status line printed last
    exit,           \* the exit code, 2 while there is none
    faults          \* damages so far

config == <<script, upstream, symbols, runtime>>
emitted == <<turn, held, lines, log, nodes, edges>>
derived == <<trace, built, packets, errors, plans, vendor>>
reported == <<dir, final, listed, printed, exit>>
vars == <<config, pc, emitted, derived, reported, faults>>

-----------------------------------------------------------------------------
(* What the scripts write and claim.                                       *)

NoTrace == [event_log |-> <<>>, counts |-> 0, nodes |-> {}, edges |-> {}, safe |-> TRUE]
NoPlans == [replay |-> <<>>, forks |-> <<>>, diff |-> <<>>]

HasGraph == script # "trace"
HasPackets == script \in {"packets", "dryrun"}

Log == {"final_state.json", "summary.md", "raw.log"}
TraceListed == Log \cup {"events.jsonl"}
GraphListed == TraceListed \cup {"activegraph_trace.json"}
PacketListed == GraphListed \cup {"state_packets.jsonl", "state_packet_index.json"}
PlanFiles == {"replay_plan.json", "fork_plan.json", "diff_report.json",
              "manager_decisions.jsonl", "manager_plan.json"}

\* status_for_store.
StoreStatus == IF runtime THEN "activegraph_trace_runtime_passed"
                          ELSE "activegraph_trace_mock_passed"

TracePass == "trace_smoke_passed"
PacketPass == "state_packet_smoke_passed"
DryRunPass == "reactive_manager_dry_run_passed"
PassStates == {TracePass, PacketPass, DryRunPass,
               "activegraph_trace_runtime_passed", "activegraph_trace_mock_passed"}
Failures == {"source_inspection_failed", "upstream_missing", "state_packet_smoke_failed",
             "reactive_manager_inputs_missing", "reactive_manager_validation_failed"}

PassOf == CASE script = "trace" -> TracePass
            [] script = "graph" -> StoreStatus
            [] script = "packets" -> PacketPass
            [] script = "dryrun" -> DryRunPass

\* The payload of run.completed, written before anything is validated.
Claim == IF symbols THEN PassOf ELSE "source_inspection_failed"

-----------------------------------------------------------------------------
(* Emission.                                                               *)

Emissions == {"run.started", "cli.config_inspected", "batch.started", "task.started",
              "orchestrator.initialized", "initial.snapshot", "turn.started",
              "message.observed", "tool.dispatch_requested", "tool.dispatch_completed",
              "final.snapshot", "evaluation.completed", "results.persisted", "run.completed"}

\* The local variable each emit() passes as parent_event_id.
ParentName ==
    [at \in Emissions |->
       CASE at = "run.started" -> "none"
         [] at \in {"cli.config_inspected", "run.completed"} -> "run.started"
         [] at = "batch.started" -> "cli.config_inspected"
         [] at = "task.started" -> "batch.started"
         [] at = "orchestrator.initialized" -> "task.started"
         [] at = "initial.snapshot" -> "orchestrator.initialized"
         [] at \in {"message.observed", "tool.dispatch_requested"} -> "turn.started"
         [] at = "tool.dispatch_completed" -> "tool.dispatch_requested"
         [] at = "results.persisted" -> "evaluation.completed"
         [] OTHER -> "latest_parent"]

ComponentOf(at) ==
    CASE at \in {"run.started", "run.completed"} -> "runner"
      [] at = "cli.config_inspected" -> "cli"
      [] at \in {"batch.started", "task.started"} -> "runner.batch"
      [] at \in {"orchestrator.initialized", "turn.started"} -> "orchestrator"
      [] at = "message.observed" -> "message"
      [] at = "evaluation.completed" -> "evaluator"
      [] at = "results.persisted" -> "results"
      [] OTHER -> "environment"

InTurn == {"turn.started", "message.observed", "tool.dispatch_requested", "tool.dispatch_completed"}
InTool == {"tool.dispatch_requested", "tool.dispatch_completed"}
InMessage == {"turn.started", "message.observed"}

StateOf(at) ==
    CASE at \in {"orchestrator.initialized", "initial.snapshot"} -> "initial"
      [] at \in {"final.snapshot", "evaluation.completed"} -> "final"
      [] OTHER -> Absent

TypeOf(at) == IF at \in {"initial.snapshot", "final.snapshot"} THEN "state.snapshot" ELSE at

\* TraceWriter.emit numbers the events of a run from 1.
NextEventId == Len(log) + 1

EventAt(at, claim) ==
    Event(NextEventId, held[ParentName[at]], TypeOf(at), ComponentOf(at),
          at \notin {"run.started", "cli.config_inspected", "batch.started", "run.completed"},
          IF at \in InTurn THEN turn ELSE 0,
          IF at \in InMessage THEN Transcript[turn].role ELSE Absent,
          IF at \in InTool THEN Transcript[turn].tool ELSE Absent,
          StateOf(at), IF at = "run.completed" THEN claim ELSE Absent)

EndOfTurn(at) ==
    \/ at = "message.observed" /\ Transcript[turn].tool = Absent
    \/ at = "tool.dispatch_completed"

After ==
    [at \in Emissions |->
       CASE at = "run.started" -> "cli.config_inspected"
         [] at = "cli.config_inspected" -> "batch.started"
         [] at = "batch.started" -> "task.started"
         [] at = "task.started" -> "orchestrator.initialized"
         [] at = "orchestrator.initialized" -> "initial.snapshot"
         [] at = "initial.snapshot" -> "turn.started"
         [] at = "turn.started" -> "message.observed"
         [] at = "message.observed" -> "tool.dispatch_requested"
         [] at = "tool.dispatch_requested" -> "tool.dispatch_completed"
         [] at = "final.snapshot" -> "evaluation.completed"
         [] at = "evaluation.completed" -> "results.persisted"
         [] at = "results.persisted" -> "run.completed"
         [] OTHER -> "derive"]

NextStatement(at) ==
    IF ~EndOfTurn(at) THEN After[at]
    ELSE IF turn < Len(Transcript) THEN "turn.started" ELSE "final.snapshot"

\* The ids main() holds after the event at this statement; latest_parent is
\* set once before the loop and at the end of every turn.
HeldAfter(at, id) ==
    LET set == [held EXCEPT ![at] = id]
    IN  CASE at = "orchestrator.initialized" -> [set EXCEPT !["latest_parent"] = id]
          [] EndOfTurn(at) -> [set EXCEPT !["latest_parent"] = held["turn.started"]]
          [] OTHER -> set

\* store.ingest: the event is copied to the log and projected.
Ingest(event) ==
    /\ log' = Append(log, event)
    /\ nodes' = nodes \cup NodesOf(event)
    /\ edges' = edges \cup EdgesOf(event)

EmitEvent(claim) ==
    /\ pc \in Emissions
    /\ LET event == EventAt(pc, claim)
       IN  /\ lines' = Append(lines, event)
           /\ Ingest(event)
           /\ held' = HeldAfter(pc, event.id)
    /\ turn' = IF EndOfTurn(pc) /\ turn < Len(Transcript) THEN turn + 1 ELSE turn
    /\ pc' = NextStatement(pc)
    /\ UNCHANGED <<config, derived, reported, faults>>

\* The emission of each script; phase 2 keeps no store, and the log is then
\* only the model's memory of what was emitted.
EmitTrace == script = "trace" /\ EmitEvent(Claim)
EmitGraph == script = "graph" /\ EmitEvent(Claim)
EmitPackets == script = "packets" /\ EmitEvent(Claim)
EmitDryRun == script = "dryrun" /\ EmitEvent(Claim)

-----------------------------------------------------------------------------
(* The start, and the early exits.                                         *)

\* The vendored tree is looked for before the writer truncates events.jsonl.
Begin ==
    /\ pc = "begin"
    /\ IF upstream
         THEN /\ dir' = dir \cup {"events.jsonl"}
              /\ pc' = "run.started"
         ELSE /\ pc' = "early"
              /\ UNCHANGED dir
    /\ UNCHANGED <<config, emitted, derived, final, listed, printed, exit, faults>>

WriteFinal(state, artifacts, next) ==
    /\ final' = state
    /\ listed' = artifacts
    /\ dir' = dir \cup {"final_state.json"}
    /\ pc' = next
    /\ UNCHANGED <<config, emitted, derived, printed, exit, faults>>

WriteFile(at, artifact, next) ==
    /\ pc = at
    /\ dir' = dir \cup {artifact}
    /\ pc' = next
    /\ UNCHANGED <<config, emitted, derived, final, listed, printed, exit, faults>>

EarlyTrace ==
    script = "trace" /\ pc = "early" /\ WriteFinal("upstream_missing", TraceListed, "early.raw")
EarlyGraph ==
    script = "graph" /\ pc = "early" /\ WriteFinal("upstream_missing", Log, "early.raw")
EarlyPackets ==
    script = "packets" /\ pc = "early" /\ WriteFinal("upstream_missing", Log, "early.raw")
EarlyDryRun ==
    /\ script = "dryrun" /\ pc = "early"
    /\ WriteFinal(IF upstream THEN "reactive_manager_validation_failed"
                              ELSE "reactive_manager_inputs_missing", Log, "early.raw")

EarlyRaw == WriteFile("early.raw", "raw.log", IF script = "dryrun" THEN "print" ELSE "early.summary")

\* write_summary of phases 3 and 4 reads trace_mode (and phase 4 packet_types),
\* which the dictionary of the early exit has not: KeyError.
SummaryRaises == script \in {"graph", "packets"}
EarlySummary ==
    /\ pc = "early.summary"
    /\ IF SummaryRaises
         THEN pc' = "raise" /\ UNCHANGED dir
         ELSE pc' = "print" /\ dir' = dir \cup {"summary.md"}
    /\ UNCHANGED <<config, emitted, derived, final, listed, printed, exit, faults>>

-----------------------------------------------------------------------------
(* Deriving the projection, the packets and the plans.                     *)

Derive ==
    /\ pc = "derive"
    /\ IF HasGraph
         THEN /\ trace' = Exported(log, nodes, edges)
              /\ dir' = dir \cup {"activegraph_trace.json"}
              /\ pc' = IF HasPackets THEN "pack" ELSE "final"
         ELSE pc' = "final" /\ UNCHANGED <<trace, dir>>
    /\ UNCHANGED <<config, emitted, built, packets, errors, plans, vendor, final, listed,
                   printed, exit, faults>>

\* build_state_packets: one packet per event, chained to the packet before.
BuildPacket ==
    /\ pc = "pack" /\ Len(built) < Len(log)
    /\ built' = Append(built, Packet(Len(built), log[Len(built) + 1], LastHash(built)))
    /\ UNCHANGED <<config, pc, emitted, trace, packets, errors, plans, vendor, reported, faults>>

\* The packets are validated against the events in memory and written; the
\* dry run goes on to its own part only with valid packets.
WritePackets ==
    /\ pc = "pack" /\ Len(built) = Len(log)
    /\ packets' = built
    /\ dir' = dir \cup {"state_packets.jsonl", "state_packet_index.json"}
    /\ errors' = StatePacketErrors(built, log, trace, Expected)
    /\ pc' = IF script = "packets" THEN "final"
             ELSE IF symbols /\ errors' = {} THEN "read" ELSE "early"
    /\ UNCHANGED <<config, emitted, trace, built, plans, vendor, final, listed, printed, exit,
                   faults>>

\* A file is damaged between its writing and its reading: a line is lost,
\* comes twice or changes places, or a field has another value.
DamagedOrders(s) ==
    {RemoveAt(s, i) : i \in DOMAIN s}
      \cup {InsertAt(s, i, s[i]) : i \in DOMAIN s}
      \cup {[s EXCEPT ![i] = s[i + 1], ![i + 1] = s[i]] : i \in 1..(Len(s) - 1)}
DamagedEvents ==
    DamagedOrders(lines)
      \cup {[lines EXCEPT ![i].claim = "damaged"] : i \in DOMAIN lines}
      \cup {[lines EXCEPT ![i].parent = Len(lines) + 1] : i \in DOMAIN lines}
      \cup {[lines EXCEPT ![i].type = "damaged"] : i \in DOMAIN lines}
DamagedPackets ==
    DamagedOrders(packets)
      \cup {[packets EXCEPT ![i].hash = <<"damaged">>] : i \in DOMAIN packets}
      \cup {[packets EXCEPT ![i].previous = <<"damaged">>] : i \in DOMAIN packets}
      \cup {[packets EXCEPT ![i].body = <<"damaged">>] : i \in DOMAIN packets}
      \cup {[packets EXCEPT ![i].safe = FALSE] : i \in DOMAIN packets}
DamagedTraces ==
    {[trace EXCEPT !.event_log = s] : s \in DamagedOrders(trace.event_log)}
      \cup {[trace EXCEPT !.event_log[i].claim = "altered"] : i \in DOMAIN trace.event_log}
      \cup {[trace EXCEPT !.nodes = {}], [trace EXCEPT !.safe = FALSE]}

Damage ==
    /\ pc = "read" /\ faults < MaxFaults
    /\ faults' = faults + 1
    /\ \/ lines' \in DamagedEvents /\ UNCHANGED <<packets, trace>>
       \/ packets' \in DamagedPackets /\ UNCHANGED <<lines, trace>>
       \/ trace' \in DamagedTraces /\ UNCHANGED <<lines, packets>>
    /\ UNCHANGED <<config, pc, turn, held, log, nodes, edges, built, errors, plans, vendor, reported>>

\* The files are read back and planned from.  The validators of the three
\* files have run by then, but what they find does not stop the planning,
\* which may raise, as they may.
ReadAndPlan ==
    /\ pc = "read"
    /\ IF IndexRaises(packets, lines) \/ PlanRaises(lines, packets)
         THEN pc' = "raise" /\ UNCHANGED plans
         ELSE /\ plans' = [plans EXCEPT !.replay = ReplayPlan(lines, packets),
                                        !.forks = ForkPlan(lines, packets)]
              /\ pc' = "diff"
    /\ UNCHANGED <<config, emitted, trace, built, packets, errors, vendor, reported, faults>>

PlanDiff ==
    /\ pc = "diff"
    /\ plans' = [plans EXCEPT !.diff = DiffReport(lines, packets, plans.forks)]
    /\ pc' = "validate"
    /\ UNCHANGED <<config, emitted, trace, built, packets, errors, vendor, reported, faults>>

\* All errors are combined, and the five plan files are written with them.
Validate ==
    /\ pc = "validate"
    /\ errors' = TraceErrors(lines, Expected) \cup GraphErrors(trace, lines)
                   \cup ChainErrors(packets, lines, Expected)
                   \cup PlanErrors(plans.replay, plans.forks, Decisions(plans.forks), lines, packets)
    /\ dir' = dir \cup PlanFiles
    /\ pc' = "vendor"
    /\ UNCHANGED <<config, emitted, trace, built, packets, plans, vendor, final, listed, printed,
                   exit, faults>>

\* git_vendor_status, after the plans are on disk; it raises where git cannot be
\* run, while git_commit (best effort) passed over that.
CheckVendor ==
    /\ pc = "vendor"
    /\ \/ vendor' \in {"clean", "dirty"} /\ pc' = "final"
       \/ pc' = "raise" /\ UNCHANGED vendor
    /\ UNCHANGED <<config, emitted, trace, built, packets, errors, plans, reported, faults>>

-----------------------------------------------------------------------------
(* The final state and the end.                                            *)

TraceState == Claim
GraphState == Claim
PacketState == IF symbols /\ errors = {} THEN PacketPass ELSE "state_packet_smoke_failed"
DryRunState == IF errors = {} /\ vendor = "clean" THEN DryRunPass
               ELSE "reactive_manager_validation_failed"

FinishTrace ==
    script = "trace" /\ pc = "final" /\ WriteFinal(TraceState, TraceListed, "summary")
FinishGraph ==
    script = "graph" /\ pc = "final" /\ WriteFinal(GraphState, GraphListed, "summary")
FinishPackets ==
    script = "packets" /\ pc = "final" /\ WriteFinal(PacketState, PacketListed, "summary")
FinishDryRun ==
    /\ script = "dryrun" /\ pc = "final"
    /\ WriteFinal(DryRunState, PacketListed \cup PlanFiles, "summary")

WriteSummary == WriteFile("summary", "summary.md", "raw")
WriteRaw == WriteFile("raw", "raw.log", "print")

ExitCode(state) == IF state \in PassStates THEN 0 ELSE 1

\* mutated: the state printed is the one run.completed claimed
PrintClaim ==
    /\ pc = "print"
    /\ printed' = Claim
    /\ exit' = ExitCode(final)
    /\ pc' = "done"
    /\ UNCHANGED <<config, emitted, derived, dir, final, listed, faults>>

\* The directory and the state are printed, and main() returns.
PrintState ==
    /\ pc = "print"
    /\ printed' = final
    /\ exit' = ExitCode(final)
    /\ pc' = "done"
    /\ UNCHANGED <<config, emitted, derived, dir, final, listed, faults>>

\* The handler around main(): raw.log goes into a directory named after the
\* second the handler runs in, which may be the run's own; it then raises again.
ErrorLines == {"trace_smoke_error", "activegraph_trace_error", "state_packet_smoke_error",
               "reactive_manager_dry_run_error"}
ErrorLine == CASE script = "trace" -> "trace_smoke_error"
               [] script = "graph" -> "activegraph_trace_error"
               [] script = "packets" -> "state_packet_smoke_error"
               [] script = "dryrun" -> "reactive_manager_dry_run_error"
Handle ==
    /\ pc = "raise"
    /\ \E sameSecond \in BOOLEAN :
         dir' = IF sameSecond THEN dir \cup {"raw.log"} ELSE dir
    /\ printed' = ErrorLine
    /\ exit' = 1
    /\ pc' = "done"
    /\ UNCHANGED <<config, emitted, derived, final, listed, faults>>

\* The process is killed, or the machine stops, between two writes.
Kill ==
    /\ pc \notin {"done", "killed"}
    /\ pc' = "killed"
    /\ UNCHANGED <<config, emitted, derived, reported, faults>>

Names == Emissions \cup {"latest_parent", "none"}

Init ==
    /\ script \in Scripts /\ upstream \in BOOLEAN /\ symbols \in BOOLEAN
    /\ runtime \in BOOLEAN
    /\ pc = "begin"
    /\ turn = 1 /\ held = [n \in Names |-> None]
    /\ lines = <<>> /\ log = <<>> /\ nodes = {} /\ edges = {}
    /\ trace = NoTrace /\ built = <<>> /\ packets = <<>> /\ errors = {} /\ plans = NoPlans
    /\ vendor = "unknown"
    /\ dir = {} /\ final = Absent /\ listed = {} /\ printed = Absent /\ exit = 2
    /\ faults = 0

Step ==
    \/ Begin
    \/ EmitTrace \/ EmitGraph \/ EmitPackets \/ EmitDryRun
    \/ EarlyTrace \/ EarlyGraph \/ EarlyPackets \/ EarlyDryRun \/ EarlyRaw \/ EarlySummary
    \/ Derive \/ BuildPacket \/ WritePackets \/ ReadAndPlan \/ PlanDiff \/ Validate \/ CheckVendor
    \/ FinishTrace \/ FinishGraph \/ FinishPackets \/ FinishDryRun
    \/ WriteSummary \/ WriteRaw \/ PrintState \/ Handle

Next == Step \/ Damage \/ Kill

\* A process that is not killed goes on: nothing in the scripts waits.
Spec == Init /\ [][Next]_vars /\ WF_vars(Step)

-----------------------------------------------------------------------------
(* Properties.                                                             *)

EventType ==
    [id : Nat, parent : Nat, type : {TypeOf(at) : at \in Emissions},
     component : {ComponentOf(at) : at \in Emissions}, task : BOOLEAN, turn : Nat,
     role : STRING \cup {Absent}, tool : STRING \cup {Absent},
     state : {"initial", "final", Absent}, claim : PassStates \cup Failures \cup {Absent}]

\* Every variable has its type, the emitted events are numbered from 1 in
\* order and each names an earlier event as its parent (TraceWriter.emit).
TypeOK ==
    /\ script \in Scripts /\ upstream \in BOOLEAN /\ symbols \in BOOLEAN /\ runtime \in BOOLEAN
    /\ turn \in DOMAIN Transcript
    /\ held \in [Names -> 0..Len(log)] /\ held["none"] = None
    /\ log \in Seq(EventType)
    /\ \A i \in DOMAIN log : log[i].id = i /\ log[i].parent < i
    /\ final \in PassStates \cup Failures \cup {Absent}
    /\ exit \in 0..2 /\ faults \in 0..MaxFaults
    /\ vendor \in {"unknown", "clean", "dirty"}

\* The graph the store keeps is one piece with the log at every moment: its
\* event nodes are the events, no edge hangs in the air, and every event hangs
\* from the run (InMemoryActiveGraphTraceStore.ingest).
GraphFaithful ==
    /\ {n \in nodes : n[1] = "event"} = {NodeOf(log[i]) : i \in DOMAIN log}
    /\ \A e \in edges : e[2] \in nodes /\ e[3] \in nodes
    /\ \A i \in DOMAIN log : <<"contains_event", <<"run", 1>>, NodeOf(log[i])>> \in edges

\* The dry run accepts only what was written: whatever happens to one of the
\* three files before it reads them, a run that passes has read the events as
\* they were emitted, their packets, and a projection that holds the log of these
\* events, their count and the adapter's statements.  The nodes and edges of the
\* projection are not among it: they are looked at by type only, and a projection
\* that lost them passes
\* (validate_trace_events, validate_activegraph_trace, validate_packet_chain).
\* And its plans follow that trace: step i replays event i with its own packet,
\* and the windows of the diff are the stretches between neighbouring fork
\* points, so that each meets the next in one event.
AcceptedOnlyAsWritten ==
    final = DryRunPass =>
        /\ lines = log /\ packets = built
        /\ trace.event_log = log /\ trace.counts = Len(log) /\ trace.safe
        /\ DOMAIN plans.replay = DOMAIN log
        /\ \A i \in DOMAIN log : plans.replay[i] = [index |-> i - 1, event |-> i, packet |-> i]
        /\ \A k \in 1..(Len(plans.diff) - 1) :
             plans.diff[k].window \cap plans.diff[k + 1].window = {plans.forks[k + 1].event}

\* What a caller relies on: final_state.json is written once, the printed state is
\* the one it says, the exit code tells whether that is a pass, and the run comes
\* to an end, whatever is missing, damaged or killed.
Promise == INSTANCE SmokeContract WITH
    States <- PassStates \cup Failures, Passes <- PassStates, Errors <- ErrorLines,
    Nothing <- Absent,
    claim <- final, said <- printed,
    exit <- IF pc = "killed" THEN "killed"
            ELSE IF pc # "done" THEN "running"
            ELSE IF exit = 0 THEN "0" ELSE "1"
Contract == Promise!Keeps
=============================================================================
