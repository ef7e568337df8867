--------------------------- MODULE TraceArtifacts ---------------------------
(***************************************************************************)
(* The artifacts the fixture smokes of phases 2 to 5 derive from one       *)
(* another: a trace of events, its graph projection, a hash-chained list   *)
(* of state packets, and the replay, fork and diff plans of the dry-run    *)
(* manager, with the validators that accept or refuse them                 *)
(* (experiments/trace_only, activegraph_trace, state_packets and           *)
(* reactive_manager/planner.py).                                           *)
(*                                                                         *)
(* Event evt-00000n has the id n, no parent is 0, and a packet is numbered *)
(* like the event it was made from.  SHA-256 is the identity on what is    *)
(* hashed: two hashes are equal exactly when their inputs are.  A validator*)
(* returns the set of the kinds of error it reports.                       *)
(***************************************************************************)
EXTENDS Naturals, Sequences, FiniteSets

None == 0
Absent == "none"        \* a JSON null, or an artifact that is not there

-----------------------------------------------------------------------------
(* Events.                                                                 *)

\* The fields that tell the events of a fixture apart, and the status that
\* the payload of run.completed claims.
Event(id, parent, type, component, task, turn, role, tool, state, claim) ==
    [id |-> id, parent |-> parent, type |-> type, component |-> component,
     task |-> task, turn |-> turn, role |-> role, tool |-> tool,
     state |-> state, claim |-> claim]

EventIds(events) == {events[i].id : i \in DOMAIN events}

-----------------------------------------------------------------------------
(* The graph projection.                                                   *)

NodeOf(event) == <<"event", event.id>>

\* mutated: a component gets no node of its own
NodesOfFew(event) == {NodeOf(event), <<"run", 1>>, <<"task", 1>>}

\* The nodes and edges one event adds; both are kept as sets, as the keys of
\* _nodes and _edge_keys keep them.
NodesOf(event) ==
    {NodeOf(event), <<"run", 1>>, <<"component", event.component>>}
      \cup (IF event.task THEN {<<"task", 1>>} ELSE {})
      \cup (IF event.state # Absent THEN {<<"state", event.state>>} ELSE {})
      \cup (IF event.tool # Absent THEN {<<"tool", event.tool>>} ELSE {})
      \cup (IF event.role # Absent THEN {<<"message_role", event.role>>} ELSE {})

EdgesOf(event) ==
    {<<"contains_event", <<"run", 1>>, NodeOf(event)>>,
     <<"emitted_by", NodeOf(event), <<"component", event.component>>>>}
      \cup (IF event.parent # None
              THEN {<<"parent_event", NodeOf(event), <<"event", event.parent>>>>} ELSE {})
      \cup (IF event.task
              THEN {<<"scoped_to_task", NodeOf(event), <<"task", 1>>>>,
                    <<"has_task", <<"run", 1>>, <<"task", 1>>>>} ELSE {})
      \cup (IF event.state # Absent
              THEN {<<"observed_state", NodeOf(event), <<"state", event.state>>>>} ELSE {})
      \cup (IF event.tool # Absent
              THEN {<<"references_tool", NodeOf(event), <<"tool", event.tool>>>>} ELSE {})
      \cup (IF event.role # Absent
              THEN {<<"has_message_role", NodeOf(event),
                      <<"message_role", event.role>>>>} ELSE {})

\* The store as activegraph_trace.json holds it; safe stands for the fields
\* of the adapter that name the source of truth and the owner of control.
Exported(log, nodes, edges) ==
    [event_log |-> log, counts |-> Len(log), nodes |-> nodes, edges |-> edges,
     safe |-> TRUE]

-----------------------------------------------------------------------------
(* State packets.                                                          *)

PacketType(event) ==
    CASE event.type \in {"task.started", "orchestrator.initialized", "state.snapshot"} -> "task_state"
      [] event.type \in {"turn.started", "message.observed"} -> "turn_state"
      [] event.type \in {"tool.dispatch_requested", "tool.dispatch_completed"} -> "tool_state"
      [] event.type = "evaluation.completed" -> "evaluation_state"
      [] event.type = "results.persisted" -> "result_state"
      [] OTHER -> "run_state"

\* What a packet's hash is taken of: every field but the hash itself.
HashOf(packet) ==
    <<packet.id, packet.index, packet.event, packet.previous, packet.body, packet.safe>>

\* body stands for the copied event and all that is derived from it (scope,
\* type, state hash), safe for the provenance and the control boundary.
Packet(index, event, previous) ==
    LET unsigned == [id |-> index + 1, index |-> index, event |-> event.id,
                     previous |-> previous, safe |-> TRUE,
                     body |-> <<PacketType(event), event>>]
    IN  [id |-> unsigned.id, index |-> unsigned.index, event |-> unsigned.event,
         previous |-> unsigned.previous, safe |-> unsigned.safe,
         body |-> unsigned.body, hash |-> HashOf(unsigned)]

LastHash(packets) == IF packets = <<>> THEN <<>> ELSE packets[Len(packets)].hash

PreviousHash(packets, i) == IF i = 1 THEN <<>> ELSE packets[i - 1].hash

\* The subscript event_ids[expected_index] of both packet validators: a packet
\* that is past the last event and names a known one raises IndexError.
IndexRaises(packets, events) ==
    \E i \in DOMAIN packets : i > Len(events) /\ packets[i].event \in EventIds(events)

\* What both packet validators report of packet i; the ELSE branches of the
\* source order are kept by their guards.
PacketErrors(packets, events, i) ==
    LET packet == packets[i]
        known == packet.event \in EventIds(events)
    IN  (IF packet.id # i THEN {"id"} ELSE {})
          \cup (IF packet.index # i - 1 THEN {"sequence"} ELSE {})
          \cup (IF packet.previous # PreviousHash(packets, i) THEN {"previous hash"} ELSE {})
          \cup (IF packet.hash # HashOf(packet) THEN {"packet hash"} ELSE {})
          \cup (IF ~known THEN {"missing event"} ELSE {})
          \cup (IF known /\ events[i].id # packet.event THEN {"order"} ELSE {})
          \cup (IF ~packet.safe THEN {"control"} ELSE {})

ProjectionErrors(trace, events) ==
    (IF trace.event_log # events THEN {"event_log"} ELSE {})
      \cup (IF trace.counts # Len(events) THEN {"event count"} ELSE {})

\* state_packets/packets.py: the phase-4 validator.
StatePacketErrors(packets, events, trace, expected) ==
    (IF Len(packets) # expected THEN {"expected count"} ELSE {})
      \cup (IF Len(packets) # Len(events) THEN {"count mismatch"} ELSE {})
      \cup ProjectionErrors(trace, events)
      \cup UNION {PacketErrors(packets, events, i) : i \in DOMAIN packets}

-----------------------------------------------------------------------------
(* The validators of the dry-run manager, which read the files again.      *)

TraceErrors(events, expected) ==
    (IF \E i \in DOMAIN events : events[i].id # i THEN {"event id"} ELSE {})
      \cup (IF \E i, j \in DOMAIN events : i < j /\ events[i].id = events[j].id
              THEN {"duplicate event id"} ELSE {})
      \cup (IF Len(events) # expected THEN {"expected events"} ELSE {})
      \cup (IF \E i \in DOMAIN events : events[i].parent \notin EventIds(events) \cup {None}
              THEN {"missing parent"} ELSE {})

\* mutated: the log of the projection is not compared
GraphErrorsUncompared(trace, events) ==
    IF trace.counts # Len(events) THEN {"event count"} ELSE {}

\* Of the graph only its being there is checked, never its nodes and edges.
GraphErrors(trace, events) ==
    ProjectionErrors(trace, events) \cup (IF ~trace.safe THEN {"adapter"} ELSE {})

ChainErrors(packets, events, expected) ==
    (IF Len(packets) # expected THEN {"expected packets"} ELSE {})
      \cup UNION {PacketErrors(packets, events, i) : i \in DOMAIN packets}

-----------------------------------------------------------------------------
(* Replay, fork and diff plans.                                            *)

SafeForkSelectors ==
    <<[position |-> "after", type |-> "run.started"],
      [position |-> "after", type |-> "task.started"],
      [position |-> "before", type |-> "tool.dispatch_requested"],
      [position |-> "after", type |-> "evaluation.completed"]>>

\* packet_by_event_id: a later packet of the same event replaces an earlier one.
PacketsOfEvent(packets, id) == {i \in DOMAIN packets : packets[i].event = id}
PacketByEvent(packets, id) ==
    packets[CHOOSE i \in PacketsOfEvent(packets, id) :
              \A j \in PacketsOfEvent(packets, id) : j <= i]

EventsOfType(events, type) == {i \in DOMAIN events : events[i].type = type}
FindEvent(events, type) ==
    events[CHOOSE i \in EventsOfType(events, type) :
             \A j \in EventsOfType(events, type) : i <= j]

\* build_replay_plan, build_fork_plan and build_diff_report raise KeyError or
\* ValueError where an event has no packet or no event has the selected type.
PlanRaises(events, packets) ==
    \/ \E i \in DOMAIN events : PacketsOfEvent(packets, events[i].id) = {}
    \/ \E k \in DOMAIN SafeForkSelectors :
         EventsOfType(events, SafeForkSelectors[k].type) = {}

ReplayPlan(events, packets) ==
    [i \in DOMAIN events |->
       [index |-> i - 1, event |-> events[i].id,
        packet |-> PacketByEvent(packets, events[i].id).id]]

ForkPlan(events, packets) ==
    [k \in DOMAIN SafeForkSelectors |->
       LET event == FindEvent(events, SafeForkSelectors[k].type)
       IN  [event |-> event.id, packet |-> PacketByEvent(packets, event.id).id,
            position |-> SafeForkSelectors[k].position]]

\* events.index(event): the first place of an equal event, from 0.
IndexOfEvent(events, event) ==
    (CHOOSE i \in DOMAIN events :
       /\ events[i] = event
       /\ \A j \in DOMAIN events : events[j] = event => i <= j) - 1

\* packets_by_id keeps the last packet of an id; the window of a comparison
\* is the ids of the events between its two packets.
PacketById(packets, id) ==
    packets[CHOOSE i \in DOMAIN packets :
              /\ packets[i].id = id
              /\ \A j \in DOMAIN packets : packets[j].id = id => j <= i]

DiffReport(events, packets, forks) ==
    [k \in 1..(Len(forks) - 1) |->
       LET left == PacketById(packets, forks[k].packet).index
           right == PacketById(packets, forks[k + 1].packet).index
       IN  [delta |-> <<left, right>>,
            window |-> {events[i].id : i \in {j \in DOMAIN events :
                          /\ left <= IndexOfEvent(events, events[j])
                          /\ IndexOfEvent(events, events[j]) <= right}}]]

\* One decision for the replay plan, one per fork point, one for the report.
Decisions(forks) ==
    <<[event |-> None, packet |-> None]>>
      \o [k \in DOMAIN forks |-> [event |-> forks[k].event, packet |-> forks[k].packet]]
      \o <<[event |-> None, packet |-> None]>>

\* The fields dry_run, executed and proposed_action are constants of the
\* builders; what may fail is a reference to an event or packet that is not there.
PlanErrors(replay, forks, decisions, events, packets) ==
    LET packetIds == {packets[i].id : i \in DOMAIN packets}
        Dangling(plan) ==
          \E k \in DOMAIN plan :
            \/ plan[k].event \notin EventIds(events) \cup {None}
            \/ plan[k].packet \notin packetIds \cup {None}
    IN  (IF Dangling(replay) THEN {"replay step"} ELSE {})
          \cup (IF Dangling(forks) THEN {"fork point"} ELSE {})
          \cup (IF Dangling(decisions) THEN {"decision"} ELSE {})
=============================================================================
