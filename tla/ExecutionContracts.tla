-------------------------- MODULE ExecutionContracts --------------------------
(***************************************************************************)
(* The fail-closed decisions of phases 6 and 7: the guards an execution    *)
(* request has to pass and the executors that answer it                    *)
(* (reactive_manager/contracts.py, guards.py, executor_contract.py), and   *)
(* the gates a live opt-in proposal is scored against (live_opt_in.py,     *)
(* live_readiness.py), with the fixtures both are exercised on.            *)
(*                                                                         *)
(* A validator is a record with a Boolean for each gate, TRUE when the     *)
(* gate passed.  dirty says whether git status reported a change under the *)
(* vendored tree when the validator asked.  A request or a proposal has one*)
(* field for each thing a gate looks at.                                   *)
(***************************************************************************)
EXTENDS Naturals, Sequences, FiniteSets

Failed(gates) == {g \in DOMAIN gates : ~gates[g]}

RequiredArtifacts ==
    {"events.jsonl", "activegraph_trace.json", "state_packets.jsonl",
     "state_packet_index.json", "manager_plan.json", "manager_decisions.jsonl",
     "replay_plan.json", "fork_plan.json", "diff_report.json"}

-----------------------------------------------------------------------------
(* Phase 6: requests, guards and executors.                                *)

AllProvenance ==
    {"events", "activegraph_trace", "state_packets", "state_packet_index",
     "no_llm_status"}

\* The first request of the fixtures; the others change some of its fields.
ValidRequest ==
    [scenario |-> "valid_dry_run_request", mode |-> "plan_only", dry_run |-> TRUE,
     opt_in |-> TRUE, acknowledged |-> TRUE, artifacts |-> RequiredArtifacts,
     provenance |-> AllProvenance, chain_ok |-> TRUE, plan_ok |-> TRUE,
     errors |-> FALSE, secret |-> FALSE, model_backed |-> FALSE, controls |-> FALSE]

\* mutated: only the list of errors is broken, not the chain's own result
BrokenErrorsOnly(request) == [request EXCEPT !.errors = TRUE]

BrokenPacketValidation(request) ==
    [request EXCEPT !.chain_ok = FALSE, !.errors = TRUE]

Requests ==
    <<ValidRequest,
      [ValidRequest EXCEPT !.scenario = "invalid_live_control_request",
         !.mode = "live_control", !.dry_run = FALSE, !.acknowledged = FALSE,
         !.controls = TRUE],
      [ValidRequest EXCEPT !.scenario = "invalid_missing_provenance",
         !.provenance = {"no_llm_status"}],
      BrokenPacketValidation(
        [ValidRequest EXCEPT !.scenario = "invalid_packet_hash_chain"]),
      [ValidRequest EXCEPT !.scenario = "invalid_secret_payload", !.secret = TRUE]>>

Guards(request, dirty) ==
    [execution_mode_allowlisted |-> request.mode \in {"plan_only"},
     live_execution_unavailable |-> request.dry_run /\ request.mode = "plan_only",
     explicit_opt_in |-> request.opt_in,
     dry_run_required |-> request.dry_run,
     operator_acknowledgment |-> request.acknowledged,
     events_provenance |-> "events" \in request.provenance,
     graph_projection_provenance |-> "activegraph_trace" \in request.provenance,
     state_packet_provenance |->
        {"state_packets", "state_packet_index"} \subseteq request.provenance,
     required_artifacts_present |-> RequiredArtifacts \subseteq request.artifacts,
     state_packet_hash_chain_valid |-> request.chain_ok,
     replay_fork_diff_plan_valid |-> request.plan_ok,
     no_pending_validation_errors |-> ~request.errors,
     no_api_keys_or_secrets |-> ~request.secret,
     vendor_tau2_bench_unchanged |-> ~dirty,
     no_model_backed_episode_execution |->
        "no_llm_status" \in request.provenance /\ ~request.model_backed,
     no_tau2_control_flow |-> ~request.controls /\ request.mode # "live_control"]

DryRunDecision(request, dirty) ==
    LET refused == Failed(Guards(request, dirty))
    IN  [scenario |-> request.scenario, refused |-> refused, executed |-> FALSE,
         accepted |-> refused = {} /\ request.dry_run]

DisabledLiveDecision(request, dirty) ==
    [scenario |-> request.scenario, executed |-> FALSE, accepted |-> FALSE,
     refused |-> {"live execution unavailable"} \cup Failed(Guards(request, dirty))]

Decide(request, dirty) ==
    IF request.dry_run /\ request.mode = "plan_only"
      THEN DryRunDecision(request, dirty) ELSE DisabledLiveDecision(request, dirty)

Accepted(decisions) == {i \in DOMAIN decisions : decisions[i].accepted}

\* The status of contract_report.json; dirty is read again after the last
\* decision.
ContractReport(decisions, missing, dirty) ==
    IF /\ Accepted(decisions) = {1}
       /\ Len(decisions) = 5
       /\ \A i \in DOMAIN decisions : ~decisions[i].executed
       /\ missing = {}
       /\ ~dirty
      THEN "passed" ELSE "failed"

-----------------------------------------------------------------------------
(* Phase 7: proposals and readiness gates.                                 *)

BaseProposal ==
    [scenario |-> "complete_but_disabled_proposal",
     operator_acknowledged |-> TRUE, experiment_id |-> TRUE, run_scope |-> TRUE,
     rollback_acknowledged |-> TRUE, audit_log_acknowledged |-> TRUE,
     operator_id |-> TRUE, request_id |-> TRUE,
     no_secrets_in_request_payloads |-> TRUE, no_api_keys_in_artifacts |-> TRUE,
     no_environment_variable_leakage |-> TRUE,
     credential_references_are_handles |-> TRUE,
     credential_vault_supported |-> FALSE, raw_credential_values_present |-> FALSE,
     boundary_acknowledged |-> TRUE, tau2_owns |-> TRUE, activegraph_owns |-> TRUE,
     activegraph_controls_tau2 |-> FALSE, ambiguous_control_ownership |-> FALSE,
     validated_ownership_plan |-> TRUE,
     sandbox_mode |-> TRUE, output_directory_isolated |-> TRUE,
     vendor_unchanged |-> TRUE, network_access_declared |-> FALSE,
     network_access_allowed |-> FALSE, model_backed_run_requested |-> FALSE,
     model_backed_run_separately_gated |-> FALSE,
     rollback_plan_present |-> TRUE, recovery_point_present |-> TRUE,
     replay_plan_present |-> TRUE, fork_plan_present |-> TRUE,
     state_packet_chain_present |-> TRUE, rollback_dry_run_only |-> TRUE,
     immutable_decision_log_present |-> TRUE, provenance_present |-> TRUE,
     operator_request_ids_present |-> TRUE, safety_gate_results_present |-> TRUE,
     hash_chain_references_present |-> TRUE,
     live_execution_requested |-> FALSE, tau2_control_flow_requested |-> FALSE,
     model_api_call_requested |-> FALSE,
     chain_ok |-> TRUE, dirty_vendor_tree |-> FALSE, invalid_packet_chain |-> FALSE]

\* build_representative_live_opt_in_proposals
Proposals ==
    <<BaseProposal,
      [BaseProposal EXCEPT !.scenario = "missing_operator_acknowledgement",
         !.operator_acknowledged = FALSE],
      [BaseProposal EXCEPT !.scenario = "missing_credential_isolation",
         !.no_secrets_in_request_payloads = FALSE,
         !.credential_references_are_handles = FALSE,
         !.raw_credential_values_present = TRUE],
      [BaseProposal EXCEPT !.scenario = "ambiguous_tau2_ownership",
         !.boundary_acknowledged = FALSE, !.activegraph_controls_tau2 = TRUE,
         !.ambiguous_control_ownership = TRUE, !.validated_ownership_plan = FALSE],
      [BaseProposal EXCEPT !.scenario = "missing_rollback_plan",
         !.rollback_plan_present = FALSE, !.recovery_point_present = FALSE,
         !.replay_plan_present = FALSE, !.fork_plan_present = FALSE],
      [BaseProposal EXCEPT !.scenario = "missing_audit_log_plan",
         !.immutable_decision_log_present = FALSE, !.provenance_present = FALSE,
         !.operator_request_ids_present = FALSE,
         !.safety_gate_results_present = FALSE],
      [BaseProposal EXCEPT !.scenario = "dirty_vendor_tree_simulated",
         !.dirty_vendor_tree = TRUE, !.vendor_unchanged = FALSE],
      [BaseProposal EXCEPT !.scenario = "invalid_packet_chain_simulated",
         !.invalid_packet_chain = TRUE, !.chain_ok = FALSE],
      [BaseProposal EXCEPT !.scenario = "unsafe_model_api_request",
         !.live_execution_requested = TRUE, !.model_api_call_requested = TRUE,
         !.model_backed_run_requested = TRUE, !.network_access_declared = TRUE]>>

\* One record of gates for each requirement.
ReadinessGates(p, dirty) ==
    [operator_authorization |->
        [operator_acknowledgement_present |-> p.operator_acknowledged,
         experiment_id_present |-> p.experiment_id,
         run_scope_present |-> p.run_scope,
         rollback_acknowledgement_present |-> p.rollback_acknowledged,
         audit_log_acknowledgement_present |-> p.audit_log_acknowledged],
     credential_secret_policy |->
        [no_secrets_in_request_payloads |-> p.no_secrets_in_request_payloads,
         no_api_keys_in_artifacts |-> p.no_api_keys_in_artifacts,
         no_environment_variable_leakage |-> p.no_environment_variable_leakage,
         credential_references_are_handles |->
            p.credential_references_are_handles /\ ~p.raw_credential_values_present,
         credential_vault_supported |-> p.credential_vault_supported],
     tau2_lifecycle_ownership |->
        [ownership_boundary_acknowledged |-> p.boundary_acknowledged,
         tau2_ownership_statement_present |-> p.tau2_owns,
         activegraph_ownership_statement_present |-> p.activegraph_owns,
         no_ambiguous_control_ownership |->
            ~p.ambiguous_control_ownership /\ ~p.activegraph_controls_tau2,
         validated_ownership_plan |-> p.validated_ownership_plan],
     sandbox_isolation |->
        [sandbox_mode_required_and_declared |-> p.sandbox_mode,
         output_directory_isolated |-> p.output_directory_isolated,
         vendor_tau2_bench_unchanged |->
            p.vendor_unchanged /\ ~p.dirty_vendor_tree /\ ~dirty,
         network_access_declared_and_allowed |->
            ~p.network_access_declared \/ p.network_access_allowed,
         model_backed_run_separately_gated |->
            ~p.model_backed_run_requested \/ p.model_backed_run_separately_gated],
     rollback_recovery |->
        [rollback_plan_present |-> p.rollback_plan_present,
         recovery_point_present |-> p.recovery_point_present,
         replay_plan_present |-> p.replay_plan_present,
         fork_plan_present |-> p.fork_plan_present,
         state_packet_chain_present |-> p.state_packet_chain_present,
         rollback_simulation_dry_run_only |-> p.rollback_dry_run_only],
     audit_logging |->
        [immutable_decision_log_present |-> p.immutable_decision_log_present,
         provenance_present |-> p.provenance_present,
         operator_request_ids_present |->
            p.operator_request_ids_present /\ p.operator_id /\ p.request_id,
         safety_gate_results_present |-> p.safety_gate_results_present,
         hash_chain_references_present |-> p.hash_chain_references_present],
     packet_chain |->
        [state_packet_chain_valid |-> p.chain_ok /\ ~p.invalid_packet_chain],
     phase7_disabled_by_construction |->
        [live_execution_not_requested |-> ~p.live_execution_requested,
         tau2_control_flow_not_requested |-> ~p.tau2_control_flow_requested,
         model_api_call_not_requested |-> ~p.model_api_call_requested,
         live_ready_forced_false |-> FALSE]]

Blockers(gates) == UNION {{<<r, g>> : g \in Failed(gates[r])} : r \in DOMAIN gates}

\* The two gates no proposal can pass in this phase.
NotStructural ==
    {<<"credential_secret_policy", "credential_vault_supported">>,
     <<"phase7_disabled_by_construction", "live_ready_forced_false">>}

ReadinessDecision(p, dirty) ==
    LET blockers == Blockers(ReadinessGates(p, dirty))
    IN  [scenario |-> p.scenario, blockers |-> blockers, accepted |-> FALSE,
         live_ready |-> FALSE, executed |-> FALSE,
         complete |-> blockers \subseteq NotStructural]

\* live_readiness_report.json: what later phases read of it, and the blockers
\* counted by requirement.
ReadinessReport(decisions) ==
    [live_ready |-> FALSE, live_execution_available |-> FALSE,
     count |-> Len(decisions),
     complete |-> Cardinality({i \in DOMAIN decisions : decisions[i].complete}),
     blocked |-> [r \in DOMAIN ReadinessGates(BaseProposal, FALSE) |->
        Cardinality(UNION {{<<i, b>> : b \in {c \in decisions[i].blockers : c[1] = r}} :
                             i \in DOMAIN decisions})]]

\* The part of smoke_ok of phase 7 that is about its nine decisions.
OptInOk(decisions, report) ==
    /\ [i \in DOMAIN decisions |-> decisions[i].scenario]
         = [i \in DOMAIN Proposals |-> Proposals[i].scenario]
    /\ ~report.live_ready
    /\ \A i \in DOMAIN decisions :
         /\ ~decisions[i].live_ready /\ ~decisions[i].executed
         /\ decisions[i].complete <=> i = 1

=============================================================================
