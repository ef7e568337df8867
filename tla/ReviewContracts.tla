--------------------------- MODULE ReviewContracts ---------------------------
(***************************************************************************)
(* The review-only reports of phases 8 to 10: the credential and sandbox   *)
(* policies and the audit report (credential_vault.py, sandbox_policy.py,  *)
(* live_readiness_audit.py), vault references and the external report      *)
(* (vault_integration.py, external_readiness.py), operator authorizations, *)
(* incident plans and their report (operator_authorization.py,             *)
(* incident_response.py, operator_readiness.py).                           *)
(*                                                                         *)
(* A reference is the set of the patterns it matches; an authorization or a*)
(* plan is the set of what is wrong with it, each thing a blocker looks at.*)
(***************************************************************************)
EXTENDS Integers, AuditTrail, ExecutionContracts

-----------------------------------------------------------------------------
(* Phase 8: credential references and sandbox policies.                    *)

ClassifyCredential(matches) ==
    IF "handle" \in matches THEN "valid_future_vault_handle"
    ELSE IF "prefix" \in matches THEN "invalid_future_vault_handle_shape"
    ELSE IF "raw" \in matches THEN "raw_secret_like_value_rejected"
    ELSE "credential_reference_must_be_future_vault_handle"

\* "../secret" after the prefix also looks like a raw secret.
CredentialScenarios ==
    [valid_future_handle |-> {"handle", "prefix"},
     invalid_raw_api_key_shape |-> {"raw"}, invalid_secret_label |-> {"raw"},
     invalid_wrong_scheme |-> {}, invalid_handle_name |-> {"prefix", "raw"}]

CredentialReport ==
    LET class == [s \in DOMAIN CredentialScenarios |->
                    ClassifyCredential(CredentialScenarios[s])]
        accepted == {s \in DOMAIN class : class[s] = "valid_future_vault_handle"}
    IN  [valid_handle_accepted |-> accepted = {"valid_future_handle"},
         raw_rejected |->
            {"invalid_raw_api_key_shape", "invalid_secret_label"} \cap accepted = {},
         vault_runtime_available |-> FALSE]

\* validate_sandbox_policy: output_dir, reads and writes say where paths lead.
SandboxGates(p) ==
    [output_directory_isolated |-> p.isolated /\ p.output = "runs",
     vendor_tau2_bench_not_mutated |-> ~p.mutation_allowed /\ ~p.modified,
     network_disabled_or_explicitly_allowed |-> p.network_declared = p.network_allowed,
     model_api_calls_separately_gated |-> ~p.model_requested /\ ~p.model_gated,
     live_tau2_execution_disabled |-> ~p.live_requested,
     artifact_only_boundaries |->
        p.reads \subseteq {"runs", "UPSTREAM_COMMIT"} /\ p.writes \subseteq {"runs"}]

ReviewPolicy(dirty) ==
    [output |-> "runs", isolated |-> TRUE, mutation_allowed |-> FALSE,
     modified |-> dirty, network_declared |-> FALSE, network_allowed |-> FALSE,
     model_requested |-> FALSE, model_gated |-> FALSE, live_requested |-> FALSE,
     reads |-> {"runs", "UPSTREAM_COMMIT"}, writes |-> {"runs"}]

SandboxPolicies(dirty) ==
    <<ReviewPolicy(dirty),
      [ReviewPolicy(dirty) EXCEPT !.network_declared = TRUE, !.model_requested = TRUE,
         !.live_requested = TRUE, !.reads = {"runs"}],
      [ReviewPolicy(TRUE) EXCEPT !.output = "vendor", !.isolated = FALSE,
         !.mutation_allowed = TRUE, !.reads = {"vendor"}, !.writes = {"vendor"}]>>

SandboxReport(dirty) ==
    LET passed == {i \in 1 .. 3 : Failed(SandboxGates(SandboxPolicies(dirty)[i])) = {}}
    IN  [valid_passed |-> 1 \in passed, modified |-> dirty,
         invalid_rejected |-> Cardinality({2, 3} \ passed),
         unsafe_rejected |-> 2 \notin passed]

\* report_ok of build_live_readiness_audit_artifacts; of the phase 6 and 7
\* reports it reads only that nothing live is on offer.
AuditOk(auditErrors, readiness, dirty) ==
    LET credentials == CredentialReport
        sandbox == SandboxReport(dirty)
    IN  /\ ~readiness.live_ready /\ ~readiness.live_execution_available
        /\ auditErrors = {}
        /\ credentials.valid_handle_accepted /\ credentials.raw_rejected
        /\ ~credentials.vault_runtime_available
        /\ sandbox.valid_passed /\ sandbox.invalid_rejected = 2
        /\ sandbox.unsafe_rejected /\ ~sandbox.modified

-----------------------------------------------------------------------------
(* Phase 9: vault references.                                              *)

ClassifyVault(matches) ==
    IF "handle" \in matches THEN "valid_future_vault_handle"
    ELSE IF "prefix" \in matches THEN "invalid_future_vault_handle_shape"
    ELSE IF "env" \in matches THEN "environment_variable_lookup_rejected"
    ELSE IF "file" \in matches THEN "filesystem_secret_read_rejected"
    ELSE IF "raw" \in matches THEN "raw_credential_value_rejected"
    ELSE "credential_reference_must_be_future_vault_handle"

\* env:ACTIVEGRAPH_TOKEN and file:///run/secrets/... also match the pattern of
\* raw credentials: the order of the tests decides.
VaultScenarios ==
    [valid_future_vault_handle |-> {"handle", "prefix"}, raw_secret_value |-> {"raw"},
     environment_variable_lookup |-> {"env", "raw"},
     filesystem_secret_read |-> {"file", "raw"}, wrong_scheme |-> {},
     path_traversal_handle |-> {"prefix"}]

VaultContractsOk ==
    LET class == [s \in DOMAIN VaultScenarios |-> ClassifyVault(VaultScenarios[s])]
        accepted == {s \in DOMAIN class : class[s] = "valid_future_vault_handle"}
    IN  /\ accepted = {"valid_future_vault_handle"}
        /\ {"raw_credential_value_rejected", "environment_variable_lookup_rejected",
            "filesystem_secret_read_rejected", "invalid_future_vault_handle_shape",
            "credential_reference_must_be_future_vault_handle"}
             \subseteq {class[s] : s \in DOMAIN class}

\* build_external_readiness_report
ExternalReport(log, required) ==
    IF StoreContractsOk(log, required) /\ VaultContractsOk THEN "passed" ELSE "failed"

-----------------------------------------------------------------------------
(* Phase 10: operator authorizations and incident plans.                   *)

\* request.lacks holds what is empty or not acknowledged, request.asks what is
\* requested; expires counts the days from now, and dated says it can be parsed.
OperatorRequest ==
    [scenario |-> "complete_but_disabled_authorization", lacks |-> {}, asks |-> {},
     mode |-> "design_only_review", dated |-> TRUE, expires |-> 7,
     revoked |-> FALSE, secret |-> FALSE]

OperatorRequests ==
    <<OperatorRequest,
      [OperatorRequest EXCEPT !.scenario = "missing_operator_id",
         !.lacks = {"operator_id"}],
      [OperatorRequest EXCEPT !.scenario = "missing_request_id",
         !.lacks = {"request_id"}],
      [OperatorRequest EXCEPT !.scenario = "missing_acknowledgements",
         !.lacks = {"rollback_acknowledged", "audit_acknowledged",
                    "credential_policy_acknowledged", "sandbox_policy_acknowledged"}],
      [OperatorRequest EXCEPT !.scenario = "expired_authorization", !.expires = -1],
      [OperatorRequest EXCEPT !.scenario = "revoked_authorization", !.revoked = TRUE],
      [OperatorRequest EXCEPT !.scenario = "requested_live_execution",
         !.mode = "live_execution", !.asks = {"live_execution"}],
      [OperatorRequest EXCEPT !.scenario = "requested_model_api_call",
         !.asks = {"model_api_call"}],
      [OperatorRequest EXCEPT !.scenario = "missing_source_artifact_links",
         !.lacks = {"source_artifact_links"}],
      [OperatorRequest EXCEPT !.scenario = "secret_like_payload", !.secret = TRUE]>>

\* A blocker for a missing thing has the name of the thing.
OperatorBlockers(request) ==
    request.lacks
      \cup (IF ~request.dated THEN {"invalid_expires_at"} ELSE {})
      \cup (IF request.dated /\ request.expires <= 0
              THEN {"expired_authorization"} ELSE {})
      \cup (IF request.revoked THEN {"revoked_authorization"} ELSE {})
      \cup (IF \/ request.mode \notin {"design_only_review", "plan_only"}
               \/ "live_execution" \in request.asks
              THEN {"requested_live_execution"} ELSE {})
      \cup (IF "model_api_call" \in request.asks
              THEN {"requested_model_api_call"} ELSE {})
      \cup (IF request.secret THEN {"secret_like_payload_rejected"} ELSE {})

\* An incident plan: what it lacks and what it asks for.
IncidentPlan == [scenario |-> "complete_plan_only_incident", lacks |-> {}, asks |-> {}]

IncidentPlans ==
    <<IncidentPlan,
      [IncidentPlan EXCEPT !.scenario = "missing_incident_id",
         !.lacks = {"incident_id"}],
      [IncidentPlan EXCEPT !.scenario = "missing_severity", !.lacks = {"severity"}],
      [IncidentPlan EXCEPT !.scenario = "missing_rollback_replay_fork_refs",
         !.lacks = {"rollback_plan_ref", "replay_plan_ref", "fork_plan_ref"}],
      [IncidentPlan EXCEPT !.scenario = "missing_audit_ref",
         !.lacks = {"audit_log_ref"}],
      [IncidentPlan EXCEPT !.scenario = "missing_state_packet_chain_ref",
         !.lacks = {"state_packet_index_ref"}],
      [IncidentPlan EXCEPT !.scenario = "request_execute_rollback",
         !.asks = {"execute_rollback"}],
      [IncidentPlan EXCEPT !.scenario = "request_tau2_mutation",
         !.asks = {"mutate_tau2"}],
      [IncidentPlan EXCEPT !.scenario = "request_model_api_call",
         !.asks = {"model_api_call"}]>>

IncidentBlockers(plan) ==
    plan.lacks
      \cup (IF "execute_rollback" \in plan.asks
              THEN {"rollback_execution_unavailable"} ELSE {})
      \cup (IF "mutate_tau2" \in plan.asks THEN {"tau2_mutation_rejected"} ELSE {})
      \cup (IF "model_api_call" \in plan.asks THEN {"model_api_call_rejected"} ELSE {})

\* Both validators answer alike: complete when nothing blocks, never accepted,
\* and a complete request still lists the standing blockers of its kind.
ReviewDecision(scenario, blockers, standing) ==
    [scenario |-> scenario, complete |-> blockers = {}, accepted |-> FALSE,
     blockers |-> IF blockers = {} THEN standing ELSE blockers]

OperatorDecisions ==
    [i \in DOMAIN OperatorRequests |->
       ReviewDecision(OperatorRequests[i].scenario, OperatorBlockers(OperatorRequests[i]),
         {"operator_authorization_live_ready_false",
          "live_execution_unavailable_fail_closed"})]

IncidentDecisions ==
    [i \in DOMAIN IncidentPlans |->
       ReviewDecision(IncidentPlans[i].scenario, IncidentBlockers(IncidentPlans[i]),
         {"incident_response_live_ready_false", "rollback_execution_unavailable",
          "live_execution_unavailable_fail_closed"})]

\* contracts_ok of both builders: one complete decision, none accepted, and
\* every blocker the fixtures are for was seen somewhere.
DecisionsOk(decisions, required) ==
    /\ Cardinality({i \in DOMAIN decisions : decisions[i].complete}) = 1
    /\ \A i \in DOMAIN decisions : ~decisions[i].accepted
    /\ required \subseteq UNION {decisions[i].blockers : i \in DOMAIN decisions}

OperatorContractsOk ==
    DecisionsOk(OperatorDecisions,
      {"operator_id", "request_id", "rollback_acknowledged", "audit_acknowledged",
       "credential_policy_acknowledged", "sandbox_policy_acknowledged",
       "expired_authorization", "revoked_authorization", "requested_live_execution",
       "requested_model_api_call", "source_artifact_links",
       "secret_like_payload_rejected"})

IncidentContractsOk ==
    DecisionsOk(IncidentDecisions,
      {"incident_id", "severity", "rollback_plan_ref", "replay_plan_ref",
       "fork_plan_ref", "audit_log_ref", "state_packet_index_ref",
       "rollback_execution_unavailable", "tau2_mutation_rejected",
       "model_api_call_rejected"})

\* build_operator_incident_readiness_report reads of the phase 9 report that
\* nothing live is on offer, and not its status.
OperatorReport ==
    IF OperatorContractsOk /\ IncidentContractsOk THEN "passed" ELSE "failed"

-----------------------------------------------------------------------------
(* The files of each stage.                                                *)

Fixture == {"events.jsonl", "activegraph_trace.json", "state_packets.jsonl",
            "state_packet_index.json"}
Plans == RequiredArtifacts \ Fixture
ContractFiles == {"contract_decisions.jsonl", "contract_report.json"}
OptInFiles == {"live_opt_in_decisions.jsonl", "live_readiness_report.json",
               "live_manager_proposal.json"}
Phase7Artifacts == RequiredArtifacts \cup ContractFiles \cup OptInFiles
AuditFiles == {"audit_log.jsonl", "audit_integrity_report.json",
               "credential_policy_report.json", "sandbox_policy_report.json",
               "live_readiness_audit_report.json"}
ExternalFiles == {"external_audit_store_contracts.json",
                  "external_audit_store_decisions.jsonl",
                  "vault_integration_contracts.json",
                  "vault_integration_decisions.jsonl", "external_readiness_report.json"}
OperatorFiles == {"operator_authorization_requests.json",
                  "operator_authorization_decisions.jsonl",
                  "incident_response_plans.json", "incident_response_decisions.jsonl",
                  "operator_incident_readiness_report.json"}

\* What the full final_state.json of a phase lists under "artifacts".
Listed(n) ==
    RequiredArtifacts \cup ContractFiles
      \cup (IF n >= 7 THEN OptInFiles ELSE {})
      \cup (IF n >= 8 THEN AuditFiles ELSE {})
      \cup (IF n >= 9 THEN ExternalFiles ELSE {})
      \cup (IF n >= 10 THEN OperatorFiles ELSE {})
      \cup {"summary.md", "final_state.json", "raw.log"}

=============================================================================
