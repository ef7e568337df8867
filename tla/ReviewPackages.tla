--------------------------- MODULE ReviewPackages ---------------------------
(***************************************************************************)
(* The packages of phases 11 and 12: which files are copied, what is       *)
(* listed, classified and hashed, which blockers are named, and what the   *)
(* two validators look at (reactive_manager/human_review.py,               *)
(* review_package.py, auditor_handoff.py, retention_manifest.py).          *)
(*                                                                         *)
(* A directory is a function from file names to contents, SHA-256 is the   *)
(* identity on them.                                                       *)
(***************************************************************************)
EXTENDS ReviewContracts

Absent == ""

-----------------------------------------------------------------------------
(* Files and what they are retained as.                                    *)

\* REQUIRED_PHASE10_CHAIN_ARTIFACTS: two of the files of phase 9 stay behind.
Chain ==
    (Phase7Artifacts \cup AuditFiles \cup ExternalFiles \cup OperatorFiles)
      \ {"external_audit_store_decisions.jsonl", "vault_integration_decisions.jsonl"}

Phase11Artifacts ==
    {"human_review_package.json", "human_review_packet.md", "reviewer_checklist.md",
     "source_evidence_index.json", "blocker_matrix.json"}

Phase12Artifacts ==
    {"auditor_handoff_package.json", "auditor_handoff_packet.md",
     "retention_manifest.json", "artifact_hash_manifest.json",
     "evidence_bundle_index.json", "auditor_questions.md", "handoff_summary.md",
     "summary.md", "final_state.json", "raw.log"}

Upstream == "vendor/tau2-bench.UPSTREAM_COMMIT"

\* build_required_artifacts
Required == {Upstream} \cup Chain \cup Phase11Artifacts \cup Phase12Artifacts

\* ARTIFACT_CLASSIFICATIONS, by retention group: phases 1 to 5, then the rest.
EarlyGroups ==
    [source_provenance |-> {Upstream},
     trace_events |-> {"events.jsonl"},
     activegraph_projection |-> {"activegraph_trace.json"},
     state_packets |-> {"state_packets.jsonl", "state_packet_index.json"},
     manager_plans |-> Plans]

LateGroups ==
    [safety_contracts |-> ContractFiles,
     live_readiness |-> OptInFiles \cup {"live_readiness_audit_report.json"},
     audit_logs |-> {"audit_log.jsonl", "audit_integrity_report.json"},
     credential_and_sandbox |->
        {"credential_policy_report.json", "sandbox_policy_report.json"},
     external_readiness |-> ExternalFiles \cap Chain,
     operator_incident |-> OperatorFiles,
     human_review |-> Phase11Artifacts,
     auditor_handoff |-> Phase12Artifacts]

\* The groups with nothing of what is required in them.
EmptyGroups(artifacts) ==
    {g \in DOMAIN EarlyGroups : EarlyGroups[g] \cap artifacts = {}}
      \cup {g \in DOMAIN LateGroups : LateGroups[g] \cap artifacts = {}}

\* The groups a file is retained under; every file has exactly one.
GroupsOf(artifact) ==
    {g \in DOMAIN EarlyGroups : artifact \in EarlyGroups[g]}
      \cup {g \in DOMAIN LateGroups : artifact \in LateGroups[g]}

-----------------------------------------------------------------------------
(* Blockers.                                                               *)

\* What the reports of phases 8 and 9 name when all is well.
AuditBlockers == {"phase 8 is review-only", "vault runtime is unavailable",
                  "sandbox enforcement is absent"}
ExternalBlockers == {"phase 9 is design-only", "no external audit service",
                     "no vault integration", "execution remains fail-closed"}

Observed(decisions) == UNION {decisions[i].blockers : i \in DOMAIN decisions}

\* build_blocker_matrix, a blocker that is "validated" by now included: the
\* package names what must stay so.
MatrixOf(operator, incident) ==
    [operator_authorization |->
        {"operator_authorization_structural_only_not_approval"} \cup operator,
     incident_response |-> {"incident_response_plan_only_not_executable"} \cup incident,
     credential_vault_readiness |->
        {"credential_live_ready_false", "vault_runtime_unavailable_handle_only_mock_only"},
     sandbox_readiness |->
        {"live_sandbox_ready_false", "future_live_sandbox_enforcement_absent"},
     external_audit_store_readiness |->
        {"external_audit_store_live_ready_false",
         "no_real_immutable_external_audit_service"},
     live_execution_gate |->
        {"live_ready_false", "live_execution_unavailable_fail_closed"},
     tau2_ownership_control_boundary |->
        {"activegraph_must_not_control_tau2_lifecycle_or_task_state",
         "state_packets_not_fed_back_into_tau2"},
     rollback_recovery |->
        {"rollback_execution_unavailable", "rollback_recovery_plan_only"},
     audit_evidence |->
        {"audit_hash_chain_must_remain_valid", "state_packet_hash_chain_must_remain_valid",
         "source_evidence_required_for_future_review"},
     unresolved_future_implementation_prerequisites |->
        AuditBlockers \cup ExternalBlockers
          \cup {"separate_future_live_manager_design_and_approval_required"}]

BlockerMatrix(operator, incident) == MatrixOf(Observed(operator), Observed(incident))

\* summarize_blockers and build_unresolved_prerequisites: each blocker once
\* under its category.
Prerequisites(matrix) == UNION {{c} \X matrix[c] : c \in DOMAIN matrix}

-----------------------------------------------------------------------------
(* Manifests and validators.                                               *)

\* build_artifact_hash_manifest: its own entry has no hash.
HashManifest(dir) ==
    [f \in Required |-> IF f = "artifact_hash_manifest.json" THEN Absent ELSE dir[f]]

Missing(dir) == {f \in DOMAIN dir : dir[f] = Absent}

\* _validate_package
PackageValid(vendor, matrix, dir) ==
    /\ ~vendor
    /\ Prerequisites(matrix) # {}
    /\ Missing(dir) \cap Chain = {}

\* _validate_outputs
OutputsValid(vendor, source, prerequisites, manifest) ==
    /\ ~vendor
    /\ source = "passed"
    /\ prerequisites # {}
    /\ EmptyGroups(Required) = {}
    /\ Missing(manifest) \subseteq {"artifact_hash_manifest.json"}

=============================================================================
