------------------------------ MODULE PhaseRuns ------------------------------
(***************************************************************************)
(* One run of a command of phases 6 to 10: run_reactive_manager_contracts, *)
(* run_live_manager_opt_in_contracts, run_live_readiness_audit,            *)
(* run_external_readiness_contracts or run_operator_incident_readiness.    *)
(* Each does what the one before it does, in a directory of its own, and   *)
(* goes one stage further.  Whenever a guard wants to know whether the     *)
(* vendored tree is clean the code asks git again, and somebody may have   *)
(* changed or restored the tree since.                                     *)
(***************************************************************************)
EXTENDS ReviewContracts

CONSTANT MaxFlips       \* bounds how often the tree is changed or restored

ASSUME MaxFlipsAssumption == MaxFlips \in Nat

Nothing == "nothing"
States == {"passed", "failed", "inputs_missing"}
NoState == [state |-> Nothing, full |-> FALSE, vendor |-> FALSE]

VARIABLES
    phase,          \* 6 .. 10
    upstream,       \* the vendored tree is there at the expected commit
    sound,          \* the source symbols are there, and the fixture artifacts pass
                    \* their validators, when made and when read back
    git,            \* git can be run
    dirty,          \* git status reports a change under the vendored tree
    flips,          \* how often that changed
    pc,             \* what the run does next
    written,        \* the files the run has written to its directory
    decisions,      \* contract_decisions.jsonl, as far as decided
    contract,       \* the status in contract_report.json
    proposals,      \* live_opt_in_decisions.jsonl, as far as decided
    audit,          \* audit_log.jsonl
    reports,        \* the reports of phases 8 to 10 by their phase
    outcome,        \* what the run will put in final_state.json
    final,          \* final_state.json
    said,           \* the last line printed
    exit

environment == <<phase, upstream, sound, git>>
tree == <<dirty, flips>>
evidence == <<decisions, contract, proposals, audit, reports>>
end == <<outcome, final, said, exit>>
vars == <<environment, tree, pc, written, evidence, end>>

-----------------------------------------------------------------------------
(* Control.                                                                *)

Goto(label) == pc' = label

\* Every question to git can raise, which ends in the handler.
AsksGit(label) == pc = label /\ git

Decided(state) ==
    /\ outcome' = [state |-> state, full |-> TRUE, vendor |-> dirty]
    /\ Goto("final")

\* The short final_state.json of an early exit.
Refuse(state) ==
    /\ outcome' = [state |-> state, full |-> FALSE, vendor |-> FALSE]
    /\ Goto("final")

\* Only phase 6 hands on the state of a fixture that is not sound.
RefuseFixture == Refuse(IF phase = 6 THEN "failed" ELSE "inputs_missing")

\* emit_fixture_artifacts: without the vendored tree nothing is written; missing
\* symbols and invalid packets are told after its four files are.
Emit ==
    /\ pc = "emit"
    /\ IF upstream
         THEN /\ written' = Fixture
              /\ \/ Goto("plan") /\ UNCHANGED outcome
                 \/ ~sound /\ RefuseFixture
         ELSE Refuse("inputs_missing") /\ UNCHANGED written
    /\ UNCHANGED <<environment, tree, evidence, final, said, exit>>

\* The rest of build_phase5_artifacts.  The plans are written whatever the
\* validators say of the files read back.
Plan ==
    /\ pc = "plan"
    /\ written' = written \cup Plans
    /\ IF sound THEN Goto("requests") /\ UNCHANGED outcome
       ELSE RefuseFixture
    /\ UNCHANGED <<environment, tree, evidence, final, said, exit>>

DecideRequest ==
    /\ AsksGit("requests")
    /\ Len(decisions) < Len(Requests)
    /\ decisions' = Append(decisions, Decide(Requests[Len(decisions) + 1], dirty))
    /\ UNCHANGED <<environment, tree, pc, written, contract, proposals, audit, reports, end>>

\* contract_decisions.jsonl, then contract_report.json with the tree as it is
\* by now.  Phase 6 ends here; the phases built on it do not count its missing
\* files and go on whatever the status.
ReportContract ==
    /\ AsksGit("requests")
    /\ Len(decisions) = Len(Requests)
    /\ contract' = ContractReport(decisions,
                     IF phase = 6 THEN RequiredArtifacts \ written ELSE {}, dirty)
    /\ written' = written \cup ContractFiles
    /\ IF phase = 6 THEN Decided(contract') ELSE Goto("proposals") /\ UNCHANGED outcome
    /\ UNCHANGED <<environment, tree, decisions, proposals, audit, reports, final, said, exit>>

Propose ==
    /\ AsksGit("proposals")
    /\ Len(proposals) < Len(Proposals)
    /\ proposals' = Append(proposals,
                      ReadinessDecision(Proposals[Len(proposals) + 1], dirty))
    /\ UNCHANGED <<environment, tree, pc, written, decisions, contract, audit, reports, end>>

WriteOptIn ==
    /\ pc = "proposals"
    /\ Len(proposals) = Len(Proposals)
    /\ written' = written \cup OptInFiles
    /\ IF Phase7Artifacts \subseteq written' \/ phase = 7
         THEN Goto(IF phase = 7 THEN "opt in" ELSE "audit") /\ UNCHANGED outcome
         ELSE Refuse("inputs_missing")
    /\ UNCHANGED <<environment, tree, evidence, final, said, exit>>

\* mutated: the contract report of phase 6 is not asked for
OptInStateAlone ==
    IF /\ OptInOk(proposals, ReadinessReport(proposals))
       /\ Phase7Artifacts \subseteq written
       /\ ~dirty
      THEN "passed" ELSE "failed"

\* smoke_ok of phase 7, the only one that looks at the contract report.
OptInState ==
    IF /\ OptInOk(proposals, ReadinessReport(proposals))
       /\ contract = "passed"
       /\ Phase7Artifacts \subseteq written
       /\ ~dirty
      THEN "passed" ELSE "failed"

DecideOptIn ==
    /\ AsksGit("opt in")
    /\ Decided(OptInState)
    /\ UNCHANGED <<environment, tree, written, evidence, final, said, exit>>

\* What phase 8 records of each decision.
Statuses ==
    [i \in DOMAIN proposals |->
       IF proposals[i].complete THEN "structurally_complete_disabled"
       ELSE "rejected_fail_closed"]

AuditLog ==
    BuildAuditRecords(Len(Proposals), Statuses, "live_ready_false", contract)

\* The five reports of phase 8 from the tree as it is by now.  Phases 9 and 10
\* go on only if they are fine, and keep what they saw of the tree here.
Audit ==
    /\ AsksGit("audit")
    /\ audit' = AuditLog
    /\ written' = written \cup AuditFiles
    /\ LET errors == AuditErrors(audit', written, 1 .. Len(Proposals),
                                 1 .. Len(proposals))
           ok == AuditOk(errors, ReadinessReport(proposals), dirty)
           state == IF ok THEN "passed" ELSE "failed"
       IN  /\ reports' = [reports EXCEPT ![8] = state]
           /\ IF phase = 8 THEN Decided(IF ok /\ ~dirty THEN "passed" ELSE "failed")
              ELSE IF ok THEN Goto("external") /\ UNCHANGED outcome
              ELSE Refuse("failed")
    /\ UNCHANGED <<environment, tree, decisions, contract, proposals, final, said, exit>>

\* Phase 9: the store and vault contracts.  No new question is put to git: the
\* tree was clean when the audit asked, or the run would not be here.  Nor are
\* the tests of missing files and of the earlier reports repeated: they hold.
External ==
    /\ pc = "external"
    /\ reports' = [reports EXCEPT ![9] = ExternalReport(audit, Phase7Artifacts)]
    /\ written' = written \cup ExternalFiles
    /\ IF phase = 9
         THEN /\ outcome' = [state |-> reports'[9], full |-> TRUE, vendor |-> FALSE]
              /\ Goto("final")
         ELSE Goto("operator") /\ UNCHANGED outcome
    /\ UNCHANGED <<environment, tree, decisions, contract, proposals, audit, final, said, exit>>

Operator ==
    /\ pc = "operator"
    /\ reports' = [reports EXCEPT ![10] = OperatorReport]
    /\ written' = written \cup OperatorFiles
    /\ outcome' = [state |-> reports'[10], full |-> TRUE, vendor |-> FALSE]
    /\ Goto("final")
    /\ UNCHANGED <<environment, tree, decisions, contract, proposals, audit, final, said, exit>>

-----------------------------------------------------------------------------
(* The end of a run.                                                       *)

WriteFinal ==
    /\ pc = "final"
    /\ final' = outcome
    /\ written' = written \cup {"final_state.json"}
    /\ Goto(IF outcome.full THEN "summary" ELSE "raw")
    /\ UNCHANGED <<environment, tree, evidence, outcome, said, exit>>

WriteSummary ==
    /\ pc = "summary"
    /\ written' = written \cup {"summary.md"}
    /\ Goto("raw")
    /\ UNCHANGED <<environment, tree, evidence, end>>

WriteRaw ==
    /\ pc = "raw"
    /\ written' = written \cup {"raw.log"}
    /\ Goto("print")
    /\ UNCHANGED <<environment, tree, evidence, end>>

\* mutated: 0 for every run that comes this far
PrintAndReturnZero ==
    /\ pc = "print"
    /\ said' = final.state
    /\ exit' = "0"
    /\ Goto("done")
    /\ UNCHANGED <<environment, tree, written, evidence, outcome, final>>

PrintAndReturn ==
    /\ pc = "print"
    /\ said' = final.state
    /\ exit' = IF final.state = "passed" THEN "0" ELSE "1"
    /\ Goto("done")
    /\ UNCHANGED <<environment, tree, written, evidence, outcome, final>>

\* git cannot be run: the exception leaves main, and the handler writes the
\* traceback to the directory of the second it is by then, which may be the
\* run's own, prints the error line and raises again.
Raise ==
    /\ pc \in {"requests", "proposals", "opt in", "audit"}
    /\ ~git
    /\ \E sameSecond \in BOOLEAN :
         written' = IF sameSecond THEN written \cup {"raw.log"} ELSE written
    /\ said' = "error"
    /\ exit' = "1"
    /\ Goto("done")
    /\ UNCHANGED <<environment, tree, evidence, outcome, final>>

Kill ==
    /\ exit = "running"
    /\ exit' = "killed"
    /\ Goto("done")
    /\ UNCHANGED <<environment, tree, written, evidence, outcome, final, said>>

\* Somebody edits the vendored tree, or puts it back.
Flip ==
    /\ exit = "running"
    /\ flips < MaxFlips
    /\ dirty' = ~dirty
    /\ flips' = flips + 1
    /\ UNCHANGED <<environment, pc, written, evidence, end>>

Init ==
    /\ phase \in 6 .. 10
    /\ upstream \in BOOLEAN /\ sound \in BOOLEAN /\ git \in BOOLEAN
    /\ dirty \in BOOLEAN /\ flips = 0
    /\ pc = "emit" /\ written = {}
    /\ decisions = <<>> /\ contract = Nothing /\ proposals = <<>>
    /\ audit = <<>> /\ reports = [n \in 8 .. 10 |-> Nothing]
    /\ outcome = NoState /\ final = NoState
    /\ said = Nothing /\ exit = "running"

Step ==
    \/ Emit \/ Plan \/ DecideRequest \/ ReportContract \/ Propose \/ WriteOptIn
    \/ DecideOptIn \/ Audit \/ External \/ Operator
    \/ WriteFinal \/ WriteSummary \/ WriteRaw \/ PrintAndReturn \/ Raise

Terminating == exit # "running" /\ UNCHANGED vars

Next == Step \/ Kill \/ Flip \/ Terminating

Spec == Init /\ [][Next]_vars /\ WF_vars(Step)

-----------------------------------------------------------------------------
(* Properties.                                                             *)

TypeOK ==
    /\ phase \in 6 .. 10
    /\ upstream \in BOOLEAN /\ sound \in BOOLEAN /\ git \in BOOLEAN
    /\ dirty \in BOOLEAN /\ flips \in 0 .. MaxFlips
    /\ pc \in {"emit", "plan", "requests", "proposals", "opt in", "audit", "external",
               "operator", "final", "summary", "raw", "print", "done"}
    /\ written \subseteq Listed(10)
    /\ Len(decisions) \in 0 .. 5 /\ Len(proposals) \in 0 .. 9
    /\ contract \in {Nothing, "passed", "failed"}
    /\ reports \in [8 .. 10 -> {Nothing, "passed", "failed"}]
    /\ exit \in {"running", "0", "1", "killed"}
    /\ said \in States \cup {Nothing, "error"}

\* The gate each bad fixture was made to trip.
Tripped ==
    [valid_dry_run_request |-> "",
     invalid_live_control_request |-> "no_tau2_control_flow",
     invalid_missing_provenance |-> "state_packet_provenance",
     invalid_packet_hash_chain |-> "state_packet_hash_chain_valid",
     invalid_secret_payload |-> "no_api_keys_or_secrets"]

TrippedProposal ==
    [complete_but_disabled_proposal |-> <<"", "">>,
     missing_operator_acknowledgement |->
        <<"operator_authorization", "operator_acknowledgement_present">>,
     missing_credential_isolation |->
        <<"credential_secret_policy", "credential_references_are_handles">>,
     ambiguous_tau2_ownership |->
        <<"tau2_lifecycle_ownership", "no_ambiguous_control_ownership">>,
     missing_rollback_plan |-> <<"rollback_recovery", "rollback_plan_present">>,
     missing_audit_log_plan |->
        <<"audit_logging", "immutable_decision_log_present">>,
     dirty_vendor_tree_simulated |->
        <<"sandbox_isolation", "vendor_tau2_bench_unchanged">>,
     invalid_packet_chain_simulated |-> <<"packet_chain", "state_packet_chain_valid">>,
     unsafe_model_api_request |->
        <<"phase7_disabled_by_construction", "model_api_call_not_requested">>]

\* A bad fixture is refused by the gate it was made for, whatever the tree is
\* like.  The reports only count refusals: a gate that no longer works goes
\* unseen while another one, or a dirty tree, refuses in its place.
RefusedForItsReason ==
    /\ \A i \in DOMAIN decisions :
         decisions[i].scenario = "valid_dry_run_request"
           \/ Tripped[decisions[i].scenario] \in decisions[i].refused
    /\ \A i \in DOMAIN proposals :
         proposals[i].scenario = "complete_but_disabled_proposal"
           \/ TrippedProposal[proposals[i].scenario] \in proposals[i].blockers

\* What exit code 0 rests on, however the tree changed between the questions:
\* every file the final state lists is there, the reports of the phase itself
\* and of the review phases before it passed, the contracts did up to phase 7,
\* and the only complete proposal is the one meant to be.
PassRests ==
    exit = "0" =>
      /\ final.state = "passed" /\ ~final.vendor
      /\ Listed(phase) \subseteq written
      /\ phase <= 7 => contract = "passed"
      /\ phase = 7 => {i \in DOMAIN proposals : proposals[i].complete} = {1}
      /\ \A n \in 8 .. phase : reports[n] = "passed"

\* A log does not validate any more when the result of a record is changed, also
\* with the hash of that record made anew unless it is the last one, when a
\* record that others follow is taken out, or when one is repeated.  canonical_hash
\* has no key: who makes anew the hashes of all records that follow is not seen.
TamperEvident ==
    LET Errors(log) == AuditErrors(log, written, 1 .. 9, 1 .. 9)
        Tampered(i) == [audit[i] EXCEPT !.result = "tampered"]
        Rehashed(i) == [Tampered(i) EXCEPT !.hash = AuditHash(Tampered(i))]
        Without(i) == [j \in 1 .. Len(audit) - 1 |-> audit[IF j < i THEN j ELSE j + 1]]
    IN  /\ Errors(audit) = {}
        /\ \A i \in DOMAIN audit :
             /\ Errors([audit EXCEPT ![i] = Tampered(i)]) # {}
             /\ i < Len(audit) => Errors([audit EXCEPT ![i] = Rehashed(i)]) # {}
             /\ i < Len(audit) => Errors(Without(i)) # {}
             /\ Errors(Append(audit, audit[i])) # {}

\* The log tells of each decision what the decisions file says, in its order,
\* and of the contracts what their report says.
TellsDecisions ==
    audit # <<>> =>
      LET told == {i \in DOMAIN audit : audit[i].type = "decision"}
      IN  /\ {audit[i].source : i \in told} = DOMAIN proposals
          /\ \A i, j \in told : i < j => audit[i].source < audit[j].source
          /\ \A i \in told :
               /\ audit[i].proposal = audit[i].source
               /\ (audit[i].result = "structurally_complete_disabled")
                    <=> proposals[audit[i].source].complete
          /\ audit[Len(audit)].result = contract

\* The audit log of phase 8 is true when it is written, and a change to one of its
\* records is seen as long as the records after it stay as they are; records at
\* its end can be cut off, and a whole tail written anew.
AuditEvident == TellsDecisions /\ TamperEvident

\* What a caller relies on: final_state.json, the last printed line and the
\* exit code agree, whatever happened on the way, and the run comes to an end.
Promise == INSTANCE SmokeContract WITH
    Passes <- {"passed"}, Errors <- {"error"},
    claim <- final.state
Contract == Promise!Keeps

=============================================================================
