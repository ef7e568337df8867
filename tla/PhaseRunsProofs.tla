---------------------------- MODULE PhaseRunsProofs ----------------------------
(***************************************************************************)
(* Proofs about PhaseRuns: the types, that bad fixtures are refused for    *)
(* what they were made for, that exit code 0 was earned, that the audit    *)
(* log is true and tamper-evident, and that the end of a run is one of     *)
(* SmokeContract.  The fixtures and the gates are data: the lemmas about   *)
(* them say which gate fails whatever git reports of the vendored tree.    *)
(***************************************************************************)
EXTENDS PhaseRuns, SequenceTheorems, FiniteSetTheorems, TLAPS

-----------------------------------------------------------------------------
(* The fixtures and the gates they trip.                                   *)

\* The elements of a sequence that is written out.
LEMMA FiveElements ==
  ASSUME NEW s, NEW a, NEW b, NEW c, NEW d, NEW e, s = <<a, b, c, d, e>>
  PROVE  /\ Len(s) = 5 /\ DOMAIN s = 1 .. 5
         /\ s[1] = a /\ s[2] = b /\ s[3] = c /\ s[4] = d /\ s[5] = e
OBVIOUS

\* The same for nine.
LEMMA NineElements ==
  ASSUME NEW s, NEW a, NEW b, NEW c, NEW d, NEW e, NEW f, NEW g, NEW h, NEW i,
         s = <<a, b, c, d, e, f, g, h, i>>
  PROVE  /\ Len(s) = 9 /\ DOMAIN s = 1 .. 9
         /\ s[1] = a /\ s[2] = b /\ s[3] = c /\ s[4] = d /\ s[5] = e
         /\ s[6] = f /\ s[7] = g /\ s[8] = h /\ s[9] = i
OBVIOUS

\* The five fixtures of phase 6.
LEMMA RequestsAre ==
    /\ Len(Requests) = 5 /\ DOMAIN Requests = 1 .. 5
    /\ Requests[1] = ValidRequest
    /\ Requests[2] = [ValidRequest EXCEPT !.scenario = "invalid_live_control_request",
         !.mode = "live_control", !.dry_run = FALSE, !.acknowledged = FALSE,
         !.controls = TRUE]
    /\ Requests[3] = [ValidRequest EXCEPT !.scenario = "invalid_missing_provenance",
         !.provenance = {"no_llm_status"}]
    /\ Requests[4] = BrokenPacketValidation(
        [ValidRequest EXCEPT !.scenario = "invalid_packet_hash_chain"])
    /\ Requests[5] = [ValidRequest EXCEPT !.scenario = "invalid_secret_payload", !.secret = TRUE]
<1> DEFINE two == [ValidRequest EXCEPT !.scenario = "invalid_live_control_request",
         !.mode = "live_control", !.dry_run = FALSE, !.acknowledged = FALSE,
         !.controls = TRUE]
           three == [ValidRequest EXCEPT !.scenario = "invalid_missing_provenance",
         !.provenance = {"no_llm_status"}]
           four == BrokenPacketValidation(
        [ValidRequest EXCEPT !.scenario = "invalid_packet_hash_chain"])
           five == [ValidRequest EXCEPT !.scenario = "invalid_secret_payload", !.secret = TRUE]
<1>1. Requests = <<ValidRequest, two, three, four, five>>
  BY Zenon DEF Requests
<1> HIDE DEF two, three, four, five
<1>2. /\ Len(Requests) = 5 /\ DOMAIN Requests = 1 .. 5
      /\ Requests[1] = ValidRequest /\ Requests[2] = two /\ Requests[3] = three
      /\ Requests[4] = four /\ Requests[5] = five
  BY <1>1, FiveElements
<1> QED BY <1>2, Zenon DEF two, three, four, five

\* Each bad request fails the guard it was made for, whatever the tree is like.
LEMMA Trips ==
  ASSUME NEW d \in BOOLEAN
  PROVE /\ ~Guards(Requests[2], d)["no_tau2_control_flow"]
        /\ ~Guards(Requests[3], d)["state_packet_provenance"]
        /\ ~Guards(Requests[4], d)["state_packet_hash_chain_valid"]
        /\ ~Guards(Requests[5], d)["no_api_keys_or_secrets"]
<1>1. ~Guards(Requests[2], d)["no_tau2_control_flow"]
  BY RequestsAre DEF ValidRequest, Guards
<1>2. ~Guards(Requests[3], d)["state_packet_provenance"]
  <2>1. Requests[3].provenance = {"no_llm_status"}
    BY RequestsAre DEF ValidRequest
  <2>2. "state_packets" \notin Requests[3].provenance
    BY <2>1
  <2> QED BY <2>2 DEF Guards
<1>3. ~Guards(Requests[4], d)["state_packet_hash_chain_valid"]
  BY RequestsAre DEF ValidRequest, Guards, BrokenPacketValidation
<1>4. ~Guards(Requests[5], d)["no_api_keys_or_secrets"]
  BY RequestsAre DEF ValidRequest, Guards
<1> QED BY <1>1, <1>2, <1>3, <1>4

\* These are guards of every request.
LEMMA GuardNames ==
  ASSUME NEW r, NEW d
  PROVE  {"no_tau2_control_flow", "state_packet_provenance",
          "state_packet_hash_chain_valid", "no_api_keys_or_secrets"} \subseteq DOMAIN Guards(r, d)
BY DEF Guards

\* The nine fixtures of phase 7 and what is wrong with each.
LEMMA ProposalsAre ==
  /\ Len(Proposals) = 9 /\ DOMAIN Proposals = 1 .. 9
  /\ Proposals[1] = BaseProposal
  /\ /\ Proposals[2].scenario = "missing_operator_acknowledgement"
     /\ Proposals[2].operator_acknowledged = FALSE
  /\ /\ Proposals[3].scenario = "missing_credential_isolation"
     /\ Proposals[3].credential_references_are_handles = FALSE
  /\ /\ Proposals[4].scenario = "ambiguous_tau2_ownership"
     /\ Proposals[4].ambiguous_control_ownership = TRUE
  /\ /\ Proposals[5].scenario = "missing_rollback_plan"
     /\ Proposals[5].rollback_plan_present = FALSE
  /\ /\ Proposals[6].scenario = "missing_audit_log_plan"
     /\ Proposals[6].immutable_decision_log_present = FALSE
  /\ /\ Proposals[7].scenario = "dirty_vendor_tree_simulated"
     /\ Proposals[7].dirty_vendor_tree = TRUE
  /\ /\ Proposals[8].scenario = "invalid_packet_chain_simulated"
     /\ Proposals[8].chain_ok = FALSE
  /\ /\ Proposals[9].scenario = "unsafe_model_api_request"
     /\ Proposals[9].model_api_call_requested = TRUE
<1> DEFINE p2 == [BaseProposal EXCEPT !.scenario = "missing_operator_acknowledgement",
         !.operator_acknowledged = FALSE]
           p3 == [BaseProposal EXCEPT !.scenario = "missing_credential_isolation",
         !.no_secrets_in_request_payloads = FALSE,
         !.credential_references_are_handles = FALSE,
         !.raw_credential_values_present = TRUE]
           p4 == [BaseProposal EXCEPT !.scenario = "ambiguous_tau2_ownership",
         !.boundary_acknowledged = FALSE, !.activegraph_controls_tau2 = TRUE,
         !.ambiguous_control_ownership = TRUE, !.validated_ownership_plan = FALSE]
           p5 == [BaseProposal EXCEPT !.scenario = "missing_rollback_plan",
         !.rollback_plan_present = FALSE, !.recovery_point_present = FALSE,
         !.replay_plan_present = FALSE, !.fork_plan_present = FALSE]
           p6 == [BaseProposal EXCEPT !.scenario = "missing_audit_log_plan",
         !.immutable_decision_log_present = FALSE, !.provenance_present = FALSE,
         !.operator_request_ids_present = FALSE,
         !.safety_gate_results_present = FALSE]
           p7 == [BaseProposal EXCEPT !.scenario = "dirty_vendor_tree_simulated",
         !.dirty_vendor_tree = TRUE, !.vendor_unchanged = FALSE]
           p8 == [BaseProposal EXCEPT !.scenario = "invalid_packet_chain_simulated",
         !.invalid_packet_chain = TRUE, !.chain_ok = FALSE]
           p9 == [BaseProposal EXCEPT !.scenario = "unsafe_model_api_request",
         !.live_execution_requested = TRUE, !.model_api_call_requested = TRUE,
         !.model_backed_run_requested = TRUE, !.network_access_declared = TRUE]
<1>1. Proposals = <<BaseProposal, p2, p3, p4, p5, p6, p7, p8, p9>>
  BY Zenon DEF Proposals
<1>2. /\ p2.scenario = "missing_operator_acknowledgement" /\ p2.operator_acknowledged = FALSE
      /\ p3.scenario = "missing_credential_isolation"
      /\ p3.credential_references_are_handles = FALSE
  BY DEF BaseProposal
<1>3. /\ p4.scenario = "ambiguous_tau2_ownership" /\ p4.ambiguous_control_ownership = TRUE
      /\ p5.scenario = "missing_rollback_plan" /\ p5.rollback_plan_present = FALSE
  BY DEF BaseProposal
<1>4. /\ p6.scenario = "missing_audit_log_plan"
      /\ p6.immutable_decision_log_present = FALSE
      /\ p7.scenario = "dirty_vendor_tree_simulated" /\ p7.dirty_vendor_tree = TRUE
  BY DEF BaseProposal
<1>5. /\ p8.scenario = "invalid_packet_chain_simulated" /\ p8.chain_ok = FALSE
      /\ p9.scenario = "unsafe_model_api_request" /\ p9.model_api_call_requested = TRUE
  BY DEF BaseProposal
<1> HIDE DEF p2, p3, p4, p5, p6, p7, p8, p9
<1>6. /\ Len(Proposals) = 9 /\ DOMAIN Proposals = 1 .. 9
      /\ Proposals[1] = BaseProposal /\ Proposals[2] = p2 /\ Proposals[3] = p3
      /\ Proposals[4] = p4 /\ Proposals[5] = p5 /\ Proposals[6] = p6
      /\ Proposals[7] = p7 /\ Proposals[8] = p8 /\ Proposals[9] = p9
  BY <1>1, NineElements
<1> QED BY <1>2, <1>3, <1>4, <1>5, <1>6

\* A gate that did not pass is a blocker of the decision.
LEMMA Blocks ==
  ASSUME NEW p, NEW d, NEW r, r \in DOMAIN ReadinessGates(p, d), NEW g,
         g \in DOMAIN ReadinessGates(p, d)[r], ~ReadinessGates(p, d)[r][g]
  PROVE  /\ <<r, g>> \in ReadinessDecision(p, d).blockers
         /\ ReadinessDecision(p, d).scenario = p.scenario
<1> DEFINE gates == ReadinessGates(p, d)
<1>1. ReadinessDecision(p, d).blockers = Blockers(gates)
      /\ ReadinessDecision(p, d).scenario = p.scenario
  BY DEF ReadinessDecision
<1> HIDE DEF gates
<1>2. g \in Failed(gates[r]) /\ r \in DOMAIN gates
  BY DEF Failed, gates
<1>3. <<r, g>> \in Blockers(gates)
  BY <1>2 DEF Blockers
<1> QED BY <1>1, <1>3

\* The gates that the fixtures of phase 7 are made to trip.
LEMMA GatesAre ==
  ASSUME NEW p, NEW d
  PROVE  LET gates == ReadinessGates(p, d) IN
         /\ gates["operator_authorization"]["operator_acknowledgement_present"]
              = p.operator_acknowledged
         /\ gates["credential_secret_policy"]["credential_references_are_handles"]
              = (p.credential_references_are_handles /\ ~p.raw_credential_values_present)
         /\ gates["tau2_lifecycle_ownership"]["no_ambiguous_control_ownership"]
              = (~p.ambiguous_control_ownership /\ ~p.activegraph_controls_tau2)
         /\ gates["rollback_recovery"]["rollback_plan_present"] = p.rollback_plan_present
         /\ gates["audit_logging"]["immutable_decision_log_present"]
              = p.immutable_decision_log_present
         /\ gates["sandbox_isolation"]["vendor_tau2_bench_unchanged"]
              = (p.vendor_unchanged /\ ~p.dirty_vendor_tree /\ ~d)
         /\ gates["packet_chain"]["state_packet_chain_valid"]
              = (p.chain_ok /\ ~p.invalid_packet_chain)
         /\ gates["phase7_disabled_by_construction"]["model_api_call_not_requested"]
              = ~p.model_api_call_requested
BY DEF ReadinessGates

\* These are gates of every proposal.
LEMMA GatesNamed ==
  ASSUME NEW p, NEW d
  PROVE  LET gates == ReadinessGates(p, d) IN
         /\ "operator_authorization" \in DOMAIN gates
         /\ "operator_acknowledgement_present" \in DOMAIN gates["operator_authorization"]
         /\ "credential_secret_policy" \in DOMAIN gates
         /\ "credential_references_are_handles" \in DOMAIN gates["credential_secret_policy"]
         /\ "tau2_lifecycle_ownership" \in DOMAIN gates
         /\ "no_ambiguous_control_ownership" \in DOMAIN gates["tau2_lifecycle_ownership"]
         /\ "rollback_recovery" \in DOMAIN gates
         /\ "rollback_plan_present" \in DOMAIN gates["rollback_recovery"]
         /\ "audit_logging" \in DOMAIN gates
         /\ "immutable_decision_log_present" \in DOMAIN gates["audit_logging"]
         /\ "sandbox_isolation" \in DOMAIN gates
         /\ "vendor_tau2_bench_unchanged" \in DOMAIN gates["sandbox_isolation"]
         /\ "packet_chain" \in DOMAIN gates
         /\ "state_packet_chain_valid" \in DOMAIN gates["packet_chain"]
         /\ "phase7_disabled_by_construction" \in DOMAIN gates
         /\ "model_api_call_not_requested" \in DOMAIN gates["phase7_disabled_by_construction"]
BY DEF ReadinessGates

-----------------------------------------------------------------------------
(* The inductive invariant.                                                *)

\* What may be answered to request i, and how proposal i may be scored, depending on
\* the tree at that moment.
Answers(i) == {Decide(Requests[i], TRUE), Decide(Requests[i], FALSE)}
Scores(i) == {ReadinessDecision(Proposals[i], TRUE), ReadinessDecision(Proposals[i], FALSE)}
AllAnswers == UNION {Answers(i) : i \in 1 .. 5}
AllScores == UNION {Scores(i) : i \in 1 .. 9}

\* The decisions files answer the requests and the proposals one after the other.
AnsweredInOrder ==
    /\ decisions \in Seq(AllAnswers) /\ Len(decisions) <= 5
    /\ \A i \in 1 .. Len(decisions) : decisions[i] \in Answers(i)
    /\ proposals \in Seq(AllScores) /\ Len(proposals) <= 9
    /\ \A i \in 1 .. Len(proposals) : proposals[i] \in Scores(i)

EndStates == [state : States \cup {Nothing}, full : BOOLEAN, vendor : BOOLEAN]

TypedInv == TypeOK /\ AnsweredInOrder /\ outcome \in EndStates /\ final \in EndStates

\* What is known of the end of the run at each place.
EndInv ==
    /\ pc = "done" <=> exit # "running"
    /\ exit = "running" => said = Nothing
    /\ pc = "final" => outcome.state \in States
    /\ pc \in {"summary", "raw", "print"} => final = outcome /\ final.state \in States
    /\ pc \notin {"summary", "raw", "print", "done"} => final = NoState
    /\ exit = "0" => final = outcome /\ final.state = "passed"

\* The files a run has written when it comes to each place, and which phases do.
FilesInv ==
    /\ pc = "plan" => Fixture \subseteq written
    /\ pc \in {"requests", "proposals", "opt in", "audit", "external", "operator"} =>
         RequiredArtifacts \subseteq written
    /\ pc \in {"proposals", "opt in", "audit", "external", "operator"} =>
         ContractFiles \subseteq written /\ phase >= 7
    /\ pc \in {"opt in", "audit", "external", "operator"} => OptInFiles \subseteq written
    /\ pc = "opt in" => phase = 7
    /\ pc \in {"audit", "external", "operator"} => phase >= 8
    /\ pc \in {"external", "operator"} => AuditFiles \subseteq written /\ phase >= 9
    /\ pc = "operator" => ExternalFiles \subseteq written /\ phase = 10

\* The audit log is that of decisions which do not change any more.
AuditInv ==
    /\ pc \in {"proposals", "opt in", "audit"} => contract \in {"passed", "failed"}
    /\ pc \in {"opt in", "audit"} => Len(proposals) = 9
    /\ pc \in {"external", "operator"} => audit # <<>>
    /\ audit # <<>> =>
         /\ pc \notin {"emit", "plan", "requests", "proposals", "opt in", "audit"}
         /\ audit = AuditLog /\ Len(proposals) = 9 /\ contract \in {"passed", "failed"}
         /\ Phase7Artifacts \subseteq written

Late == {"final", "summary", "raw", "print", "done"}

\* What the files of a phase are but for those of the end.
Body(n) == Listed(n) \ {"summary.md", "final_state.json", "raw.log"}

\* A state that says passed was earned, and whoever exits with 0 has written it and
\* all the rest.
EarnedInv ==
    /\ pc \in {"external", "operator"} => reports[8] = "passed"
    /\ pc = "operator" => reports[9] = "passed"
    /\ outcome.state = "passed" =>
         /\ pc \in Late
         /\ outcome.full /\ ~outcome.vendor
         /\ Body(phase) \subseteq written
         /\ phase <= 7 => contract = "passed"
         /\ phase = 7 => {i \in DOMAIN proposals : proposals[i].complete} = {1}
         /\ \A n \in 8 .. phase : reports[n] = "passed"
         /\ pc \in {"summary", "raw", "print"} => "final_state.json" \in written
         /\ pc \in {"raw", "print"} => "summary.md" \in written
         /\ pc = "print" => "raw.log" \in written
    /\ exit = "0" => {"summary.md", "final_state.json", "raw.log"} \subseteq written

IInv == TypedInv /\ EndInv /\ FilesInv /\ AuditInv /\ EarnedInv

-----------------------------------------------------------------------------
(* Every bad fixture is refused by its own gate.                           *)

\* A guard that did not pass is among the refused ones of the answer.
LEMMA DecideRefuses ==
  ASSUME NEW r, NEW d \in BOOLEAN, NEW g \in DOMAIN Guards(r, d), ~Guards(r, d)[g]
  PROVE  g \in Decide(r, d).refused
<1>1. g \in Failed(Guards(r, d))
  BY DEF Failed
<1>2. Failed(Guards(r, d)) \subseteq Decide(r, d).refused
  BY DEF Decide, DryRunDecision, DisabledLiveDecision
<1> QED BY <1>1, <1>2

\* An answer names the fixture it is about.
LEMMA DecideNames ==
  ASSUME NEW r, NEW d \in BOOLEAN
  PROVE  Decide(r, d).scenario = r.scenario
BY DEF Decide, DryRunDecision, DisabledLiveDecision

\* The names of the fixtures of phase 6.
LEMMA RequestScenarios ==
    /\ Requests[1].scenario = "valid_dry_run_request"
    /\ Requests[2].scenario = "invalid_live_control_request"
    /\ Requests[3].scenario = "invalid_missing_provenance"
    /\ Requests[4].scenario = "invalid_packet_hash_chain"
    /\ Requests[5].scenario = "invalid_secret_payload"
BY RequestsAre DEF ValidRequest, BrokenPacketValidation

\* Whatever the tree was like, a bad request was refused by its own gate.
LEMMA AnswersTrip ==
  ASSUME NEW i \in 1 .. 5, NEW d \in BOOLEAN, NEW a, a = Decide(Requests[i], d)
  PROVE  a.scenario = "valid_dry_run_request" \/ Tripped[a.scenario] \in a.refused
<1>1. a.scenario = Requests[i].scenario
  BY DecideNames
<1>2. CASE i = 1
  BY <1>1, <1>2, RequestScenarios
<1>3. CASE i = 2
  <2>1. "no_tau2_control_flow" \in a.refused
    BY <1>3, DecideRefuses, Trips, GuardNames
  <2> QED BY <1>1, <1>3, <2>1, RequestScenarios DEF Tripped
<1>4. CASE i = 3
  <2>1. "state_packet_provenance" \in a.refused
    BY <1>4, DecideRefuses, Trips, GuardNames
  <2> QED BY <1>1, <1>4, <2>1, RequestScenarios DEF Tripped
<1>5. CASE i = 4
  <2>1. "state_packet_hash_chain_valid" \in a.refused
    BY <1>5, DecideRefuses, Trips, GuardNames
  <2> QED BY <1>1, <1>5, <2>1, RequestScenarios DEF Tripped
<1>6. CASE i = 5
  <2>1. "no_api_keys_or_secrets" \in a.refused
    BY <1>6, DecideRefuses, Trips, GuardNames
  <2> QED BY <1>1, <1>6, <2>1, RequestScenarios DEF Tripped
<1> QED BY <1>2, <1>3, <1>4, <1>5, <1>6

\* Whatever the tree was like, an incomplete proposal was blocked by its own gate.
LEMMA ScoresTrip ==
  ASSUME NEW i \in 1 .. 9, NEW d \in BOOLEAN, NEW s, s = ReadinessDecision(Proposals[i], d)
  PROVE  \/ s.scenario = "complete_but_disabled_proposal"
         \/ TrippedProposal[s.scenario] \in s.blockers
<1> DEFINE p == Proposals[i]
<1>1. s.scenario = p.scenario
  BY DEF ReadinessDecision
<1>2. CASE i = 1
  BY <1>1, <1>2, ProposalsAre DEF BaseProposal
<1>3. CASE i = 2
  <2>0. ~ReadinessGates(p, d)["operator_authorization"]["operator_acknowledgement_present"]
    <3>1. p.operator_acknowledged = FALSE
      BY <1>3, ProposalsAre
    <3> QED BY <3>1, GatesAre
  <2>1. <<"operator_authorization", "operator_acknowledgement_present">> \in s.blockers
    BY <2>0, Blocks, GatesNamed
  <2> QED BY <1>1, <1>3, <2>1, ProposalsAre DEF TrippedProposal
<1>4. CASE i = 3
  <2>1. <<"credential_secret_policy", "credential_references_are_handles">> \in s.blockers
    BY <1>4, Blocks, GatesAre, GatesNamed, ProposalsAre
  <2> QED BY <1>1, <1>4, <2>1, ProposalsAre DEF TrippedProposal
<1>5. CASE i = 4
  <2>1. <<"tau2_lifecycle_ownership", "no_ambiguous_control_ownership">> \in s.blockers
    BY <1>5, Blocks, GatesAre, GatesNamed, ProposalsAre
  <2> QED BY <1>1, <1>5, <2>1, ProposalsAre DEF TrippedProposal
<1>6. CASE i = 5
  <2>0. ~ReadinessGates(p, d)["rollback_recovery"]["rollback_plan_present"]
    <3>1. p.rollback_plan_present = FALSE
      BY <1>6, ProposalsAre
    <3> QED BY <3>1, GatesAre
  <2>1. <<"rollback_recovery", "rollback_plan_present">> \in s.blockers
    BY <2>0, Blocks, GatesNamed
  <2> QED BY <1>1, <1>6, <2>1, ProposalsAre DEF TrippedProposal
<1>7. CASE i = 6
  <2>0. ~ReadinessGates(p, d)["audit_logging"]["immutable_decision_log_present"]
    <3>1. p.immutable_decision_log_present = FALSE
      BY <1>7, ProposalsAre
    <3> QED BY <3>1, GatesAre
  <2>1. <<"audit_logging", "immutable_decision_log_present">> \in s.blockers
    BY <2>0, Blocks, GatesNamed
  <2> QED BY <1>1, <1>7, <2>1, ProposalsAre DEF TrippedProposal
<1>8. CASE i = 7
  <2>1. <<"sandbox_isolation", "vendor_tau2_bench_unchanged">> \in s.blockers
    BY <1>8, Blocks, GatesAre, GatesNamed, ProposalsAre
  <2> QED BY <1>1, <1>8, <2>1, ProposalsAre DEF TrippedProposal
<1>9. CASE i = 8
  <2>1. <<"packet_chain", "state_packet_chain_valid">> \in s.blockers
    BY <1>9, Blocks, GatesAre, GatesNamed, ProposalsAre
  <2> QED BY <1>1, <1>9, <2>1, ProposalsAre DEF TrippedProposal
<1>10. CASE i = 9
  <2>1. <<"phase7_disabled_by_construction", "model_api_call_not_requested">> \in s.blockers
    BY <1>10, Blocks, GatesAre, GatesNamed, ProposalsAre
  <2> QED BY <1>1, <1>10, <2>1, ProposalsAre DEF TrippedProposal
<1> QED BY <1>2, <1>3, <1>4, <1>5, <1>6, <1>7, <1>8, <1>9, <1>10

-----------------------------------------------------------------------------
(* The steps keep what is known of the end and of the files.               *)

\* The files of the stages are all listed by the last phase.
LEMMA FilesAreListed ==
  /\ Fixture \subseteq Listed(10) /\ Plans \subseteq Listed(10)
  /\ ContractFiles \subseteq Listed(10) /\ OptInFiles \subseteq Listed(10)
  /\ AuditFiles \subseteq Listed(10) /\ ExternalFiles \subseteq Listed(10)
  /\ OperatorFiles \subseteq Listed(10)
  /\ {"summary.md", "final_state.json", "raw.log"} \subseteq Listed(10)
<1>1. Fixture \subseteq RequiredArtifacts /\ Plans \subseteq RequiredArtifacts
  BY DEF Fixture, Plans, RequiredArtifacts
<1> QED BY <1>1 DEF Listed

\* The short final state of a run whose inputs are missing.
Missing == [state |-> "inputs_missing", full |-> FALSE, vendor |-> FALSE]

\* Where a run goes from the proposals.
LEMMA WriteOptInGoes ==
  ASSUME WriteOptIn
  PROVE  /\ pc = "proposals" /\ written' = written \cup OptInFiles
         /\ Len(proposals) = Len(Proposals)
         /\ \/ UNCHANGED outcome /\ pc' = "opt in" /\ phase = 7
            \/ UNCHANGED outcome /\ pc' = "audit" /\ phase # 7
            \/ pc' = "final" /\ outcome' = Missing /\ outcome'.state = "inputs_missing"
         /\ UNCHANGED <<environment, tree, evidence, final, said, exit>>
<1>1. CASE Phase7Artifacts \subseteq written' \/ phase = 7
  BY <1>1 DEF WriteOptIn, Goto
<1>2. CASE ~(Phase7Artifacts \subseteq written' \/ phase = 7)
  BY <1>2 DEF WriteOptIn, Refuse, Goto, Missing
<1> QED BY <1>1, <1>2

\* Every step keeps what is known of the end of a run.
LEMMA EndStep ==
  ASSUME TypedInv, EndInv, [Next]_vars
  PROVE  EndInv'
<1> USE DEF environment, tree, evidence, end, Goto
<1>1. CASE Emit
  BY <1>1 DEF Emit, RefuseFixture, Refuse, EndInv, TypedInv, TypeOK, States, NoState
<1>2. CASE Plan
  BY <1>2 DEF Plan, RefuseFixture, Refuse, EndInv, TypedInv, TypeOK, States, NoState
<1>3. CASE DecideRequest
  BY <1>3 DEF DecideRequest, AsksGit, EndInv, TypedInv, TypeOK, States, NoState
<1>4. CASE ReportContract
  BY <1>4 DEF ReportContract, AsksGit, Decided, EndInv, TypedInv, TypeOK, States, NoState,
       ContractReport
<1>5. CASE Propose
  BY <1>5 DEF Propose, AsksGit, EndInv, TypedInv, TypeOK, States, NoState
<1>6. CASE WriteOptIn
  <2>1. pc = "proposals" /\ UNCHANGED <<final, said, exit>>
    BY <1>6 DEF WriteOptIn
  <2>2. \/ pc' \in {"opt in", "audit"}
        \/ pc' = "final" /\ outcome'.state = "inputs_missing"
    BY <1>6, WriteOptInGoes
  <2> HIDE DEF evidence, environment, tree, end, Goto
  <2> QED BY <2>1, <2>2 DEF EndInv, States
<1>7. CASE DecideOptIn
  BY <1>7 DEF DecideOptIn, AsksGit, Decided, EndInv, TypedInv, TypeOK, States, NoState,
       OptInState
<1>8. CASE Audit
  BY <1>8 DEF Audit, AsksGit, Decided, Refuse, EndInv, TypedInv, TypeOK, States, NoState
<1>9. CASE External
  BY <1>9 DEF External, EndInv, TypedInv, TypeOK, States, NoState, ExternalReport
<1>10. CASE Operator
  BY <1>10 DEF Operator, EndInv, TypedInv, TypeOK, States, NoState, OperatorReport
<1>11. CASE WriteFinal
  BY <1>11 DEF WriteFinal, EndInv, TypedInv, TypeOK, States, NoState
<1>12. CASE WriteSummary
  BY <1>12 DEF WriteSummary, EndInv, TypedInv, TypeOK, States, NoState
<1>13. CASE WriteRaw
  BY <1>13 DEF WriteRaw, EndInv, TypedInv, TypeOK, States, NoState
<1>14. CASE PrintAndReturn
  BY <1>14 DEF PrintAndReturn, EndInv, TypedInv, TypeOK, States, NoState
<1>15. CASE Raise
  BY <1>15 DEF Raise, EndInv, TypedInv, TypeOK, States, NoState
<1>16. CASE Kill
  BY <1>16 DEF Kill, EndInv, TypedInv, TypeOK, States, NoState
<1>17. CASE Flip
  BY <1>17 DEF Flip, EndInv, TypedInv, TypeOK, States, NoState
<1>18. CASE Terminating
  BY <1>18 DEF Terminating, vars, EndInv, TypedInv, TypeOK, States, NoState
<1>19. CASE UNCHANGED vars
  BY <1>19 DEF vars, EndInv, TypedInv, TypeOK, States, NoState
<1> QED BY <1>1, <1>2, <1>3, <1>4, <1>5, <1>6, <1>7, <1>8, <1>9, <1>10, <1>11, <1>12, <1>13,
       <1>14, <1>15, <1>16, <1>17, <1>18, <1>19 DEF Next, Step

\* Every step keeps what is known of the files.
LEMMA FilesStep ==
  ASSUME TypedInv, FilesInv, [Next]_vars
  PROVE  FilesInv'
<1> USE DEF environment, tree, evidence, end, Goto
<1>1. CASE Emit
  BY <1>1 DEF Emit, RefuseFixture, Refuse, FilesInv, TypedInv, TypeOK
<1>2. CASE Plan
  <2>1. /\ pc = "plan" /\ UNCHANGED phase /\ written' = written \cup Plans
        /\ pc' \in {"final", "requests"}
    BY <1>2 DEF Plan, RefuseFixture, Refuse
  <2>2. RequiredArtifacts \subseteq written'
    BY <2>1 DEF FilesInv, Plans
  <2> HIDE DEF evidence, environment, tree, end, Goto
  <2> QED BY <2>1, <2>2 DEF FilesInv
<1>3. CASE DecideRequest
  BY <1>3 DEF DecideRequest, AsksGit, FilesInv, TypedInv, TypeOK
<1>4. CASE ReportContract
  <2>1. /\ pc = "requests" /\ UNCHANGED phase /\ written' = written \cup ContractFiles
        /\ \/ pc' = "final"
           \/ pc' = "proposals" /\ phase # 6
    BY <1>4 DEF ReportContract, AsksGit, Decided
  <2>2. ContractFiles \subseteq written' /\ \A S : S \subseteq written => S \subseteq written'
    BY <2>1
  <2> HIDE DEF evidence, environment, tree, end, Goto
  <2>3. CASE pc' = "final"
    BY <2>1, <2>2, <2>3 DEF FilesInv, TypedInv, TypeOK
  <2>4. CASE pc' = "proposals" /\ phase # 6
    BY <2>1, <2>2, <2>4 DEF FilesInv, TypedInv, TypeOK
  <2> QED BY <2>1, <2>3, <2>4
<1>5. CASE Propose
  BY <1>5 DEF Propose, AsksGit, FilesInv, TypedInv, TypeOK
<1>6. CASE WriteOptIn
  <2>1. /\ pc = "proposals" /\ UNCHANGED phase /\ written' = written \cup OptInFiles
        /\ \/ pc' = "final"
           \/ pc' = "opt in" /\ phase = 7
           \/ pc' = "audit" /\ phase # 7
    BY <1>6, WriteOptInGoes
  <2>2. OptInFiles \subseteq written' /\ \A S : S \subseteq written => S \subseteq written'
    BY <2>1
  <2> HIDE DEF evidence, environment, tree, end, Goto
  <2>3. CASE pc' = "final"
    BY <2>1, <2>2, <2>3 DEF FilesInv, TypedInv, TypeOK
  <2>4. CASE pc' = "opt in" /\ phase = 7
    BY <2>1, <2>2, <2>4 DEF FilesInv, TypedInv, TypeOK
  <2>5. CASE pc' = "audit" /\ phase # 7
    BY <2>1, <2>2, <2>5 DEF FilesInv, TypedInv, TypeOK
  <2> QED BY <2>1, <2>3, <2>4, <2>5
<1>7. CASE DecideOptIn
  BY <1>7 DEF DecideOptIn, AsksGit, Decided, FilesInv, TypedInv, TypeOK
<1>8. CASE Audit
  <2>1. /\ pc = "audit" /\ UNCHANGED phase /\ written' = written \cup AuditFiles
        /\ \/ pc' = "final"
           \/ pc' = "external" /\ phase # 8
    BY <1>8 DEF Audit, AsksGit, Decided, Refuse
  <2>2. AuditFiles \subseteq written' /\ \A S : S \subseteq written => S \subseteq written'
    BY <2>1
  <2> HIDE DEF evidence, environment, tree, end, Goto
  <2>3. CASE pc' = "final"
    BY <2>1, <2>2, <2>3 DEF FilesInv, TypedInv, TypeOK
  <2>4. CASE pc' = "external" /\ phase # 8
    BY <2>1, <2>2, <2>4 DEF FilesInv, TypedInv, TypeOK
  <2> QED BY <2>1, <2>3, <2>4
<1>9. CASE External
  <2>1. /\ pc = "external" /\ UNCHANGED phase /\ written' = written \cup ExternalFiles
        /\ \/ pc' = "final"
           \/ pc' = "operator" /\ phase # 9
    BY <1>9 DEF External
  <2>2. ExternalFiles \subseteq written' /\ \A S : S \subseteq written => S \subseteq written'
    BY <2>1
  <2> HIDE DEF evidence, environment, tree, end, Goto
  <2>3. CASE pc' = "final"
    BY <2>1, <2>2, <2>3 DEF FilesInv, TypedInv, TypeOK
  <2>4. CASE pc' = "operator" /\ phase # 9
    BY <2>1, <2>2, <2>4 DEF FilesInv, TypedInv, TypeOK
  <2> QED BY <2>1, <2>3, <2>4
<1>10. CASE Operator
  BY <1>10 DEF Operator, FilesInv, TypedInv, TypeOK
<1>11. CASE WriteFinal
  BY <1>11 DEF WriteFinal, FilesInv, TypedInv, TypeOK
<1>12. CASE WriteSummary
  BY <1>12 DEF WriteSummary, FilesInv, TypedInv, TypeOK
<1>13. CASE WriteRaw
  BY <1>13 DEF WriteRaw, FilesInv, TypedInv, TypeOK
<1>14. CASE PrintAndReturn
  BY <1>14 DEF PrintAndReturn, FilesInv, TypedInv, TypeOK
<1>15. CASE Raise
  BY <1>15 DEF Raise, FilesInv, TypedInv, TypeOK
<1>16. CASE Kill
  BY <1>16 DEF Kill, FilesInv, TypedInv, TypeOK
<1>17. CASE Flip
  BY <1>17 DEF Flip, FilesInv, TypedInv, TypeOK
<1>18. CASE Terminating
  BY <1>18 DEF Terminating, vars, FilesInv, TypedInv, TypeOK
<1>19. CASE UNCHANGED vars
  BY <1>19 DEF vars, FilesInv, TypedInv, TypeOK
<1> QED BY <1>1, <1>2, <1>3, <1>4, <1>5, <1>6, <1>7, <1>8, <1>9, <1>10, <1>11, <1>12, <1>13,
       <1>14, <1>15, <1>16, <1>17, <1>18, <1>19 DEF Next, Step

-----------------------------------------------------------------------------
(* The steps keep the types.                                               *)

\* The next answer is one to the next request.
LEMMA DecideNext ==
  ASSUME AnsweredInOrder, Len(decisions) < 5, dirty \in BOOLEAN,
         decisions' = Append(decisions, Decide(Requests[Len(decisions) + 1], dirty)),
         UNCHANGED proposals
  PROVE  AnsweredInOrder' /\ Len(decisions') = Len(decisions) + 1
<1> DEFINE n == Len(decisions) + 1
           x == Decide(Requests[n], dirty)
<1>1. n \in 1 .. 5 /\ x \in Answers(n)
  <2>1. n \in 1 .. 5
    BY DEF AnsweredInOrder
  <2>2. dirty = TRUE \/ dirty = FALSE
    OBVIOUS
  <2> HIDE DEF n
  <2>3. x \in Answers(n)
    BY <2>2, Zenon DEF Answers
  <2> QED BY <2>1, <2>3
<1>2. x \in AllAnswers
  BY <1>1 DEF AllAnswers
<1> HIDE DEF x
<1>3. /\ decisions' \in Seq(AllAnswers) /\ Len(decisions') = n
      /\ \A i \in 1 .. Len(decisions) : decisions'[i] = decisions[i]
      /\ decisions'[n] = x
  BY <1>2 DEF AnsweredInOrder, x
<1>4. \A i \in 1 .. Len(decisions') : decisions'[i] \in Answers(i)
  BY <1>1, <1>3 DEF AnsweredInOrder
<1> QED BY <1>1, <1>3, <1>4 DEF AnsweredInOrder

\* The next score is one of the next proposal.
LEMMA ProposeNext ==
  ASSUME AnsweredInOrder, Len(proposals) < 9, dirty \in BOOLEAN,
         proposals' = Append(proposals, ReadinessDecision(Proposals[Len(proposals) + 1], dirty)),
         UNCHANGED decisions
  PROVE  AnsweredInOrder' /\ Len(proposals') = Len(proposals) + 1
<1> DEFINE n == Len(proposals) + 1
           x == ReadinessDecision(Proposals[n], dirty)
<1>1. n \in 1 .. 9 /\ x \in Scores(n)
  <2>1. n \in 1 .. 9
    BY DEF AnsweredInOrder
  <2>2. dirty = TRUE \/ dirty = FALSE
    OBVIOUS
  <2> HIDE DEF n
  <2>3. x \in Scores(n)
    BY <2>2, Zenon DEF Scores
  <2> QED BY <2>1, <2>3
<1>2. x \in AllScores
  BY <1>1 DEF AllScores
<1> HIDE DEF x
<1>3. /\ proposals' \in Seq(AllScores) /\ Len(proposals') = n
      /\ \A i \in 1 .. Len(proposals) : proposals'[i] = proposals[i]
      /\ proposals'[n] = x
  BY <1>2 DEF AnsweredInOrder, x
<1>4. \A i \in 1 .. Len(proposals') : proposals'[i] \in Scores(i)
  BY <1>1, <1>3 DEF AnsweredInOrder
<1> QED BY <1>1, <1>3, <1>4 DEF AnsweredInOrder

\* Both files of decisions are left alone.
LEMMA SameAnswers ==
  ASSUME AnsweredInOrder, UNCHANGED <<decisions, proposals>>
  PROVE  AnsweredInOrder'
BY DEF AnsweredInOrder

\* Every step keeps the decisions in the order of their fixtures.
LEMMA AnsweredStep ==
  ASSUME TypedInv, [Next]_vars
  PROVE  AnsweredInOrder'
<1> USE DEF environment, tree, evidence, end, Goto
<1>1. CASE Emit
  BY <1>1, SameAnswers DEF Emit, RefuseFixture, Refuse, TypedInv
<1>2. CASE Plan
  BY <1>2, SameAnswers DEF Plan, RefuseFixture, Refuse, TypedInv
<1>3. CASE DecideRequest
  BY <1>3, DecideNext, RequestsAre DEF DecideRequest, TypedInv, TypeOK
<1>4. CASE ReportContract
  BY <1>4, SameAnswers DEF ReportContract, AsksGit, Decided, TypedInv
<1>5. CASE Propose
  BY <1>5, ProposeNext, ProposalsAre DEF Propose, TypedInv, TypeOK
<1>6. CASE WriteOptIn
  BY <1>6, SameAnswers DEF WriteOptIn, Refuse, TypedInv
<1>7. CASE DecideOptIn
  BY <1>7, SameAnswers DEF DecideOptIn, AsksGit, Decided, TypedInv
<1>8. CASE Audit
  BY <1>8, SameAnswers DEF Audit, AsksGit, Decided, Refuse, TypedInv
<1>9. CASE External
  BY <1>9, SameAnswers DEF External, TypedInv
<1>10. CASE Operator
  BY <1>10, SameAnswers DEF Operator, TypedInv
<1>11. CASE WriteFinal
  BY <1>11, SameAnswers DEF WriteFinal, TypedInv
<1>12. CASE WriteSummary
  BY <1>12, SameAnswers DEF WriteSummary, TypedInv
<1>13. CASE WriteRaw
  BY <1>13, SameAnswers DEF WriteRaw, TypedInv
<1>14. CASE PrintAndReturn
  BY <1>14, SameAnswers DEF PrintAndReturn, TypedInv
<1>15. CASE Raise
  BY <1>15, SameAnswers DEF Raise, TypedInv
<1>16. CASE Kill
  BY <1>16, SameAnswers DEF Kill, TypedInv
<1>17. CASE Flip
  BY <1>17, SameAnswers DEF Flip, TypedInv
<1>18. CASE Terminating
  BY <1>18, SameAnswers DEF Terminating, vars, TypedInv
<1>19. CASE UNCHANGED vars
  BY <1>19, SameAnswers DEF vars, TypedInv
<1> QED BY <1>1, <1>2, <1>3, <1>4, <1>5, <1>6, <1>7, <1>8, <1>9, <1>10, <1>11, <1>12, <1>13,
       <1>14, <1>15, <1>16, <1>17, <1>18, <1>19 DEF Next, Step

\* No step writes a file that no phase lists.
LEMMA WrittenStep ==
  ASSUME TypedInv, [Next]_vars
  PROVE  written' \subseteq Listed(10)
<1> USE DEF environment, tree, evidence, end, Goto
<1>1. CASE Emit
  BY <1>1, FilesAreListed DEF Emit, RefuseFixture, Refuse, TypedInv, TypeOK
<1>2. CASE Plan
  BY <1>2, FilesAreListed DEF Plan, RefuseFixture, Refuse, TypedInv, TypeOK
<1>3. CASE DecideRequest
  BY <1>3, FilesAreListed DEF DecideRequest, AsksGit, TypedInv, TypeOK
<1>4. CASE ReportContract
  BY <1>4, FilesAreListed DEF ReportContract, AsksGit, Decided, TypedInv, TypeOK
<1>5. CASE Propose
  BY <1>5, FilesAreListed DEF Propose, AsksGit, TypedInv, TypeOK
<1>6. CASE WriteOptIn
  BY <1>6, FilesAreListed DEF WriteOptIn, Refuse, TypedInv, TypeOK
<1>7. CASE DecideOptIn
  BY <1>7, FilesAreListed DEF DecideOptIn, AsksGit, Decided, TypedInv, TypeOK
<1>8. CASE Audit
  BY <1>8, FilesAreListed DEF Audit, AsksGit, Decided, Refuse, TypedInv, TypeOK
<1>9. CASE External
  BY <1>9, FilesAreListed DEF External, TypedInv, TypeOK
<1>10. CASE Operator
  BY <1>10, FilesAreListed DEF Operator, TypedInv, TypeOK
<1>11. CASE WriteFinal
  BY <1>11, FilesAreListed DEF WriteFinal, TypedInv, TypeOK
<1>12. CASE WriteSummary
  BY <1>12, FilesAreListed DEF WriteSummary, TypedInv, TypeOK
<1>13. CASE WriteRaw
  BY <1>13, FilesAreListed DEF WriteRaw, TypedInv, TypeOK
<1>14. CASE PrintAndReturn
  BY <1>14, FilesAreListed DEF PrintAndReturn, TypedInv, TypeOK
<1>15. CASE Raise
  BY <1>15, FilesAreListed DEF Raise, TypedInv, TypeOK
<1>16. CASE Kill
  BY <1>16, FilesAreListed DEF Kill, TypedInv, TypeOK
<1>17. CASE Flip
  BY <1>17, FilesAreListed DEF Flip, TypedInv, TypeOK
<1>18. CASE Terminating
  BY <1>18, FilesAreListed DEF Terminating, vars, TypedInv, TypeOK
<1>19. CASE UNCHANGED vars
  BY <1>19, FilesAreListed DEF vars, TypedInv, TypeOK
<1> QED BY <1>1, <1>2, <1>3, <1>4, <1>5, <1>6, <1>7, <1>8, <1>9, <1>10, <1>11, <1>12, <1>13,
       <1>14, <1>15, <1>16, <1>17, <1>18, <1>19 DEF Next, Step

\* The parts of the type invariant that are about single values.
Values ==
    /\ phase \in 6 .. 10
    /\ upstream \in BOOLEAN /\ sound \in BOOLEAN /\ git \in BOOLEAN
    /\ dirty \in BOOLEAN /\ flips \in 0 .. MaxFlips
    /\ pc \in {"emit", "plan", "requests", "proposals", "opt in", "audit", "external",
               "operator", "final", "summary", "raw", "print", "done"}
    /\ contract \in {Nothing, "passed", "failed"}
    /\ exit \in {"running", "0", "1", "killed"}

Reported == reports \in [8 .. 10 -> {Nothing, "passed", "failed"}]

Told ==
    /\ outcome \in EndStates /\ final \in EndStates
    /\ said \in States \cup {Nothing, "error"}

\* A sequence of at most n elements has a length from 0 to n.
LEMMA LengthIn ==
  ASSUME NEW S, NEW s \in Seq(S), NEW n \in Nat, Len(s) <= n
  PROVE  Len(s) \in 0 .. n
OBVIOUS

\* The type invariant is made of these parts.
LEMMA TypedParts ==
  TypedInv <=> /\ Values /\ Reported /\ Told /\ AnsweredInOrder
               /\ written \subseteq Listed(10)
<1>1. AnsweredInOrder => Len(decisions) \in 0 .. 5 /\ Len(proposals) \in 0 .. 9
  BY LengthIn DEF AnsweredInOrder
<1> QED BY <1>1 DEF TypedInv, TypeOK, Values, Reported, Told

\* The final states that the code writes are final states.
LEMMA EndStateIs ==
  ASSUME NEW state \in States, NEW full \in BOOLEAN, NEW vendor \in BOOLEAN,
         outcome' = [state |-> state, full |-> full, vendor |-> vendor],
         UNCHANGED <<final, said>>, Told
  PROVE  Told'
BY DEF Told, EndStates

\* Every step keeps the single values in their ranges.
LEMMA ValuesStep ==
  ASSUME Values, [Next]_vars
  PROVE  Values'
<1> USE DEF environment, tree, evidence, end, Goto
<1>1. CASE Emit
  BY <1>1, MaxFlipsAssumption DEF Emit, RefuseFixture, Refuse, Values, ContractReport
<1>2. CASE Plan
  BY <1>2, MaxFlipsAssumption DEF Plan, RefuseFixture, Refuse, Values, ContractReport
<1>3. CASE DecideRequest
  BY <1>3, MaxFlipsAssumption DEF DecideRequest, AsksGit, Values, ContractReport
<1>4. CASE ReportContract
  BY <1>4, MaxFlipsAssumption DEF ReportContract, AsksGit, Decided, Values, ContractReport
<1>5. CASE Propose
  BY <1>5, MaxFlipsAssumption DEF Propose, AsksGit, Values, ContractReport
<1>6. CASE WriteOptIn
  BY <1>6, WriteOptInGoes DEF Values
<1>7. CASE DecideOptIn
  BY <1>7, MaxFlipsAssumption DEF DecideOptIn, AsksGit, Decided, Values, ContractReport
<1>8. CASE Audit
  BY <1>8, MaxFlipsAssumption DEF Audit, AsksGit, Decided, Refuse, Values, ContractReport
<1>9. CASE External
  BY <1>9, MaxFlipsAssumption DEF External, Values, ContractReport
<1>10. CASE Operator
  BY <1>10, MaxFlipsAssumption DEF Operator, Values, ContractReport
<1>11. CASE WriteFinal
  BY <1>11, MaxFlipsAssumption DEF WriteFinal, Values, ContractReport
<1>12. CASE WriteSummary
  BY <1>12, MaxFlipsAssumption DEF WriteSummary, Values, ContractReport
<1>13. CASE WriteRaw
  BY <1>13, MaxFlipsAssumption DEF WriteRaw, Values, ContractReport
<1>14. CASE PrintAndReturn
  BY <1>14, MaxFlipsAssumption DEF PrintAndReturn, Values, ContractReport
<1>15. CASE Raise
  BY <1>15, MaxFlipsAssumption DEF Raise, Values, ContractReport
<1>16. CASE Kill
  BY <1>16, MaxFlipsAssumption DEF Kill, Values, ContractReport
<1>17. CASE Flip
  <2>1. flips' \in 0 .. MaxFlips
    <3>1. flips \in 0 .. MaxFlips /\ flips < MaxFlips /\ flips' = flips + 1
      BY <1>17 DEF Flip, Values
    <3> QED BY <3>1, MaxFlipsAssumption
  <2>2. dirty' \in BOOLEAN
    BY <1>17 DEF Flip
  <2> QED BY <1>17, <2>1, <2>2 DEF Flip, Values
<1>18. CASE Terminating
  BY <1>18, MaxFlipsAssumption DEF Terminating, vars, Values, ContractReport
<1>19. CASE UNCHANGED vars
  BY <1>19, MaxFlipsAssumption DEF vars, Values, ContractReport
<1> QED BY <1>1, <1>2, <1>3, <1>4, <1>5, <1>6, <1>7, <1>8, <1>9, <1>10, <1>11, <1>12, <1>13,
       <1>14, <1>15, <1>16, <1>17, <1>18, <1>19 DEF Next, Step

\* Every step keeps the reports in their range.
LEMMA ReportedStep ==
  ASSUME Reported, [Next]_vars
  PROVE  Reported'
<1> USE DEF environment, tree, evidence, end, Goto
<1>1. CASE Emit
  BY <1>1 DEF Emit, RefuseFixture, Refuse, Reported, ExternalReport, OperatorReport
<1>2. CASE Plan
  BY <1>2 DEF Plan, RefuseFixture, Refuse, Reported, ExternalReport, OperatorReport
<1>3. CASE DecideRequest
  BY <1>3 DEF DecideRequest, AsksGit, Reported, ExternalReport, OperatorReport
<1>4. CASE ReportContract
  BY <1>4 DEF ReportContract, AsksGit, Decided, Reported, ExternalReport, OperatorReport
<1>5. CASE Propose
  BY <1>5 DEF Propose, AsksGit, Reported, ExternalReport, OperatorReport
<1>6. CASE WriteOptIn
  BY <1>6, WriteOptInGoes DEF Reported
<1>7. CASE DecideOptIn
  BY <1>7 DEF DecideOptIn, AsksGit, Decided, Reported, ExternalReport, OperatorReport
<1>8. CASE Audit
  BY <1>8 DEF Audit, AsksGit, Decided, Refuse, Reported, ExternalReport, OperatorReport
<1>9. CASE External
  BY <1>9 DEF External, Reported, ExternalReport, OperatorReport
<1>10. CASE Operator
  BY <1>10 DEF Operator, Reported, ExternalReport, OperatorReport
<1>11. CASE WriteFinal
  BY <1>11 DEF WriteFinal, Reported, ExternalReport, OperatorReport
<1>12. CASE WriteSummary
  BY <1>12 DEF WriteSummary, Reported, ExternalReport, OperatorReport
<1>13. CASE WriteRaw
  BY <1>13 DEF WriteRaw, Reported, ExternalReport, OperatorReport
<1>14. CASE PrintAndReturn
  BY <1>14 DEF PrintAndReturn, Reported, ExternalReport, OperatorReport
<1>15. CASE Raise
  BY <1>15 DEF Raise, Reported, ExternalReport, OperatorReport
<1>16. CASE Kill
  BY <1>16 DEF Kill, Reported, ExternalReport, OperatorReport
<1>17. CASE Flip
  BY <1>17 DEF Flip, Reported, ExternalReport, OperatorReport
<1>18. CASE Terminating
  BY <1>18 DEF Terminating, vars, Reported, ExternalReport, OperatorReport
<1>19. CASE UNCHANGED vars
  BY <1>19 DEF vars, Reported, ExternalReport, OperatorReport
<1> QED BY <1>1, <1>2, <1>3, <1>4, <1>5, <1>6, <1>7, <1>8, <1>9, <1>10, <1>11, <1>12, <1>13,
       <1>14, <1>15, <1>16, <1>17, <1>18, <1>19 DEF Next, Step

\* Every step keeps what is told of the end in its range.
LEMMA ToldStep ==
  ASSUME TypedInv, EndInv, Told, [Next]_vars
  PROVE  Told'
<1> USE DEF environment, tree, evidence, end, Goto
<1>1. CASE Emit
  <2>1. CASE UNCHANGED outcome
    BY <1>1, <2>1 DEF Emit, Told
  <2>2. CASE ~UNCHANGED outcome
    BY <1>1, <2>2, EndStateIs DEF Emit, RefuseFixture, Refuse, States
  <2> QED BY <2>1, <2>2
<1>2. CASE Plan
  <2>1. CASE sound
    BY <1>2, <2>1 DEF Plan, Told
  <2>2. CASE ~sound
    BY <1>2, <2>2, EndStateIs DEF Plan, RefuseFixture, Refuse, States
  <2> QED BY <2>1, <2>2
<1>3. CASE DecideRequest
  BY <1>3 DEF DecideRequest, AsksGit, Told, EndInv
<1>4. CASE ReportContract
  <2>1. CASE phase # 6
    BY <1>4, <2>1 DEF ReportContract, Told
  <2>2. CASE phase = 6
    <3>1. contract' \in States /\ dirty \in BOOLEAN
      BY <1>4 DEF ReportContract, ContractReport, States, TypedInv, TypeOK
    <3> QED BY <1>4, <2>2, <3>1, EndStateIs DEF ReportContract, Decided
  <2> QED BY <2>1, <2>2
<1>5. CASE Propose
  BY <1>5 DEF Propose, AsksGit, Told, EndInv
<1>6. CASE WriteOptIn
  <2>1. CASE UNCHANGED outcome
    BY <1>6, <2>1, WriteOptInGoes DEF Told
  <2>2. CASE outcome' = Missing
    BY <1>6, <2>2, WriteOptInGoes, EndStateIs DEF Missing, States
  <2> QED BY <1>6, <2>1, <2>2, WriteOptInGoes
<1>7. CASE DecideOptIn
  <2>1. OptInState \in States /\ dirty \in BOOLEAN
    BY DEF OptInState, States, TypedInv, TypeOK
  <2> QED BY <1>7, <2>1, EndStateIs DEF DecideOptIn, Decided
<1>8. CASE Audit
  <2>1. \/ UNCHANGED outcome
        \/ \E state \in States, full \in BOOLEAN, vendor \in BOOLEAN :
             outcome' = [state |-> state, full |-> full, vendor |-> vendor]
    <3>1. CASE phase = 8
      BY <1>8, <3>1 DEF Audit, Decided, States, TypedInv, TypeOK
    <3>2. CASE phase # 8
      BY <1>8, <3>2 DEF Audit, Refuse, States
    <3> QED BY <3>1, <3>2
  <2>2. UNCHANGED <<final, said>>
    BY <1>8 DEF Audit
  <2> QED BY <2>1, <2>2, EndStateIs DEF Told
<1>9. CASE External
  <2>1. CASE phase # 9
    BY <1>9, <2>1 DEF External, Told
  <2>2. CASE phase = 9
    <3>1. reports'[9] = "passed" \/ reports'[9] = "failed"
      BY <1>9 DEF External, ExternalReport, TypedInv, TypeOK
    <3> QED BY <1>9, <2>2, <3>1, EndStateIs DEF External, States
  <2> QED BY <2>1, <2>2
<1>10. CASE Operator
  <2>1. reports'[10] = "passed" \/ reports'[10] = "failed"
    BY <1>10 DEF Operator, OperatorReport, TypedInv, TypeOK
  <2> QED BY <1>10, <2>1, EndStateIs DEF Operator, States
<1>11. CASE WriteFinal
  BY <1>11 DEF WriteFinal, Told, EndInv
<1>12. CASE WriteSummary
  BY <1>12 DEF WriteSummary, Told, EndInv
<1>13. CASE WriteRaw
  BY <1>13 DEF WriteRaw, Told, EndInv
<1>14. CASE PrintAndReturn
  BY <1>14 DEF PrintAndReturn, Told, EndInv
<1>15. CASE Raise
  BY <1>15 DEF Raise, Told, EndInv
<1>16. CASE Kill
  BY <1>16 DEF Kill, Told, EndInv
<1>17. CASE Flip
  BY <1>17 DEF Flip, Told, EndInv
<1>18. CASE Terminating
  BY <1>18 DEF Terminating, vars, Told, EndInv
<1>19. CASE UNCHANGED vars
  BY <1>19 DEF vars, Told, EndInv
<1> QED BY <1>1, <1>2, <1>3, <1>4, <1>5, <1>6, <1>7, <1>8, <1>9, <1>10, <1>11, <1>12, <1>13,
       <1>14, <1>15, <1>16, <1>17, <1>18, <1>19 DEF Next, Step

\* Every step keeps the type invariant.
LEMMA TypedStep ==
  ASSUME TypedInv, EndInv, [Next]_vars
  PROVE  TypedInv'
<1>1. Values /\ Reported /\ Told /\ AnsweredInOrder
  BY TypedParts
<1>2. /\ Values' /\ Reported' /\ Told' /\ AnsweredInOrder'
      /\ (written \subseteq Listed(10))'
  BY <1>1, ValuesStep, ReportedStep, ToldStep, AnsweredStep, WrittenStep
<1>3. Len(decisions') \in 0 .. 5 /\ Len(proposals') \in 0 .. 9
  BY <1>2, LengthIn DEF AnsweredInOrder
<1> QED BY <1>2, <1>3 DEF TypedInv, TypeOK, Values, Reported, Told

-----------------------------------------------------------------------------
(* The audit log.                                                          *)

\* What was hashed of the first n records of a log.
Hashes(log, n) == [j \in 1 .. n |-> Hashed(log[j])]

\* The records of a log of n are numbered and chained.
Sealed(log, n) ==
    /\ DOMAIN log = 1 .. n
    /\ \A i \in 1 .. n :
         /\ DOMAIN log[i] = {"id", "type", "artifact", "source", "proposal", "result",
                             "previous", "hash"}
         /\ log[i].id = i
         /\ log[i].previous = Hashes(log, i - 1)
         /\ log[i].hash = Hashes(log, i)

\* A record tells what its entry says.
Tells(record, entry) ==
    /\ record.type = entry.type /\ record.artifact = entry.artifact
    /\ record.source = entry.source /\ record.proposal = entry.proposal
    /\ record.result = entry.result

\* Records one after the other are numbered and chained, and tell their entries.
LEMMA ChainedIsSealed ==
  ASSUME NEW entries, NEW n \in Nat, DOMAIN entries = 1 .. n,
         NEW log, log = Chained(entries)
  PROVE  Sealed(log, n) /\ \A i \in 1 .. n : Tells(log[i], entries[i])
<1> DEFINE Numbered(i) ==
              [id |-> i, type |-> entries[i].type, artifact |-> entries[i].artifact,
               source |-> entries[i].source, proposal |-> entries[i].proposal,
               result |-> entries[i].result]
           Hash(k) == [i \in 1 .. k |-> Hashed(Numbered(i))]
<1>1. log = [i \in 1 .. n |->
           [id |-> i, type |-> entries[i].type, artifact |-> entries[i].artifact,
            source |-> entries[i].source, proposal |-> entries[i].proposal,
            result |-> entries[i].result, previous |-> Hash(i - 1), hash |-> Hash(i)]]
  BY Zenon DEF Chained
<1>2. DOMAIN log = 1 .. n
  BY <1>1
<1> HIDE DEF Hash
<1>3. \A i \in 1 .. n :
         /\ DOMAIN log[i] = {"id", "type", "artifact", "source", "proposal", "result",
                             "previous", "hash"}
         /\ log[i].id = i /\ log[i].previous = Hash(i - 1) /\ log[i].hash = Hash(i)
         /\ Tells(log[i], entries[i])
  BY <1>1 DEF Tells
<1>4. \A i \in 1 .. n : Hashed(log[i]) = Hashed(Numbered(i))
  BY <1>3 DEF Tells, Hashed
<1> HIDE DEF Numbered
<1>5. \A k \in 0 .. n : Hash(k) = Hashes(log, k)
  <2> SUFFICES ASSUME NEW k \in 0 .. n PROVE Hash(k) = Hashes(log, k)
    OBVIOUS
  <2>1. \A j \in 1 .. k : Hashed(log[j]) = Hashed(Numbered(j))
    BY <1>4
  <2> QED BY <2>1, Zenon DEF Hash, Hashes
<1>6. \A i \in 1 .. n : i \in 0 .. n /\ i - 1 \in 0 .. n
  OBVIOUS
<1> QED BY <1>2, <1>3, <1>5, <1>6 DEF Sealed

\* A sequence given place by place is continued with its next place.
LEMMA AppendHash ==
  ASSUME NEW f, NEW i \in Nat \ {0}
  PROVE  Append([j \in 1 .. i - 1 |-> f[j]], f[i]) = [j \in 1 .. i |-> f[j]]
OBVIOUS

\* The hash of a record is that of the records up to it.
LEMMA SealedHash ==
  ASSUME NEW log, NEW n \in Nat, Sealed(log, n), NEW i \in 1 .. n
  PROVE  AuditHash(log[i]) = log[i].hash
<1> DEFINE f == [j \in 1 .. n |-> Hashed(log[j])]
<1>1. /\ Hashes(log, i - 1) = [j \in 1 .. i - 1 |-> f[j]]
      /\ Hashes(log, i) = [j \in 1 .. i |-> f[j]]
      /\ Hashed(log[i]) = f[i]
  BY DEF Hashes
<1> HIDE DEF f
<1>2. Append(Hashes(log, i - 1), Hashed(log[i])) = Hashes(log, i)
  BY <1>1, AppendHash
<1> QED BY <1>2 DEF AuditHash, Sealed

\* Two sequences one after the other.
LEMMA Joined ==
  ASSUME NEW S, NEW s \in Seq(S), NEW t \in Seq(S)
  PROVE  /\ s \o t \in Seq(S) /\ Len(s \o t) = Len(s) + Len(t)
         /\ \A i \in 1 .. Len(s) : (s \o t)[i] = s[i]
         /\ \A i \in 1 .. Len(t) : (s \o t)[Len(s) + i] = t[i]
<1> DEFINE c == s \o t
           m == Len(s)
           n == Len(t)
<1>1. /\ c \in Seq(S) /\ Len(c) = m + n /\ m \in Nat /\ n \in Nat
      /\ \A i \in 1 .. m + n : c[i] = IF i <= m THEN s[i] ELSE t[i - m]
  BY ConcatProperties
<1> HIDE DEF c, m, n
<1>2. \A i \in 1 .. m : i \in 1 .. m + n /\ i <= m
  BY <1>1
<1>3. \A i \in 1 .. n : m + i \in 1 .. m + n /\ ~(m + i <= m) /\ (m + i) - m = i
  BY <1>1
<1>5. \A i \in 1 .. m : c[i] = s[i]
  BY <1>1, <1>2
<1>6. \A i \in 1 .. n : c[m + i] = t[i]
  BY <1>1, <1>3
<1> QED BY <1>1, <1>5, <1>6 DEF c, m, n

\* Three sequences one after the other.
LEMMA Joined3 ==
  ASSUME NEW Q, NEW p \in Seq(Q), NEW q \in Seq(Q), NEW r \in Seq(Q),
         NEW c, c = (p \o q) \o r
  PROVE  /\ c \in Seq(Q) /\ Len(c) = Len(p) + Len(q) + Len(r)
         /\ \A i \in 1 .. Len(p) : c[i] = p[i]
         /\ \A i \in 1 .. Len(q) : c[Len(p) + i] = q[i]
         /\ \A i \in 1 .. Len(r) : c[Len(p) + Len(q) + i] = r[i]
<1>1. PICK d : d = p \o q
  OBVIOUS
<1>2. /\ d \in Seq(Q) /\ Len(d) = Len(p) + Len(q)
      /\ \A i \in 1 .. Len(p) : d[i] = p[i]
      /\ \A i \in 1 .. Len(q) : d[Len(p) + i] = q[i]
  BY <1>1, Joined
<1>3. d \in Seq(Q)
  BY <1>2
<1>4. /\ c \in Seq(Q) /\ Len(c) = Len(d) + Len(r)
      /\ \A i \in 1 .. Len(d) : c[i] = d[i]
      /\ \A i \in 1 .. Len(r) : c[Len(d) + i] = r[i]
  BY <1>1, <1>3, Joined
<1>5. \A i \in 1 .. Len(p) : i \in 1 .. Len(d)
  BY <1>2
<1>6. \A i \in 1 .. Len(q) : Len(p) + i \in 1 .. Len(d)
  BY <1>2
<1> QED BY <1>2, <1>4, <1>5, <1>6

\* A function on 1 .. n is a sequence.
LEMMA IsSequence ==
  ASSUME NEW S, NEW n \in Nat, NEW s \in [1 .. n -> S]
  PROVE  s \in Seq(S) /\ Len(s) = n
OBVIOUS

\* The twenty records of phase 8.
LogTells(log, statuses, report, contracts) ==
    /\ \A i \in 1 .. 9 :
         /\ log[i].type = "proposal" /\ log[i].artifact = "live_manager_proposal.json"
         /\ log[i].source = i /\ log[i].result = "recorded_for_review_only"
         /\ log[9 + i].type = "decision"
         /\ log[9 + i].artifact = "live_opt_in_decisions.jsonl"
         /\ log[9 + i].source = i /\ log[9 + i].proposal = i
         /\ log[9 + i].result = statuses[i]
    /\ log[19].type = "readiness report"
    /\ log[19].artifact = "live_readiness_report.json" /\ log[19].result = report
    /\ log[20].type = "contract report"
    /\ log[20].artifact = "contract_report.json" /\ log[20].result = contracts

\* build_audit_records makes a chain of nine proposals, nine decisions and two reports.
LEMMA BuiltLog ==
  ASSUME NEW statuses, DOMAIN statuses = 1 .. 9, NEW report, NEW contracts,
         NEW log, log = BuildAuditRecords(9, statuses, report, contracts)
  PROVE  Sealed(log, 20) /\ LogTells(log, statuses, report, contracts)
<1> DEFINE s == [i \in 1 .. 9 |-> AuditEntry("proposal", "live_manager_proposal.json", i,
                                            "recorded_for_review_only")]
           t == [i \in 1 .. 9 |-> AuditEntry("decision", "live_opt_in_decisions.jsonl", i,
                                            statuses[i])]
           a == AuditEntry("readiness report", "live_readiness_report.json", 0, report)
           b == AuditEntry("contract report", "contract_report.json", 0, contracts)
           S == {s[i] : i \in 1 .. 9} \cup {t[i] : i \in 1 .. 9} \cup {a, b}
           c == s \o t \o <<a, b>>
<1>1. log = Chained(c)
  BY Zenon DEF BuildAuditRecords
<1>2. \A i \in 1 .. 9 :
         /\ s[i].type = "proposal" /\ s[i].artifact = "live_manager_proposal.json"
         /\ s[i].source = i /\ s[i].result = "recorded_for_review_only"
         /\ t[i].type = "decision" /\ t[i].artifact = "live_opt_in_decisions.jsonl"
         /\ t[i].source = i /\ t[i].proposal = i /\ t[i].result = statuses[i]
  BY DEF AuditEntry
<1>3. /\ a.type = "readiness report" /\ a.artifact = "live_readiness_report.json"
      /\ a.result = report
      /\ b.type = "contract report" /\ b.artifact = "contract_report.json"
      /\ b.result = contracts
  BY DEF AuditEntry
<1> HIDE DEF a, b
<1>4. s \in [1 .. 9 -> S] /\ t \in [1 .. 9 -> S] /\ a \in S /\ b \in S
  OBVIOUS
<1> HIDE DEF s, t, S
<1>5. s \in Seq(S) /\ Len(s) = 9 /\ t \in Seq(S) /\ Len(t) = 9
  BY <1>4, IsSequence
<1>6. /\ <<a, b>> \in Seq(S) /\ Len(<<a, b>>) = 2 /\ <<a, b>>[1] = a /\ <<a, b>>[2] = b
  BY <1>4
<1>7. /\ DOMAIN c = 1 .. 20 /\ \A i \in 1 .. 9 : c[i] = s[i] /\ c[9 + i] = t[i]
      /\ c[19] = a /\ c[20] = b
  <2> DEFINE e == <<a, b>>
  <2>1. c = (s \o t) \o e
    OBVIOUS
  <2>2. e \in Seq(S)
    BY <1>6
  <2>3. s \in Seq(S) /\ t \in Seq(S)
    BY <1>5
  <2> HIDE DEF c
  <2>4. Len(e) = 2 /\ e[1] = a /\ e[2] = b
    BY <1>6
  <2> HIDE DEF e
  <2>5. /\ c \in Seq(S) /\ Len(c) = Len(s) + Len(t) + Len(e)
        /\ \A i \in 1 .. Len(s) : c[i] = s[i]
        /\ \A i \in 1 .. Len(t) : c[Len(s) + i] = t[i]
        /\ \A i \in 1 .. Len(e) : c[Len(s) + Len(t) + i] = e[i]
    BY <2>1, <2>2, <2>3, Joined3
  <2>6. Len(s) = 9 /\ Len(t) = 9 /\ Len(e) = 2
    BY <1>5, <2>4
  <2>7. /\ \A i \in 1 .. 9 : c[i] = s[i] /\ c[9 + i] = t[i]
        /\ \A i \in 1 .. 2 : c[9 + 9 + i] = e[i]
        /\ DOMAIN c = 1 .. 20
    BY <2>5, <2>6
  <2>8. c[9 + 9 + 1] = e[1] /\ c[9 + 9 + 2] = e[2]
    BY <2>7
  <2> QED BY <2>4, <2>7, <2>8
<1> HIDE DEF c
<1>8. Sealed(log, 20) /\ \A i \in 1 .. 20 : Tells(log[i], c[i])
  BY <1>1, <1>7, ChainedIsSealed
<1>9. \A i \in 1 .. 9 : Tells(log[i], s[i]) /\ Tells(log[9 + i], t[i])
  BY <1>7, <1>8
<1>10. Tells(log[19], a) /\ Tells(log[20], b)
  BY <1>7, <1>8
<1> HIDE DEF c
<1>11. \A i \in 1 .. 9 :
         /\ log[i].type = "proposal" /\ log[i].artifact = "live_manager_proposal.json"
         /\ log[i].source = i /\ log[i].result = "recorded_for_review_only"
  BY <1>2, <1>9 DEF Tells
<1>12. \A i \in 1 .. 9 :
         /\ log[9 + i].type = "decision"
         /\ log[9 + i].artifact = "live_opt_in_decisions.jsonl"
         /\ log[9 + i].source = i /\ log[9 + i].proposal = i
         /\ log[9 + i].result = statuses[i]
  BY <1>2, <1>9 DEF Tells
<1>13. /\ log[19].type = "readiness report"
       /\ log[19].artifact = "live_readiness_report.json" /\ log[19].result = report
       /\ log[20].type = "contract report"
       /\ log[20].artifact = "contract_report.json" /\ log[20].result = contracts
  BY <1>3, <1>10 DEF Tells
<1>14. Sealed(log, 20)
  BY <1>8
<1> QED BY <1>11, <1>12, <1>13, <1>14 DEF LogTells

\* The places of the log.
IsProposal(r, i) ==
    /\ r.type = "proposal" /\ r.artifact = "live_manager_proposal.json"
    /\ r.source = i /\ r.result = "recorded_for_review_only"
IsDecision(r, i, status) ==
    /\ r.type = "decision" /\ r.artifact = "live_opt_in_decisions.jsonl"
    /\ r.source = i /\ r.proposal = i /\ r.result = status
IsReport(r, type, file, result) == r.type = type /\ r.artifact = file /\ r.result = result

\* What the record at each place of the log is.
LEMMA LogPlaces ==
  ASSUME NEW log, NEW statuses, NEW report, NEW contracts,
         LogTells(log, statuses, report, contracts), NEW i \in 1 .. 20
  PROVE  \/ i \in 1 .. 9 /\ IsProposal(log[i], i)
         \/ \E k \in 1 .. 9 : i = 9 + k /\ IsDecision(log[i], k, statuses[k])
         \/ i = 19 /\ IsReport(log[i], "readiness report", "live_readiness_report.json", report)
         \/ i = 20 /\ IsReport(log[i], "contract report", "contract_report.json", contracts)
<1>1. /\ \A k \in 1 .. 9 : IsProposal(log[k], k)
      /\ \A k \in 1 .. 9 : IsDecision(log[9 + k], k, statuses[k])
      /\ IsReport(log[19], "readiness report", "live_readiness_report.json", report)
      /\ IsReport(log[20], "contract report", "contract_report.json", contracts)
  BY DEF LogTells, IsProposal, IsDecision, IsReport
<1>2. CASE i \in 1 .. 9
  BY <1>1, <1>2
<1>3. CASE i \in 10 .. 18
  <2>1. i - 9 \in 1 .. 9 /\ i = 9 + (i - 9)
    BY <1>3
  <2> QED BY <1>1, <2>1
<1>4. CASE i = 19
  BY <1>1, <1>4
<1>5. CASE i = 20
  BY <1>1, <1>5
<1>6. i \in 1 .. 9 \/ i \in 10 .. 18 \/ i = 19 \/ i = 20
  OBVIOUS
<1> QED BY <1>2, <1>3, <1>4, <1>5, <1>6

-----------------------------------------------------------------------------
(* What validate_audit_records finds.                                      *)

\* What is wrong with a record is an error of the log.
LEMMA OneError ==
  ASSUME NEW log, NEW files, NEW ids, NEW i \in DOMAIN log,
         RecordErrors(log, i, files, ids, ids) # {}
  PROVE  AuditErrors(log, files, ids, ids) # {}
BY DEF AuditErrors

\* A record whose id is not its place is an error, and so is one whose hash is not
\* that of what it says.
LEMMA WrongId ==
  ASSUME NEW log, NEW files, NEW ids, NEW i \in DOMAIN log,
         log[i].id # i \/ log[i].hash # AuditHash(log[i])
  PROVE  AuditErrors(log, files, ids, ids) # {}
<1>1. RecordErrors(log, i, files, ids, ids) # {}
  <2>1. CASE log[i].id # i
    <3>1. "audit_id" \in RecordErrors(log, i, files, ids, ids)
      BY <2>1, Zenon DEF RecordErrors
    <3> QED BY <3>1
  <2>2. CASE log[i].hash # AuditHash(log[i])
    <3>1. "audit hash" \in RecordErrors(log, i, files, ids, ids)
      BY <2>2, Zenon DEF RecordErrors
    <3> QED BY <3>1
  <2> QED BY <2>1, <2>2
<1> QED BY <1>1, OneError

\* What the record at a place of the log of phase 8 is.
LEMMA PlaceIs ==
  ASSUME NEW log, NEW statuses, NEW contracts,
         LogTells(log, statuses, "live_ready_false", contracts), NEW i \in 1 .. 20
  PROVE  \/ i \in 1 .. 9 /\ IsProposal(log[i], i)
         \/ \E k \in 1 .. 9 : i = 9 + k /\ IsDecision(log[i], k, statuses[k])
         \/ IsReport(log[i], "readiness report", "live_readiness_report.json", "live_ready_false")
         \/ IsReport(log[i], "contract report", "contract_report.json", contracts)
<1> DEFINE report == "live_ready_false"
<1>1. LogTells(log, statuses, report, contracts)
  OBVIOUS
<1> HIDE DEF report
<1>2. \/ i \in 1 .. 9 /\ IsProposal(log[i], i)
      \/ \E k \in 1 .. 9 : i = 9 + k /\ IsDecision(log[i], k, statuses[k])
      \/ IsReport(log[i], "readiness report", "live_readiness_report.json", report)
      \/ IsReport(log[i], "contract report", "contract_report.json", contracts)
  BY <1>1, LogPlaces, Zenon
<1> QED BY <1>2 DEF report

\* The files the records are about.
LEMMA Artifacts ==
  ASSUME NEW log, NEW statuses, NEW contracts,
         LogTells(log, statuses, "live_ready_false", contracts), NEW i \in 1 .. 20
  PROVE  log[i].artifact \in Phase7Artifacts
<1>1. /\ "live_manager_proposal.json" \in Phase7Artifacts
      /\ "live_opt_in_decisions.jsonl" \in Phase7Artifacts
      /\ "live_readiness_report.json" \in Phase7Artifacts
      /\ "contract_report.json" \in Phase7Artifacts
  BY DEF Phase7Artifacts, OptInFiles, ContractFiles
<1>2. CASE IsProposal(log[i], i)
  BY <1>1, <1>2 DEF IsProposal
<1>3. CASE \E k \in 1 .. 9 : i = 9 + k /\ IsDecision(log[i], k, statuses[k])
  BY <1>1, <1>3 DEF IsDecision
<1>4. CASE IsReport(log[i], "readiness report", "live_readiness_report.json",
                    "live_ready_false")
  BY <1>1, <1>4 DEF IsReport
<1>5. CASE IsReport(log[i], "contract report", "contract_report.json", contracts)
  BY <1>1, <1>5 DEF IsReport
<1> QED BY <1>2, <1>3, <1>4, <1>5, PlaceIs, Zenon

\* The log that phase 8 writes validates.
LEMMA NoErrors ==
  ASSUME NEW log, Sealed(log, 20), NEW statuses, NEW contracts,
         LogTells(log, statuses, "live_ready_false", contracts),
         NEW files, Phase7Artifacts \subseteq files
  PROVE  AuditErrors(log, files, 1 .. 9, 1 .. 9) = {}
<1>1. ASSUME NEW i \in 1 .. 20
      PROVE  RecordErrors(log, i, files, 1 .. 9, 1 .. 9) = {}
  <2>1. log[i].id = i /\ log[i].hash = AuditHash(log[i])
    BY SealedHash DEF Sealed
  <2>2. log[i].previous = IF i = 1 THEN Genesis ELSE log[i - 1].hash
    <3>1. CASE i = 1
      BY <3>1 DEF Sealed, Hashes, Genesis
    <3>2. CASE i # 1
      <4>1. i - 1 \in 1 .. 20 /\ log[i].previous = Hashes(log, i - 1)
        BY <3>2 DEF Sealed
      <4> QED BY <3>2, <4>1 DEF Sealed
    <3> QED BY <3>1, <3>2
  <2>3. log[i].artifact \in files
    BY Artifacts
  <2>4. /\ log[i].type = "proposal" => log[i].source \in 1 .. 9
        /\ log[i].type = "decision" => log[i].source \in 1 .. 9 /\ log[i].proposal \in 1 .. 9
    BY PlaceIs DEF IsProposal, IsDecision, IsReport
  <2> QED BY <2>1, <2>2, <2>3, <2>4, Zenon DEF RecordErrors
<1>2. DOMAIN log = 1 .. 20
  BY DEF Sealed
<1> QED BY <1>1, <1>2 DEF AuditErrors

\* What a record of the log says came of it.
LEMMA Untampered ==
  ASSUME NEW log, NEW statuses, NEW contracts \in {"passed", "failed"},
         \A k \in 1 .. 9 : statuses[k] # "tampered",
         LogTells(log, statuses, "live_ready_false", contracts), NEW i \in 1 .. 20
  PROVE  log[i].result # "tampered"
<1>1. CASE IsProposal(log[i], i)
  BY <1>1 DEF IsProposal
<1>2. CASE \E k \in 1 .. 9 : i = 9 + k /\ IsDecision(log[i], k, statuses[k])
  BY <1>2 DEF IsDecision
<1>3. CASE IsReport(log[i], "readiness report", "live_readiness_report.json",
                    "live_ready_false")
  BY <1>3 DEF IsReport
<1>4. CASE IsReport(log[i], "contract report", "contract_report.json", contracts)
  BY <1>4 DEF IsReport
<1> QED BY <1>1, <1>2, <1>3, <1>4, PlaceIs, Zenon

\* A record with another result does not carry its own hash any more.
LEMMA OtherHash ==
  ASSUME NEW log, NEW n \in Nat, Sealed(log, n), NEW i \in 1 .. n, NEW result,
         result # log[i].result, NEW r, r = [log[i] EXCEPT !.result = result]
  PROVE  /\ r.hash # AuditHash(r) /\ r.hash = log[i].hash
         /\ DOMAIN r = DOMAIN log[i]
<1> DEFINE f == [j \in 1 .. n |-> IF j = i THEN Hashed(r) ELSE Hashed(log[j])]
<1>1. /\ r.hash = Hashes(log, i) /\ r.previous = Hashes(log, i - 1) /\ r.result = result
      /\ r.hash = log[i].hash /\ DOMAIN r = DOMAIN log[i]
  BY DEF Sealed
<1>2. Hashed(r) # Hashed(log[i])
  BY <1>1 DEF Hashed
<1>3. f[i] = Hashed(r) /\ \A j \in 1 .. i - 1 : f[j] = Hashed(log[j])
  OBVIOUS
<1> HIDE DEF f
<1>4. Hashes(log, i - 1) = [j \in 1 .. i - 1 |-> f[j]]
  BY <1>3 DEF Hashes
<1>5. AuditHash(r) = [j \in 1 .. i |-> f[j]]
  BY <1>1, <1>3, <1>4, AppendHash DEF AuditHash
<1>6. AuditHash(r)[i] = Hashed(r) /\ Hashes(log, i)[i] = Hashed(log[i])
  BY <1>3, <1>5 DEF Hashes
<1> QED BY <1>1, <1>2, <1>6

\* Nobody changes the result of a record and leaves its hash unseen.
LEMMA TamperedIsSeen ==
  ASSUME NEW log, Sealed(log, 20), NEW i \in 1 .. 20, log[i].result # "tampered",
         NEW files, NEW ids, NEW r, r = [log[i] EXCEPT !.result = "tampered"]
  PROVE  AuditErrors([log EXCEPT ![i] = r], files, ids, ids) # {}
<1> DEFINE new == [log EXCEPT ![i] = r]
<1>1. r.hash # AuditHash(r)
  BY OtherHash
<1>2. i \in DOMAIN log /\ i \in DOMAIN new
  BY DEF Sealed
<1>3. new[i] = r
  BY <1>2
<1> HIDE DEF new
<1>4. AuditErrors(new, files, ids, ids) # {}
  BY <1>1, <1>2, <1>3, WrongId
<1> QED BY <1>4 DEF new

\* Nor with the hash of this record made anew: the next one names the old hash.
LEMMA RehashedIsSeen ==
  ASSUME NEW log, Sealed(log, 20), NEW i \in 1 .. 19, log[i].result # "tampered",
         NEW files, NEW ids, NEW r, r = [log[i] EXCEPT !.result = "tampered"],
         NEW s, s = [r EXCEPT !.hash = AuditHash(r)]
  PROVE  AuditErrors([log EXCEPT ![i] = s], files, ids, ids) # {}
<1> DEFINE new == [log EXCEPT ![i] = s]
<1>1. i \in 1 .. 20 /\ i + 1 \in 1 .. 20 /\ i + 1 # 1 /\ (i + 1) - 1 = i
  OBVIOUS
<1>2. r.hash # AuditHash(r) /\ r.hash = log[i].hash /\ DOMAIN r = DOMAIN log[i]
  BY <1>1, OtherHash
<1>3. "hash" \in DOMAIN r
  BY <1>1, <1>2 DEF Sealed
<1>4. s.hash = AuditHash(r)
  BY <1>3
<1>5. DOMAIN new = 1 .. 20 /\ new[i] = s /\ new[i + 1] = log[i + 1]
  <2>1. DOMAIN log = 1 .. 20
    BY DEF Sealed
  <2>2. DOMAIN new = 1 .. 20 /\ new[i] = s
    BY <1>1, <2>1
  <2>3. i + 1 # i
    OBVIOUS
  <2>4. new[i + 1] = log[i + 1]
    BY <1>1, <2>1, <2>3, Zenon
  <2> QED BY <2>2, <2>4
<1>6. log[i + 1].previous = log[i].hash
  BY <1>1 DEF Sealed
<1> HIDE DEF new
<1>7. new[i + 1].previous # (IF i + 1 = 1 THEN Genesis ELSE new[(i + 1) - 1].hash)
  BY <1>1, <1>2, <1>4, <1>5, <1>6
<1>8. "previous hash" \in RecordErrors(new, i + 1, files, ids, ids)
  BY <1>7, Zenon DEF RecordErrors
<1>9. i + 1 \in DOMAIN new
  BY <1>1, <1>5
<1>10. AuditErrors(new, files, ids, ids) # {}
  BY <1>8, <1>9, OneError, Zenon
<1> QED BY <1>10 DEF new

\* Nor is a record that others follow missed.
LEMMA CutIsSeen ==
  ASSUME NEW log, Sealed(log, 20), NEW i \in 1 .. 19, NEW files, NEW ids,
         NEW new, new = [j \in 1 .. 19 |-> log[IF j < i THEN j ELSE j + 1]]
  PROVE  AuditErrors(new, files, ids, ids) # {}
<1>1. i \in DOMAIN new /\ new[i] = log[i + 1] /\ i + 1 \in 1 .. 20
  OBVIOUS
<1>2. new[i].id # i
  BY <1>1 DEF Sealed
<1> QED BY <1>1, <1>2, WrongId

\* A function on 1 .. 20 can be continued.
LEMMA Continued ==
  ASSUME NEW log, log = [j \in 1 .. 20 |-> log[j]], NEW x, NEW new, new = Append(log, x)
  PROVE  21 \in DOMAIN new /\ new[21] = x
<1> DEFINE S == {log[j] : j \in 1 .. 20} \cup {x}
<1>1. log \in [1 .. 20 -> S] /\ x \in S
  OBVIOUS
<1> HIDE DEF S
<1>2. log \in Seq(S) /\ Len(log) = 20
  BY <1>1, IsSequence
<1> QED BY <1>1, <1>2

\* Nor is a record that is there twice.
LEMMA RepeatedIsSeen ==
  ASSUME NEW log, Sealed(log, 20), log = [j \in 1 .. 20 |-> log[j]], NEW i \in 1 .. 20,
         NEW files, NEW ids
  PROVE  AuditErrors(Append(log, log[i]), files, ids, ids) # {}
<1>1. PICK new : new = Append(log, log[i])
  OBVIOUS
<1>2. 21 \in DOMAIN new /\ new[21] = log[i]
  BY <1>1, Continued
<1>3. new[21].id # 21
  BY <1>2 DEF Sealed
<1>4. AuditErrors(new, files, ids, ids) # {}
  BY <1>2, <1>3, WrongId
<1> QED BY <1>1, <1>4

-----------------------------------------------------------------------------
(* The external store and the vault.                                       *)

\* The elements of a sequence of eight.
LEMMA EightElements ==
  ASSUME NEW a1, NEW a2, NEW a3, NEW a4, NEW a5, NEW a6, NEW a7, NEW a8,
         NEW s, s = <<a1, a2, a3, a4, a5, a6, a7, a8>>
  PROVE  /\ DOMAIN s = 1 .. 8
         /\ s[1] = a1 /\ s[2] = a2 /\ s[3] = a3 /\ s[4] = a4 /\ s[5] = a5
         /\ s[6] = a6 /\ s[7] = a7 /\ s[8] = a8
OBVIOUS

\* What a sequence of one element, and one of two, is.
LEMMA OneElement == ASSUME NEW a, NEW s, s = <<a>>
  PROVE  /\ Len(s) = 1 /\ DOMAIN s = 1 .. 1 /\ s[1] = a
OBVIOUS

\* The same for two.
LEMMA TwoElements == ASSUME NEW a, NEW b, NEW s, s = <<a, b>>
  PROVE  /\ Len(s) = 2 /\ DOMAIN s = 1 .. 2 /\ s[1] = a /\ s[2] = b
OBVIOUS
\* Appending to a sequence of one element.
LEMMA AppendOne == ASSUME NEW a, NEW b PROVE Append(<<a>>, b) = <<a, b>>
<1> DEFINE S == {a, b}
<1>1. <<a>> \in Seq(S) /\ <<a, b>> \in Seq(S) /\ a \in S /\ b \in S
  OBVIOUS
<1> HIDE DEF S
<1>2. PICK s : s = <<a>>
  OBVIOUS
<1>3. PICK t : t = <<a, b>>
  OBVIOUS
<1>4. s \in Seq(S) /\ Len(s) = 1 /\ s[1] = a
  BY <1>1, <1>2
<1>5. t \in Seq(S) /\ Len(t) = 2 /\ t[1] = a /\ t[2] = b
  BY <1>1, <1>3
<1>6. /\ Append(s, b) \in Seq(S) /\ Len(Append(s, b)) = 2
      /\ Append(s, b)[1] = a /\ Append(s, b)[2] = b
  <2>1. s \in Seq(S)
    BY <1>4
  <2>2. /\ Append(s, b) \in Seq(S) /\ Len(Append(s, b)) = Len(s) + 1
        /\ \A i \in 1 .. Len(s) : Append(s, b)[i] = s[i]
        /\ Append(s, b)[Len(s) + 1] = b
    BY <1>1, <2>1, AppendProperties
  <2> QED BY <1>4, <2>2
<1>7. \A i \in 1 .. Len(t) : t[i] = Append(s, b)[i]
  BY <1>5, <1>6
<1>8. t = Append(s, b)
  BY <1>5, <1>6, <1>7, SeqEqual
<1> QED BY <1>2, <1>3, <1>8

\* Nothing, one thing and two things in a row.
LEMMA Rows ==
  ASSUME NEW a, NEW b
  PROVE  /\ DOMAIN <<>> = {} /\ DOMAIN <<a>> = {1} /\ <<a>>[1] = a
         /\ DOMAIN <<a, b>> = {1, 2} /\ <<a, b>>[1] = a /\ <<a, b>>[2] = b
<1>1. DOMAIN <<>> = {}
  OBVIOUS
<1>2. DOMAIN <<a>> = 1 .. 1 /\ <<a>>[1] = a
  BY OneElement
<1>3. DOMAIN <<a, b>> = 1 .. 2 /\ <<a, b>>[1] = a /\ <<a, b>>[2] = b
  OBVIOUS
<1>4. 1 .. 1 = {1} /\ 1 .. 2 = {1, 2}
  OBVIOUS
<1> QED BY <1>1, <1>2, <1>3, <1>4, Zenon

\* Appending to nothing.
LEMMA AppendNone == ASSUME NEW a PROVE Append(<<>>, a) = <<a>>
OBVIOUS

\* A set of two elements.
LEMMA Two ==
  ASSUME NEW S, NEW a, NEW b, a # b, S = {a, b}
  PROVE  Cardinality(S) = 2
<1>1. Cardinality({a}) = 1 /\ IsFiniteSet({a})
  BY FS_Singleton
<1>2. Cardinality({a} \cup {b}) = Cardinality({a}) + 1
  BY <1>1, FS_AddElement
<1>3. S = {a} \cup {b}
  OBVIOUS
<1> QED BY <1>1, <1>2, <1>3

\* A record that names an artifact.
Linked(record) == record.artifact # ""

\* How the store answers the records of the contract.
LEMMA StoreAnswers ==
  ASSUME NEW a, NEW b,
         a.id = 1, Linked(a), a.previous = Genesis, a.hash = AuditHash(a),
         b.id = 2, Linked(b), b.previous = a.hash, b.hash = AuditHash(b)
  PROVE  /\ Answer(<<>>, a, TRUE, FALSE) = "append_only_write_accepted"
         /\ Answer(<<a>>, b, TRUE, FALSE) = "append_only_write_accepted"
         /\ Stored(<<>>, a) = <<a>> /\ Stored(<<a>>, b) = <<a, b>>
         /\ Answer(<<>>, a, FALSE, FALSE) = "store_unavailable"
         /\ Answer(<<>>, a, TRUE, TRUE) = "write_rejected"
         /\ Answer(<<a, b>>, a, TRUE, FALSE) = "duplicate_audit_id"
         /\ ReadBack(<<a>>, 1) = {a} /\ ReadBack(<<a, b>>, 2) = {b}
<1>1. LastAuditHash(<<>>) = Genesis
  BY DEF LastAuditHash
<1>2. LastAuditHash(<<a>>) = a.hash
  <2>1. <<a>> # <<>> /\ Len(<<a>>) = 1 /\ <<a>>[1] = a
    OBVIOUS
  <2> QED BY <2>1, Zenon DEF LastAuditHash
<1>3. /\ DOMAIN <<>> = {} /\ DOMAIN <<a>> = {1} /\ <<a>>[1] = a
      /\ DOMAIN <<a, b>> = {1, 2} /\ <<a, b>>[1] = a /\ <<a, b>>[2] = b
  BY Rows
<1>4. Answer(<<>>, a, TRUE, FALSE) = "append_only_write_accepted"
  BY <1>1, <1>3, Zenon DEF Answer, Linked
<1>5. Answer(<<a>>, b, TRUE, FALSE) = "append_only_write_accepted"
  <2>1. ~\E i \in DOMAIN <<a>> : <<a>>[i].id = b.id
    <3>1. \A i \in DOMAIN <<a>> : <<a>>[i] = a
      BY <1>3
    <3>2. 1 # 2
      OBVIOUS
    <3> QED BY <3>1, <3>2, Zenon
  <2> QED BY <1>2, <2>1, Zenon DEF Answer, Linked
<1>6. Answer(<<a, b>>, a, TRUE, FALSE) = "duplicate_audit_id"
  <2>1. \E i \in DOMAIN <<a, b>> : <<a, b>>[i].id = a.id
    BY <1>3
  <2> QED BY <2>1, Zenon DEF Answer, Linked
<1>7. Stored(<<>>, a) = <<a>> /\ Stored(<<a>>, b) = <<a, b>>
  <2>1. Append(<<>>, a) = <<a>>
    BY AppendNone, Zenon
  <2>2. Append(<<a>>, b) = <<a, b>>
    BY AppendOne, Zenon
  <2> QED BY <1>4, <1>5, <2>1, <2>2, Zenon DEF Stored
<1>8. ReadBack(<<a>>, 1) = {a}
  <2>1. {j \in DOMAIN <<a>> : <<a>>[j].id = 1} = {1}
    BY <1>3
  <2> QED BY <1>3, <2>1, Zenon DEF ReadBack
<1>9. ReadBack(<<a, b>>, 2) = {b}
  <2>1. {j \in DOMAIN <<a, b>> : <<a, b>>[j].id = 2} = {2}
    BY <1>3
  <2> QED BY <1>3, <2>1, Zenon DEF ReadBack
<1>10. Answer(<<>>, a, FALSE, FALSE) = "store_unavailable"
  BY Zenon DEF Answer
<1>11. Answer(<<>>, a, TRUE, TRUE) = "write_rejected"
  BY Zenon DEF Answer, Linked
<1> QED BY <1>4, <1>5, <1>6, <1>7, <1>8, <1>9, <1>10, <1>11

\* What the store says to a record whose previous hash is made up, and to one without an
\* artifact.
LEMMA StoreRefuses ==
  ASSUME NEW a, NEW b, {"previous", "artifact"} \subseteq DOMAIN b,
         "artifact" \in DOMAIN a, "result" \in DOMAIN a, a.result # "tampered_after_read", Linked(b)
  PROVE  /\ Answer(<<>>, [b EXCEPT !.previous = <<"f">>], TRUE, FALSE) = "hash_chain_mismatch"
         /\ Answer(<<>>, [a EXCEPT !.artifact = ""], TRUE, FALSE)
              = "missing_source_artifact_link"
         /\ {[r EXCEPT !.result = "tampered_after_read"] : r \in {a}} # {a}
<1> DEFINE b1 == [b EXCEPT !.previous = <<"f">>]
           a1 == [a EXCEPT !.artifact = ""]
           a2 == [a EXCEPT !.result = "tampered_after_read"]
<1>1. b1.previous = <<"f">> /\ b1.artifact = b.artifact /\ <<"f">> # Genesis
  <2>1. b1.previous = <<"f">>
    OBVIOUS
  <2>3. b1.artifact = b.artifact
    OBVIOUS
  <2>2. <<"f">> # <<>>
    OBVIOUS
  <2> QED BY <2>1, <2>2, <2>3 DEF Genesis
<1>2. a1.artifact = ""
  OBVIOUS
<1>3. a2 # a
  OBVIOUS
<1>4. {[r EXCEPT !.result = "tampered_after_read"] : r \in {a}} = {a2}
  OBVIOUS
<1> HIDE DEF a1, b1, a2
<1>5. LastAuditHash(<<>>) = Genesis /\ DOMAIN <<>> = {}
  <2>1. DOMAIN <<>> = {}
    BY Rows, Zenon
  <2> QED BY <2>1, Zenon DEF LastAuditHash
<1>6. Answer(<<>>, b1, TRUE, FALSE) = "hash_chain_mismatch"
  BY <1>1, <1>5, Zenon DEF Answer, Linked
<1>7. Answer(<<>>, a1, TRUE, FALSE) = "missing_source_artifact_link"
  BY <1>2, <1>5, Zenon DEF Answer, Linked
<1>8. {[r EXCEPT !.result = "tampered_after_read"] : r \in {a}} # {a}
  BY <1>3, <1>4
<1> QED BY <1>6, <1>7, <1>8 DEF a1, b1

\* The eight decisions of the contract on the log of phase 8.
LEMMA StoreDecides ==
  ASSUME NEW log, Sealed(log, 20), NEW statuses, NEW contracts,
         LogTells(log, statuses, "live_ready_false", contracts)
  PROVE  StoreDecisions(log) =
           <<[accepted |-> TRUE, reason |-> "append_only_write_accepted"],
             [accepted |-> TRUE, reason |-> "append_only_write_accepted"],
             [accepted |-> FALSE, reason |-> "store_unavailable"],
             [accepted |-> FALSE, reason |-> "write_rejected"],
             [accepted |-> FALSE, reason |-> "duplicate_audit_id"],
             [accepted |-> FALSE, reason |-> "read_back_mismatch"],
             [accepted |-> FALSE, reason |-> "hash_chain_mismatch"],
             [accepted |-> FALSE, reason |-> "missing_source_artifact_link"]>>
<1> DEFINE a == log[1]
           b == log[2]
<1>1. /\ a.id = 1 /\ a.artifact = "live_manager_proposal.json"
      /\ a.result = "recorded_for_review_only"
      /\ b.id = 2 /\ b.artifact = "live_manager_proposal.json"
  <2>1. 1 \in 1 .. 9 /\ 2 \in 1 .. 9 /\ 1 \in 1 .. 20 /\ 2 \in 1 .. 20
    OBVIOUS
  <2>2. a.id = 1 /\ b.id = 2
    BY <2>1 DEF Sealed
  <2>3. \A i \in 1 .. 9 : /\ log[i].artifact = "live_manager_proposal.json"
                          /\ log[i].result = "recorded_for_review_only"
    BY Zenon DEF LogTells
  <2> QED BY <2>1, <2>2, <2>3
<1>2. a.previous = Genesis /\ b.previous = a.hash
  <2>1. a.previous = Hashes(log, 1 - 1) /\ b.previous = Hashes(log, 2 - 1)
        /\ a.hash = Hashes(log, 1)
    BY DEF Sealed
  <2> QED BY <2>1 DEF Hashes, Genesis
<1>3. a.hash = AuditHash(a) /\ b.hash = AuditHash(b)
  <2>1. \A i \in 1 .. 20 : AuditHash(log[i]) = log[i].hash
    BY SealedHash
  <2> QED BY <2>1
<1>4. /\ {"previous", "artifact"} \subseteq DOMAIN b
      /\ "artifact" \in DOMAIN a /\ "result" \in DOMAIN a
  BY DEF Sealed
<1> HIDE DEF a, b
<1>5. /\ Answer(<<>>, a, TRUE, FALSE) = "append_only_write_accepted"
      /\ Answer(<<a>>, b, TRUE, FALSE) = "append_only_write_accepted"
      /\ Stored(<<>>, a) = <<a>> /\ Stored(<<a>>, b) = <<a, b>>
      /\ Answer(<<>>, a, FALSE, FALSE) = "store_unavailable"
      /\ Answer(<<>>, a, TRUE, TRUE) = "write_rejected"
      /\ Answer(<<a, b>>, a, TRUE, FALSE) = "duplicate_audit_id"
      /\ ReadBack(<<a>>, a.id) = {a} /\ ReadBack(<<a, b>>, b.id) = {b}
  <2>1. Linked(a) /\ Linked(b)
    BY <1>1, Zenon DEF Linked
  <2>2. a.id = 1 /\ b.id = 2
    BY <1>1
  <2>3. /\ Answer(<<>>, a, TRUE, FALSE) = "append_only_write_accepted"
        /\ Answer(<<a>>, b, TRUE, FALSE) = "append_only_write_accepted"
        /\ Stored(<<>>, a) = <<a>> /\ Stored(<<a>>, b) = <<a, b>>
        /\ Answer(<<>>, a, FALSE, FALSE) = "store_unavailable"
        /\ Answer(<<>>, a, TRUE, TRUE) = "write_rejected"
        /\ Answer(<<a, b>>, a, TRUE, FALSE) = "duplicate_audit_id"
        /\ ReadBack(<<a>>, 1) = {a} /\ ReadBack(<<a, b>>, 2) = {b}
    BY <1>2, <1>3, <2>1, <2>2, StoreAnswers
  <2> QED BY <2>2, <2>3, Zenon
<1>6. /\ Answer(<<>>, [b EXCEPT !.previous = <<"f">>], TRUE, FALSE) = "hash_chain_mismatch"
      /\ Answer(<<>>, [a EXCEPT !.artifact = ""], TRUE, FALSE)
           = "missing_source_artifact_link"
      /\ {[r EXCEPT !.result = "tampered_after_read"] : r \in {a}} # {a}
  <2>1. Linked(b)
    BY <1>1, Zenon DEF Linked
  <2> QED BY <1>1, <1>4, <2>1, StoreRefuses, Zenon
<1>7. StoreDecisions(log) =
        <<[accepted |-> /\ Answer(<<>>, a, TRUE, FALSE) = "append_only_write_accepted"
                        /\ ReadBack(Stored(<<>>, a), a.id) = {a},
           reason |-> Answer(<<>>, a, TRUE, FALSE)],
          [accepted |-> /\ Answer(Stored(<<>>, a), b, TRUE, FALSE)
                             = "append_only_write_accepted"
                        /\ ReadBack(Stored(Stored(<<>>, a), b), b.id) = {b},
           reason |-> Answer(Stored(<<>>, a), b, TRUE, FALSE)],
          [accepted |-> FALSE, reason |-> Answer(<<>>, a, FALSE, FALSE)],
          [accepted |-> FALSE, reason |-> Answer(<<>>, a, TRUE, TRUE)],
          [accepted |-> FALSE,
           reason |-> Answer(Stored(Stored(<<>>, a), b), a, TRUE, FALSE)],
          [accepted |-> FALSE,
           reason |-> IF {[r EXCEPT !.result = "tampered_after_read"] :
                             r \in ReadBack(Stored(<<>>, a), a.id)} # {a}
                        THEN "read_back_mismatch" ELSE "read_back_unexpectedly_matched"],
          [accepted |-> FALSE,
           reason |-> Answer(<<>>, [b EXCEPT !.previous = <<"f">>], TRUE, FALSE)],
          [accepted |-> FALSE,
           reason |-> Answer(<<>>, [a EXCEPT !.artifact = ""], TRUE, FALSE)]>>
  BY Zenon DEF StoreDecisions, a, b
<1> QED BY <1>5, <1>6, <1>7

\* The contract of phase 9 is kept by every log of phase 8.
LEMMA StoreKeepsContract ==
  ASSUME NEW log, Sealed(log, 20), NEW statuses, NEW contracts,
         LogTells(log, statuses, "live_ready_false", contracts)
  PROVE  StoreContractsOk(log, Phase7Artifacts)
<1> DEFINE D == StoreDecisions(log)
           yes == [accepted |-> TRUE, reason |-> "append_only_write_accepted"]
           no(why) == [accepted |-> FALSE, reason |-> why]
<1>1. D = <<yes, yes, no("store_unavailable"), no("write_rejected"),
            no("duplicate_audit_id"), no("read_back_mismatch"),
            no("hash_chain_mismatch"), no("missing_source_artifact_link")>>
  BY StoreDecides
<1>2. yes.accepted = TRUE /\ \A why : no(why).accepted = FALSE /\ no(why).reason = why
  OBVIOUS
<1> HIDE DEF D, yes, no
<1>3. /\ DOMAIN D = 1 .. 8 /\ D[1] = yes /\ D[2] = yes
      /\ D[3] = no("store_unavailable") /\ D[4] = no("write_rejected")
      /\ D[5] = no("duplicate_audit_id") /\ D[6] = no("read_back_mismatch")
      /\ D[7] = no("hash_chain_mismatch") /\ D[8] = no("missing_source_artifact_link")
  BY <1>1, EightElements
<1>4. {i \in DOMAIN D : D[i].accepted} = {1, 2}
  <2>1. /\ D[1].accepted = TRUE /\ D[2].accepted = TRUE /\ D[3].accepted = FALSE
        /\ D[4].accepted = FALSE /\ D[5].accepted = FALSE /\ D[6].accepted = FALSE
        /\ D[7].accepted = FALSE /\ D[8].accepted = FALSE
    BY <1>2, <1>3
  <2>2. \A i \in 1 .. 8 : i = 1 \/ i = 2 \/ i = 3 \/ i = 4 \/ i = 5 \/ i = 6 \/ i = 7 \/ i = 8
    OBVIOUS
  <2> QED BY <1>3, <2>1, <2>2
<1>5. Cardinality({i \in DOMAIN D : D[i].accepted}) = 2
  <2>1. 1 # 2
    OBVIOUS
  <2>2. Cardinality({1, 2}) = 2
    BY <2>1, Two, Zenon
  <2> QED BY <1>4, <2>2
<1>6. {j \in DOMAIN D : ~D[j].accepted} = 3 .. 8
  BY <1>3, <1>4
<1>7. Refused \cup {"read_back_mismatch"}
        \subseteq {D[i].reason : i \in {j \in DOMAIN D : ~D[j].accepted}}
  <2>1. /\ D[3].reason = "store_unavailable" /\ D[4].reason = "write_rejected"
        /\ D[5].reason = "duplicate_audit_id" /\ D[6].reason = "read_back_mismatch"
        /\ D[7].reason = "hash_chain_mismatch"
        /\ D[8].reason = "missing_source_artifact_link"
    BY <1>2, <1>3
  <2> QED BY <1>6, <2>1 DEF Refused
<1>8. \A i \in DOMAIN log : log[i].artifact \in Phase7Artifacts
  BY Artifacts DEF Sealed
<1> QED BY <1>5, <1>7, <1>8, Zenon DEF StoreContractsOk, D

\* Every pattern of vault references is classified as the contract wants it.
LEMMA VaultKeepsContract == VaultContractsOk
<1> DEFINE class == [s \in DOMAIN VaultScenarios |-> ClassifyVault(VaultScenarios[s])]
<1>1. /\ DOMAIN class = {"valid_future_vault_handle", "raw_secret_value",
            "environment_variable_lookup", "filesystem_secret_read", "wrong_scheme",
            "path_traversal_handle"}
      /\ class["valid_future_vault_handle"] = "valid_future_vault_handle"
      /\ class["raw_secret_value"] = "raw_credential_value_rejected"
      /\ class["environment_variable_lookup"] = "environment_variable_lookup_rejected"
      /\ class["filesystem_secret_read"] = "filesystem_secret_read_rejected"
      /\ class["wrong_scheme"] = "credential_reference_must_be_future_vault_handle"
      /\ class["path_traversal_handle"] = "invalid_future_vault_handle_shape"
  BY DEF VaultScenarios, ClassifyVault
<1> HIDE DEF class
<1>2. {s \in DOMAIN class : class[s] = "valid_future_vault_handle"}
        = {"valid_future_vault_handle"}
  BY <1>1
<1>3. {"raw_credential_value_rejected", "environment_variable_lookup_rejected",
       "filesystem_secret_read_rejected", "invalid_future_vault_handle_shape",
       "credential_reference_must_be_future_vault_handle"}
        \subseteq {class[s] : s \in DOMAIN class}
  BY <1>1
<1> QED BY <1>2, <1>3, Zenon DEF VaultContractsOk, class

-----------------------------------------------------------------------------
(* The steps keep the audit log.                                           *)

\* The log that phase 8 writes of nine decisions.
LEMMA LogIs ==
  ASSUME DOMAIN proposals = 1 .. 9
  PROVE  /\ Sealed(AuditLog, 20) /\ LogTells(AuditLog, Statuses, "live_ready_false", contract)
         /\ DOMAIN Statuses = 1 .. 9
         /\ \A i \in 1 .. 9 :
              Statuses[i] = IF proposals[i].complete THEN "structurally_complete_disabled"
                            ELSE "rejected_fail_closed"
<1>1. /\ DOMAIN Statuses = 1 .. 9
      /\ \A i \in 1 .. 9 :
           Statuses[i] = IF proposals[i].complete THEN "structurally_complete_disabled"
                         ELSE "rejected_fail_closed"
  BY DEF Statuses
<1> DEFINE report == "live_ready_false"
<1>2. AuditLog = BuildAuditRecords(9, Statuses, report, contract)
  BY ProposalsAre, Zenon DEF AuditLog
<1> HIDE DEF report
<1>3. DOMAIN Statuses = 1 .. 9
  BY <1>1
<1>4. Sealed(AuditLog, 20) /\ LogTells(AuditLog, Statuses, report, contract)
  BY <1>2, <1>3, BuiltLog, Zenon
<1> QED BY <1>1, <1>4 DEF report

\* Records one after the other are a function on their places.
LEMMA ChainedIsFunction ==
  ASSUME NEW entries, NEW log, log = Chained(entries)
  PROVE  log = [i \in DOMAIN log |-> log[i]]
<1> DEFINE Numbered(i) ==
              [id |-> i, type |-> entries[i].type, artifact |-> entries[i].artifact,
               source |-> entries[i].source, proposal |-> entries[i].proposal,
               result |-> entries[i].result]
           Hash(k) == [i \in 1 .. k |-> Hashed(Numbered(i))]
           Record(i) ==
              [id |-> i, type |-> entries[i].type, artifact |-> entries[i].artifact,
               source |-> entries[i].source, proposal |-> entries[i].proposal,
               result |-> entries[i].result, previous |-> Hash(i - 1), hash |-> Hash(i)]
<1>1. log = [i \in DOMAIN entries |-> Record(i)]
  BY Zenon DEF Chained
<1> HIDE DEF Record
<1> QED BY <1>1

\* It is a log of its own twenty records.
LEMMA LogIsFunction == AuditLog = [i \in DOMAIN AuditLog |-> AuditLog[i]]
<1>1. PICK c : AuditLog = Chained(c)
  BY Zenon DEF AuditLog, BuildAuditRecords
<1> QED BY <1>1, ChainedIsFunction

\* It depends on the proposals and the contract alone.
LEMMA SameLog ==
  ASSUME UNCHANGED <<proposals, contract>>
  PROVE  AuditLog' = AuditLog
BY Zenon DEF AuditLog, Statuses

\* Every step keeps the audit log that of the decisions.
LEMMA AuditStep ==
  ASSUME TypedInv, FilesInv, AuditInv, [Next]_vars
  PROVE  AuditInv'
<1> USE DEF environment, tree, evidence, end, Goto
<1>1. CASE Emit
  BY <1>1, SameLog DEF Emit, RefuseFixture, Refuse, AuditInv, TypedInv, TypeOK
<1>2. CASE Plan
  BY <1>2, SameLog DEF Plan, RefuseFixture, Refuse, AuditInv, TypedInv, TypeOK
<1>3. CASE DecideRequest
  BY <1>3, SameLog DEF DecideRequest, AsksGit, AuditInv, TypedInv, TypeOK
<1>4. CASE ReportContract
  <2>1. /\ pc = "requests" /\ pc' \in {"final", "proposals"}
        /\ contract' \in {"passed", "failed"} /\ UNCHANGED <<audit, proposals>>
    BY <1>4 DEF ReportContract, AsksGit, Decided, ContractReport
  <2>2. audit = <<>>
    BY <2>1 DEF AuditInv
  <2> HIDE DEF environment, tree, evidence, end, Goto
  <2> QED BY <2>1, <2>2 DEF AuditInv
<1>5. CASE Propose
  BY <1>5, SameLog DEF Propose, AsksGit, AuditInv, TypedInv, TypeOK
<1>6. CASE WriteOptIn
  <2>1. /\ pc = "proposals" /\ pc' \in {"final", "opt in", "audit"}
        /\ UNCHANGED <<audit, proposals, contract>> /\ Len(proposals) = 9
    BY <1>6, WriteOptInGoes, ProposalsAre
  <2>2. audit = <<>> /\ contract \in {"passed", "failed"}
    BY <2>1 DEF AuditInv
  <2> HIDE DEF environment, tree, evidence, end, Goto
  <2> QED BY <2>1, <2>2 DEF AuditInv
<1>7. CASE DecideOptIn
  BY <1>7, SameLog DEF DecideOptIn, AsksGit, Decided, AuditInv, TypedInv, TypeOK
<1>8. CASE Audit
  <2>1. /\ pc = "audit" /\ pc' \in {"final", "external"} /\ audit' = AuditLog
        /\ UNCHANGED <<proposals, contract>> /\ written \subseteq written'
    BY <1>8 DEF Audit, AsksGit, Decided, Refuse
  <2>2. Len(proposals) = 9 /\ contract \in {"passed", "failed"}
    BY <2>1 DEF AuditInv
  <2>3. Phase7Artifacts \subseteq written
    BY <2>1 DEF FilesInv, Phase7Artifacts
  <2>4. AuditLog' = AuditLog
    BY <2>1, SameLog
  <2>5. AuditLog # <<>>
    <3>1. proposals \in Seq(AllScores)
      BY DEF TypedInv, AnsweredInOrder
    <3>2. DOMAIN proposals = 1 .. 9
      BY <2>2, <3>1
    <3>3. DOMAIN AuditLog = 1 .. 20
      BY <3>2, LogIs DEF Sealed
    <3>4. 1 \in 1 .. 20 /\ 1 \notin DOMAIN <<>>
      OBVIOUS
    <3> QED BY <3>3, <3>4
  <2> HIDE DEF environment, tree, evidence, end, Goto
  <2> QED BY <2>1, <2>2, <2>3, <2>4, <2>5 DEF AuditInv
<1>9. CASE External
  BY <1>9, SameLog DEF External, AuditInv, TypedInv, TypeOK
<1>10. CASE Operator
  BY <1>10, SameLog DEF Operator, AuditInv, TypedInv, TypeOK
<1>11. CASE WriteFinal
  BY <1>11, SameLog DEF WriteFinal, AuditInv, TypedInv, TypeOK
<1>12. CASE WriteSummary
  BY <1>12, SameLog DEF WriteSummary, AuditInv, TypedInv, TypeOK
<1>13. CASE WriteRaw
  BY <1>13, SameLog DEF WriteRaw, AuditInv, TypedInv, TypeOK
<1>14. CASE PrintAndReturn
  BY <1>14, SameLog DEF PrintAndReturn, AuditInv, TypedInv, TypeOK
<1>15. CASE Raise
  BY <1>15, SameLog DEF Raise, AuditInv, TypedInv, TypeOK
<1>16. CASE Kill
  BY <1>16, SameLog DEF Kill, AuditInv, TypedInv, TypeOK
<1>17. CASE Flip
  BY <1>17, SameLog DEF Flip, AuditInv, TypedInv, TypeOK
<1>18. CASE Terminating
  BY <1>18, SameLog DEF Terminating, vars, AuditInv, TypedInv, TypeOK
<1>19. CASE UNCHANGED vars
  BY <1>19, SameLog DEF vars, AuditInv, TypedInv, TypeOK
<1> QED BY <1>1, <1>2, <1>3, <1>4, <1>5, <1>6, <1>7, <1>8, <1>9, <1>10, <1>11, <1>12, <1>13,
       <1>14, <1>15, <1>16, <1>17, <1>18, <1>19 DEF Next, Step

-----------------------------------------------------------------------------
(* The steps keep that a pass was earned.                                  *)

\* The files a phase has written before its end.
LEMMA BodyIs ==
  /\ Body(6) \subseteq RequiredArtifacts \cup ContractFiles
  /\ Body(7) \subseteq RequiredArtifacts \cup ContractFiles \cup OptInFiles
  /\ Body(8) \subseteq RequiredArtifacts \cup ContractFiles \cup OptInFiles \cup AuditFiles
  /\ Body(9) \subseteq RequiredArtifacts \cup ContractFiles \cup OptInFiles \cup AuditFiles
                        \cup ExternalFiles
  /\ Body(10) \subseteq RequiredArtifacts \cup ContractFiles \cup OptInFiles \cup AuditFiles
                         \cup ExternalFiles \cup OperatorFiles
BY DEF Body, Listed

\* What a run that is told it passed has earned.
Earned ==
    /\ outcome.full /\ ~outcome.vendor
    /\ Body(phase) \subseteq written
    /\ phase <= 7 => contract = "passed"
    /\ phase = 7 => {i \in DOMAIN proposals : proposals[i].complete} = {1}
    /\ \A n \in 8 .. phase : reports[n] = "passed"

\* The files of its end that are there.
Closed ==
    /\ pc \in {"summary", "raw", "print"} => "final_state.json" \in written
    /\ pc \in {"raw", "print"} => "summary.md" \in written
    /\ pc = "print" => "raw.log" \in written

\* The last part of the invariant, by its parts.
LEMMA EarnedParts ==
  EarnedInv <=>
    /\ pc \in {"external", "operator"} => reports[8] = "passed"
    /\ pc = "operator" => reports[9] = "passed"
    /\ outcome.state = "passed" => pc \in Late /\ Earned /\ Closed
    /\ exit = "0" => {"summary.md", "final_state.json", "raw.log"} \subseteq written
BY DEF EarnedInv, Earned, Closed

\* It keeps what it earned while it writes more files.
LEMMA EarnedAgain ==
  ASSUME Earned, written \subseteq written',
         UNCHANGED <<outcome, phase, contract, proposals, reports>>
  PROVE  Earned'
BY DEF Earned, Body, Listed

\* A run whose outcome does not say passed has nothing to show for it.
LEMMA NotEarned ==
  ASSUME outcome'.state # "passed", pc' \notin {"external", "operator"}, exit' # "0"
  PROVE  EarnedInv'
BY DEF EarnedInv


\* The end of a run keeps what was earned and adds its files.
LEMMA StillEarned ==
  ASSUME EarnedInv, written \subseteq written', pc' \in Late,
         UNCHANGED <<outcome, phase, contract, proposals, reports>>,
         outcome.state = "passed" => Closed',
         exit' = "0" => {"summary.md", "final_state.json", "raw.log"} \subseteq written'
  PROVE  EarnedInv'
<1>1. CASE outcome.state # "passed"
  BY <1>1 DEF EarnedInv, Late
<1>2. CASE outcome.state = "passed"
  <2>1. Earned
    BY <1>2, EarnedParts
  <2>2. Earned'
    BY <2>1, EarnedAgain
  <2>3. Closed'
    BY <1>2
  <2>4. pc' \notin {"external", "operator"}
    BY DEF Late
  <2> QED BY <2>2, <2>3, <2>4 DEF EarnedInv, Earned, Closed
<1> QED BY <1>1, <1>2

\* What the opt-in of phase 7 rests on.
LEMMA OptInEarned ==
  ASSUME TypedInv, Len(proposals) = 9, OptInState = "passed"
  PROVE  /\ contract = "passed" /\ dirty = FALSE
         /\ {i \in DOMAIN proposals : proposals[i].complete} = {1}
<1>1. /\ contract = "passed" /\ dirty = FALSE
      /\ OptInOk(proposals, ReadinessReport(proposals))
  <2>1. OptInOk(proposals, ReadinessReport(proposals)) /\ contract = "passed" /\ ~dirty
    BY DEF OptInState
  <2> QED BY <2>1 DEF TypedInv, TypeOK
<1>2. \A i \in DOMAIN proposals : proposals[i].complete <=> i = 1
  BY <1>1, Zenon DEF OptInOk
<1>3. 1 \in DOMAIN proposals
  BY DEF TypedInv, AnsweredInOrder
<1> QED BY <1>1, <1>2, <1>3

\* The contracts of phase 9 hold of the log of phase 8.
LEMMA ExternalPasses ==
  ASSUME TypedInv, AuditInv, audit # <<>>
  PROVE  ExternalReport(audit, Phase7Artifacts) = "passed"
<1>1. audit = AuditLog /\ Len(proposals) = 9
  BY DEF AuditInv
<1>2. DOMAIN proposals = 1 .. 9
  BY <1>1 DEF TypedInv, AnsweredInOrder
<1>3. Sealed(AuditLog, 20) /\ LogTells(AuditLog, Statuses, "live_ready_false", contract)
  BY <1>2, LogIs
<1>4. StoreContractsOk(AuditLog, Phase7Artifacts)
  BY <1>3, StoreKeepsContract, Zenon
<1> QED BY <1>1, <1>4, VaultKeepsContract, Zenon DEF ExternalReport

\* Only the steps that decide make an outcome that says passed.
LEMMA DecidesEarned ==
  ASSUME TypedInv, FilesInv, AuditInv, EarnedInv,
         ReportContract \/ DecideOptIn \/ Audit \/ External \/ Operator,
         pc' = "final", outcome'.state = "passed"
  PROVE  Earned'
<1> USE DEF environment, tree, evidence, end, Goto
<1>0. reports \in [8 .. 10 -> {Nothing, "passed", "failed"}]
  BY DEF TypedInv, TypeOK
<1>1. CASE ReportContract
  <2>1. /\ phase = 6 /\ phase' = 6 /\ written' = written \cup ContractFiles
        /\ outcome' = [state |-> contract', full |-> TRUE, vendor |-> dirty]
        /\ pc = "requests"
    BY <1>1 DEF ReportContract, AsksGit, Decided
  <2>2. contract' = "passed" /\ dirty = FALSE
    <3>1. contract' = "passed"
      BY <2>1
    <3>2. ~dirty
      BY <1>1, <3>1 DEF ReportContract, ContractReport
    <3> QED BY <3>1, <3>2 DEF TypedInv, TypeOK
  <2>3. RequiredArtifacts \subseteq written
    BY <2>1 DEF FilesInv
  <2>4. Body(phase') \subseteq written'
    BY <2>1, <2>3, BodyIs
  <2> HIDE DEF environment, tree, evidence, end, Goto
  <2> QED BY <2>1, <2>2, <2>4 DEF Earned
<1>2. CASE DecideOptIn
  <2>1. /\ outcome' = [state |-> OptInState, full |-> TRUE, vendor |-> dirty]
        /\ pc = "opt in" /\ UNCHANGED <<phase, written, contract, proposals, reports>>
    BY <1>2 DEF DecideOptIn, AsksGit, Decided
  <2>2. phase = 7 /\ Len(proposals) = 9
    BY <2>1 DEF FilesInv, AuditInv
  <2>3. RequiredArtifacts \subseteq written /\ ContractFiles \subseteq written
        /\ OptInFiles \subseteq written
    BY <2>1 DEF FilesInv
  <2>4. Body(phase') \subseteq written'
    BY <2>1, <2>2, <2>3, BodyIs
  <2>5. /\ contract = "passed" /\ dirty = FALSE
        /\ {i \in DOMAIN proposals : proposals[i].complete} = {1}
    BY <2>1, <2>2, OptInEarned
  <2> HIDE DEF environment, tree, evidence, end, Goto
  <2>6. outcome'.full /\ ~outcome'.vendor
    BY <2>1, <2>5
  <2>7. {i \in DOMAIN proposals' : proposals'[i].complete} = {1}
    BY <2>1, <2>5
  <2>8. contract' = "passed" /\ \A n \in 8 .. phase' : reports'[n] = "passed"
    <3>1. phase' = 7 /\ contract' = "passed"
      BY <2>1, <2>2, <2>5
    <3>2. \A n \in 8 .. 7 : FALSE
      OBVIOUS
    <3> QED BY <3>1, <3>2
  <2> QED BY <2>4, <2>6, <2>7, <2>8 DEF Earned
<1>3. CASE Audit
  <2> DEFINE errors == AuditErrors(audit', written, 1 .. Len(Proposals), 1 .. Len(proposals))
             ok == AuditOk(errors, ReadinessReport(proposals), dirty)
  <2>1. /\ pc = "audit" /\ written' = written \cup AuditFiles /\ UNCHANGED phase
        /\ reports' = [reports EXCEPT ![8] = IF ok THEN "passed" ELSE "failed"]
        /\ IF phase = 8 THEN Decided(IF ok /\ ~dirty THEN "passed" ELSE "failed")
           ELSE IF ok THEN Goto("external") /\ UNCHANGED outcome ELSE Refuse("failed")
    BY <1>3, Zenon DEF Audit, AsksGit
  <2> HIDE DEF ok
  <2>2. phase = 8 /\ outcome' = [state |-> IF ok /\ ~dirty THEN "passed" ELSE "failed",
                                 full |-> TRUE, vendor |-> dirty]
    <3>1. CASE phase = 8
      BY <2>1, <3>1 DEF Decided
    <3>2. CASE phase # 8
      BY <2>1, <3>2 DEF Refuse
    <3> QED BY <3>1, <3>2
  <2>3. ok /\ dirty = FALSE
    <3>1. ok /\ ~dirty
      BY <2>2
    <3> QED BY <3>1 DEF TypedInv, TypeOK
  <2>4. reports'[8] = "passed"
    BY <1>0, <2>1, <2>3
  <2>5. RequiredArtifacts \subseteq written /\ ContractFiles \subseteq written
        /\ OptInFiles \subseteq written
    BY <2>1 DEF FilesInv
  <2>6. Body(phase') \subseteq written'
    BY <2>1, <2>2, <2>5, BodyIs
  <2> HIDE DEF environment, tree, evidence, end, Goto
  <2> QED BY <2>1, <2>2, <2>3, <2>4, <2>6 DEF Earned
<1>4. CASE External
  <2>1. /\ pc = "external" /\ written' = written \cup ExternalFiles /\ UNCHANGED phase
        /\ phase = 9 /\ outcome' = [state |-> reports'[9], full |-> TRUE, vendor |-> FALSE]
        /\ reports' = [reports EXCEPT ![9] = ExternalReport(audit, Phase7Artifacts)]
    BY <1>4 DEF External
  <2>2. reports[8] = "passed"
    BY <2>1 DEF EarnedInv
  <2>3. reports'[8] = "passed" /\ reports'[9] = "passed"
    BY <1>0, <2>1, <2>2
  <2>4. RequiredArtifacts \subseteq written /\ ContractFiles \subseteq written
        /\ OptInFiles \subseteq written /\ AuditFiles \subseteq written
    BY <2>1 DEF FilesInv
  <2>5. Body(phase') \subseteq written'
    BY <2>1, <2>4, BodyIs
  <2> HIDE DEF environment, tree, evidence, end, Goto
  <2>6. \A n \in 8 .. 9 : reports'[n] = "passed"
    BY <2>3
  <2> QED BY <2>1, <2>5, <2>6 DEF Earned
<1>5. CASE Operator
  <2>1. /\ pc = "operator" /\ written' = written \cup OperatorFiles /\ UNCHANGED phase
        /\ outcome' = [state |-> reports'[10], full |-> TRUE, vendor |-> FALSE]
        /\ reports' = [reports EXCEPT ![10] = OperatorReport]
    BY <1>5 DEF Operator
  <2>2. reports[8] = "passed" /\ reports[9] = "passed" /\ phase = 10
    BY <2>1 DEF EarnedInv, FilesInv
  <2>3. reports'[8] = "passed" /\ reports'[9] = "passed" /\ reports'[10] = "passed"
    BY <1>0, <2>1, <2>2
  <2>4. RequiredArtifacts \subseteq written /\ ContractFiles \subseteq written
        /\ OptInFiles \subseteq written /\ AuditFiles \subseteq written
        /\ ExternalFiles \subseteq written
    BY <2>1 DEF FilesInv
  <2>5. Body(phase') \subseteq written'
    BY <2>1, <2>2, <2>4, BodyIs
  <2> HIDE DEF environment, tree, evidence, end, Goto
  <2>6. \A n \in 8 .. 10 : reports'[n] = "passed"
    <3>1. \A n \in 8 .. 10 : n = 8 \/ n = 9 \/ n = 10
      OBVIOUS
    <3> QED BY <2>3, <3>1
  <2> QED BY <2>1, <2>2, <2>5, <2>6 DEF Earned
<1> QED BY <1>1, <1>2, <1>3, <1>4, <1>5

\* Every step keeps that a pass was earned.
LEMMA EarnedStep ==
  ASSUME TypedInv, EndInv, FilesInv, AuditInv, EarnedInv, [Next]_vars
  PROVE  EarnedInv'
<1> USE DEF environment, tree, evidence, end, Goto
<1>1. CASE Emit
  <2>1. /\ exit = "running" /\ exit' = exit /\ outcome.state # "passed"
        /\ pc' \notin {"external", "operator"} /\ outcome'.state # "passed"
    BY <1>1 DEF Emit, RefuseFixture, Refuse, EndInv, EarnedInv, Late
  <2> QED BY <2>1, NotEarned
<1>2. CASE Plan
  <2>1. /\ exit = "running" /\ exit' = exit /\ outcome.state # "passed"
        /\ pc' \notin {"external", "operator"} /\ outcome'.state # "passed"
    BY <1>2 DEF Plan, RefuseFixture, Refuse, EndInv, EarnedInv, Late
  <2> QED BY <2>1, NotEarned
<1>3. CASE DecideRequest
  <2>1. /\ outcome.state # "passed" /\ UNCHANGED <<outcome, exit>> /\ exit = "running"
        /\ pc' \notin {"external", "operator"}
    BY <1>3 DEF DecideRequest, AsksGit, EndInv, EarnedInv, Late
  <2> QED BY <2>1, NotEarned
<1>4. CASE ReportContract
  <2>1. /\ exit' = "running" /\ outcome.state # "passed" /\ pc' \in {"final", "proposals"}
        /\ pc' # "final" => UNCHANGED outcome
    BY <1>4 DEF ReportContract, AsksGit, Decided, EndInv, EarnedInv, Late
  <2>2. CASE outcome'.state # "passed" /\ pc' \notin {"external", "operator"}
    BY <2>1, <2>2, NotEarned
  <2>3. CASE outcome'.state = "passed"
    <3>1. pc' = "final"
      BY <2>1, <2>3
    <3>2. Earned'
      BY <1>4, <2>3, <3>1, DecidesEarned
    <3> HIDE DEF environment, tree, evidence, end, Goto
    <3> QED BY <2>1, <3>1, <3>2 DEF EarnedInv, Earned, Late
  <2> QED BY <2>1, <2>2, <2>3
<1>5. CASE Propose
  <2>1. /\ outcome.state # "passed" /\ UNCHANGED <<outcome, exit>> /\ exit = "running"
        /\ pc' \notin {"external", "operator"}
    BY <1>5 DEF Propose, AsksGit, EndInv, EarnedInv, Late
  <2> QED BY <2>1, NotEarned
<1>6. CASE WriteOptIn
  <2>1. /\ exit = "running" /\ exit' = exit /\ outcome.state # "passed"
        /\ pc' \notin {"external", "operator"} /\ outcome'.state # "passed"
    BY <1>6, WriteOptInGoes DEF EndInv, EarnedInv, Late
  <2> QED BY <2>1, NotEarned
<1>7. CASE DecideOptIn
  <2>1. /\ exit' = "running" /\ outcome.state # "passed" /\ pc' \in {"final"}
        /\ pc' # "final" => UNCHANGED outcome
    BY <1>7 DEF DecideOptIn, AsksGit, Decided, EndInv, EarnedInv, Late
  <2>2. CASE outcome'.state # "passed" /\ pc' \notin {"external", "operator"}
    BY <2>1, <2>2, NotEarned
  <2>3. CASE outcome'.state = "passed"
    <3>1. pc' = "final"
      BY <2>1, <2>3
    <3>2. Earned'
      BY <1>7, <2>3, <3>1, DecidesEarned
    <3> HIDE DEF environment, tree, evidence, end, Goto
    <3> QED BY <2>1, <3>1, <3>2 DEF EarnedInv, Earned, Late
  <2> QED BY <2>1, <2>2, <2>3
<1>8. CASE Audit
  <2>1. /\ exit' = "running" /\ outcome.state # "passed" /\ pc' \in {"final", "external"}
        /\ pc' # "final" => UNCHANGED outcome
    BY <1>8 DEF Audit, AsksGit, Decided, Refuse, EndInv, EarnedInv, Late
  <2>2. CASE outcome'.state # "passed" /\ pc' \notin {"external", "operator"}
    BY <2>1, <2>2, NotEarned
  <2>3. CASE outcome'.state = "passed"
    <3>1. pc' = "final"
      BY <2>1, <2>3
    <3>2. Earned'
      BY <1>8, <2>3, <3>1, DecidesEarned
    <3> HIDE DEF environment, tree, evidence, end, Goto
    <3> QED BY <2>1, <3>1, <3>2 DEF EarnedInv, Earned, Late
  <2>4. CASE pc' = "external"
    <3>1. reports'[8] = "passed"
      BY <1>8, <2>4 DEF Audit, AsksGit, Decided, Refuse, TypedInv, TypeOK
    <3> HIDE DEF environment, tree, evidence, end, Goto
    <3> QED BY <2>1, <2>4, <3>1 DEF EarnedInv
  <2> QED BY <2>1, <2>2, <2>3, <2>4
<1>9. CASE External
  <2>1. /\ exit' = "running" /\ outcome.state # "passed" /\ pc' \in {"final", "operator"}
        /\ pc' # "final" => UNCHANGED outcome
    BY <1>9 DEF External, EndInv, EarnedInv, Late
  <2>2. CASE outcome'.state # "passed" /\ pc' \notin {"external", "operator"}
    BY <2>1, <2>2, NotEarned
  <2>3. CASE outcome'.state = "passed"
    <3>1. pc' = "final"
      BY <2>1, <2>3
    <3>2. Earned'
      BY <1>9, <2>3, <3>1, DecidesEarned
    <3> HIDE DEF environment, tree, evidence, end, Goto
    <3> QED BY <2>1, <3>1, <3>2 DEF EarnedInv, Earned, Late
  <2>4. CASE pc' = "operator"
    <3>1. /\ pc = "external"
          /\ reports' = [reports EXCEPT ![9] = ExternalReport(audit, Phase7Artifacts)]
      BY <1>9 DEF External
    <3>2. reports[8] = "passed" /\ audit # <<>>
      BY <3>1 DEF EarnedInv, AuditInv
    <3>3. ExternalReport(audit, Phase7Artifacts) = "passed"
      BY <3>2, ExternalPasses
    <3>4. reports'[8] = "passed" /\ reports'[9] = "passed"
      BY <3>1, <3>2, <3>3 DEF TypedInv, TypeOK
    <3> HIDE DEF environment, tree, evidence, end, Goto
    <3> QED BY <2>1, <2>4, <3>4 DEF EarnedInv
  <2> QED BY <2>1, <2>2, <2>3, <2>4
<1>10. CASE Operator
  <2>1. /\ exit' = "running" /\ outcome.state # "passed" /\ pc' \in {"final"}
        /\ pc' # "final" => UNCHANGED outcome
    BY <1>10 DEF Operator, EndInv, EarnedInv, Late
  <2>2. CASE outcome'.state # "passed" /\ pc' \notin {"external", "operator"}
    BY <2>1, <2>2, NotEarned
  <2>3. CASE outcome'.state = "passed"
    <3>1. pc' = "final"
      BY <2>1, <2>3
    <3>2. Earned'
      BY <1>10, <2>3, <3>1, DecidesEarned
    <3> HIDE DEF environment, tree, evidence, end, Goto
    <3> QED BY <2>1, <3>1, <3>2 DEF EarnedInv, Earned, Late
  <2> QED BY <2>1, <2>2, <2>3
<1>11. CASE WriteFinal
  <2>1. /\ written \subseteq written' /\ pc' \in {"summary", "raw"} /\ exit' # "0"
        /\ UNCHANGED <<outcome, phase, contract, proposals, reports>>
    BY <1>11 DEF WriteFinal, EndInv
  <2>2. outcome.state = "passed" => Closed'
    <3>1. outcome.state = "passed" => pc \in Late /\ Earned /\ Closed
      BY EarnedParts
    <3> QED BY <1>11, <3>1 DEF WriteFinal, Closed, Earned, EndInv, Late
  <2> HIDE DEF environment, tree, evidence, end, Goto
  <2> QED BY <2>1, <2>2, StillEarned DEF Late
<1>12. CASE WriteSummary
  <2>1. /\ written \subseteq written' /\ pc' \in {"raw"} /\ exit' # "0"
        /\ UNCHANGED <<outcome, phase, contract, proposals, reports>>
    BY <1>12 DEF WriteSummary, EndInv
  <2>2. outcome.state = "passed" => Closed'
    <3>1. outcome.state = "passed" => pc \in Late /\ Earned /\ Closed
      BY EarnedParts
    <3> QED BY <1>12, <3>1 DEF WriteSummary, Closed, Earned, EndInv, Late
  <2> HIDE DEF environment, tree, evidence, end, Goto
  <2> QED BY <2>1, <2>2, StillEarned DEF Late
<1>13. CASE WriteRaw
  <2>1. /\ written \subseteq written' /\ pc' \in {"print"} /\ exit' # "0"
        /\ UNCHANGED <<outcome, phase, contract, proposals, reports>>
    BY <1>13 DEF WriteRaw, EndInv
  <2>2. outcome.state = "passed" => Closed'
    <3>1. outcome.state = "passed" => pc \in Late /\ Earned /\ Closed
      BY EarnedParts
    <3> QED BY <1>13, <3>1 DEF WriteRaw, Closed, Earned, EndInv, Late
  <2> HIDE DEF environment, tree, evidence, end, Goto
  <2> QED BY <2>1, <2>2, StillEarned DEF Late
<1>14. CASE PrintAndReturn
  <2>1. /\ written' = written /\ pc' = "done" /\ pc = "print"
        /\ UNCHANGED <<outcome, phase, contract, proposals, reports>>
        /\ exit' = "0" => final.state = "passed"
    BY <1>14 DEF PrintAndReturn
  <2>2. final = outcome
    BY <2>1 DEF EndInv
  <2>3. outcome.state = "passed" =>
          {"summary.md", "final_state.json", "raw.log"} \subseteq written
    BY <2>1 DEF EarnedInv
  <2>4. Closed'
    BY <2>1 DEF Closed
  <2> HIDE DEF environment, tree, evidence, end, Goto
  <2> QED BY <2>1, <2>2, <2>3, <2>4, StillEarned DEF Late
<1>15. CASE Raise
  <2>1. /\ written \subseteq written' /\ pc' \in {"done"} /\ exit' # "0"
        /\ UNCHANGED <<outcome, phase, contract, proposals, reports>>
    BY <1>15 DEF Raise, EndInv
  <2>2. outcome.state = "passed" => Closed'
    <3>1. outcome.state = "passed" => pc \in Late /\ Earned /\ Closed
      BY EarnedParts
    <3> QED BY <1>15, <3>1 DEF Raise, Closed, Earned, EndInv, Late
  <2> HIDE DEF environment, tree, evidence, end, Goto
  <2> QED BY <2>1, <2>2, StillEarned DEF Late
<1>16. CASE Kill
  <2>1. /\ written \subseteq written' /\ pc' \in {"done"} /\ exit' # "0"
        /\ UNCHANGED <<outcome, phase, contract, proposals, reports>>
    BY <1>16 DEF Kill, EndInv
  <2>2. outcome.state = "passed" => Closed'
    <3>1. outcome.state = "passed" => pc \in Late /\ Earned /\ Closed
      BY EarnedParts
    <3> QED BY <1>16, <3>1 DEF Kill, Closed, Earned, EndInv, Late
  <2> HIDE DEF environment, tree, evidence, end, Goto
  <2> QED BY <2>1, <2>2, StillEarned DEF Late
<1>17. CASE Flip
  BY <1>17 DEF Flip, EarnedInv
<1>18. CASE Terminating
  BY <1>18 DEF Terminating, vars, EarnedInv
<1>19. CASE UNCHANGED vars
  BY <1>19 DEF vars, EarnedInv
<1> QED BY <1>1, <1>2, <1>3, <1>4, <1>5, <1>6, <1>7, <1>8, <1>9, <1>10, <1>11, <1>12, <1>13,
       <1>14, <1>15, <1>16, <1>17, <1>18, <1>19 DEF Next, Step

-----------------------------------------------------------------------------
(* The theorems.                                                           *)

\* Every run begins within the invariant.
LEMMA InitInv ==
  ASSUME Init
  PROVE  IInv
<1> USE DEF Init, NoState
<1>1. Values /\ Reported
  BY MaxFlipsAssumption DEF Values, Reported
<1>2. Told
  BY DEF Told, EndStates, States
<1>3. AnsweredInOrder
  BY DEF AnsweredInOrder
<1>4. written \subseteq Listed(10)
  OBVIOUS
<1>5. TypedInv
  BY <1>1, <1>2, <1>3, <1>4, TypedParts
<1>6. EndInv
  BY DEF EndInv
<1>7. FilesInv
  BY DEF FilesInv
<1>8. AuditInv
  BY DEF AuditInv
<1>9. EarnedInv
  BY DEF EarnedInv, Nothing
<1> QED BY <1>5, <1>6, <1>7, <1>8, <1>9 DEF IInv

\* Every step stays within it.
LEMMA StepInv ==
  ASSUME IInv, [Next]_vars
  PROVE  IInv'
<1>1. TypedInv /\ EndInv /\ FilesInv /\ AuditInv /\ EarnedInv
  BY DEF IInv
<1>2. TypedInv' /\ EndInv' /\ FilesInv' /\ AuditInv' /\ EarnedInv'
  BY <1>1, TypedStep, EndStep, FilesStep, AuditStep, EarnedStep
<1> QED BY <1>2 DEF IInv

\* The inductive invariant: the decisions answer their fixtures in order, the files of the
\* stages passed are there, the audit log is that of the decisions, and a pass was earned.
THEOREM Invariant == Spec => []IInv
<1>1. Init => IInv
  BY InitInv
<1>2. IInv /\ [Next]_vars => IInv'
  BY StepInv
<1> QED BY <1>1, <1>2, PTL DEF Spec

\* The variables stay in their ranges, and the run writes no file that is not listed.
THEOREM TypeCorrect == Spec => []TypeOK
<1>1. IInv => TypeOK
  BY DEF IInv, TypedInv
<1> QED BY <1>1, Invariant, PTL

\* A bad fixture is refused by the very gate it was made to trip, however the vendored tree
\* changes while the requests are decided.
THEOREM BadFixturesTrip == Spec => []RefusedForItsReason
<1>1. ASSUME IInv PROVE RefusedForItsReason
  <2>1. AnsweredInOrder
    BY <1>1 DEF IInv, TypedInv
  <2>2. ASSUME NEW i \in DOMAIN decisions
        PROVE  decisions[i].scenario = "valid_dry_run_request"
                 \/ Tripped[decisions[i].scenario] \in decisions[i].refused
    <3>1. i \in 1 .. 5 /\ decisions[i] \in Answers(i)
      BY <2>1 DEF AnsweredInOrder
    <3>2. PICK d \in BOOLEAN : decisions[i] = Decide(Requests[i], d)
      BY <3>1 DEF Answers
    <3> QED BY <3>1, <3>2, AnswersTrip
  <2>3. ASSUME NEW i \in DOMAIN proposals
        PROVE  proposals[i].scenario = "complete_but_disabled_proposal"
                 \/ TrippedProposal[proposals[i].scenario] \in proposals[i].blockers
    <3>1. i \in 1 .. 9 /\ proposals[i] \in Scores(i)
      BY <2>1 DEF AnsweredInOrder
    <3>2. PICK d \in BOOLEAN : proposals[i] = ReadinessDecision(Proposals[i], d)
      BY <3>1 DEF Scores
    <3> QED BY <3>1, <3>2, ScoresTrip
  <2> QED BY <2>2, <2>3 DEF RefusedForItsReason
<1> QED BY <1>1, Invariant, PTL

\* Exit code 0 rests on all the files and reports of the phase, however the tree changed
\* between the questions put to git.
THEOREM PassIsEarned == Spec => []PassRests
<1>1. ASSUME IInv PROVE PassRests
  <2> SUFFICES ASSUME exit = "0"
               PROVE  /\ final.state = "passed" /\ ~final.vendor
                      /\ Listed(phase) \subseteq written
                      /\ phase <= 7 => contract = "passed"
                      /\ phase = 7 => {i \in DOMAIN proposals : proposals[i].complete} = {1}
                      /\ \A n \in 8 .. phase : reports[n] = "passed"
    BY DEF PassRests
  <2>1. EndInv /\ EarnedInv
    BY <1>1 DEF IInv
  <2>2. final = outcome /\ final.state = "passed"
    BY <2>1 DEF EndInv
  <2>3. Earned /\ {"summary.md", "final_state.json", "raw.log"} \subseteq written
    BY <2>1, <2>2, EarnedParts
  <2>4. Body(phase) \subseteq written
    BY <2>3 DEF Earned
  <2>5. Listed(phase) \subseteq written
    BY <2>3, <2>4 DEF Body
  <2> QED BY <2>2, <2>3, <2>5 DEF Earned
<1> QED BY <1>1, Invariant, PTL

\* What the log was made of.
LEMMA LogWas ==
  ASSUME TypedInv, AuditInv, audit # <<>>
  PROVE  /\ audit = AuditLog /\ DOMAIN proposals = 1 .. 9
         /\ contract \in {"passed", "failed"} /\ Phase7Artifacts \subseteq written
<1>1. /\ audit = AuditLog /\ Len(proposals) = 9 /\ contract \in {"passed", "failed"}
      /\ Phase7Artifacts \subseteq written
  BY DEF AuditInv
<1>2. proposals \in Seq(AllScores)
  BY DEF TypedInv, AnsweredInOrder
<1>3. DOMAIN proposals = 1 .. 9
  BY <1>1, <1>2
<1> QED BY <1>1, <1>3

\* A log of phase 8 tells of the decisions what their file says.
LEMMA LogTellsDecisions ==
  ASSUME TypedInv, AuditInv
  PROVE  TellsDecisions
<1> SUFFICES ASSUME audit # <<>>, NEW told,
                    told = {i \in DOMAIN audit : audit[i].type = "decision"}
             PROVE  /\ {audit[i].source : i \in told} = DOMAIN proposals
                    /\ \A i, j \in told : i < j => audit[i].source < audit[j].source
                    /\ \A i \in told :
                         /\ audit[i].proposal = audit[i].source
                         /\ (audit[i].result = "structurally_complete_disabled")
                              <=> proposals[audit[i].source].complete
                    /\ audit[Len(audit)].result = contract
  BY DEF TellsDecisions
<1>1. audit = AuditLog /\ DOMAIN proposals = 1 .. 9
  BY LogWas
<1>2. /\ Sealed(audit, 20) /\ LogTells(audit, Statuses, "live_ready_false", contract)
      /\ \A i \in 1 .. 9 :
           Statuses[i] = IF proposals[i].complete THEN "structurally_complete_disabled"
                         ELSE "rejected_fail_closed"
  BY <1>1, LogIs
<1>3. DOMAIN audit = 1 .. 20
  BY <1>2 DEF Sealed
<1>4. \A k \in 1 .. 9 : /\ audit[k].type = "proposal"
                        /\ audit[9 + k].type = "decision"
                        /\ audit[9 + k].source = k /\ audit[9 + k].proposal = k
                        /\ audit[9 + k].result = Statuses[k]
  BY <1>2, Zenon DEF LogTells
<1>5. audit[19].type = "readiness report" /\ audit[20].type = "contract report"
      /\ audit[20].result = contract
  BY <1>2, Zenon DEF LogTells
<1>6. told = 10 .. 18
  <2>1. ASSUME NEW i \in 1 .. 20 PROVE audit[i].type = "decision" <=> i \in 10 .. 18
    <3>1. CASE i \in 1 .. 9
      BY <1>4, <3>1
    <3>2. CASE i \in 10 .. 18
      <4>1. i - 9 \in 1 .. 9 /\ 9 + (i - 9) = i
        BY <3>2
      <4> QED BY <1>4, <3>2, <4>1
    <3>3. CASE i = 19
      <4>1. 19 \notin 10 .. 18
        OBVIOUS
      <4>2. audit[19].type # "decision"
        BY <1>5, Zenon
      <4> QED BY <3>3, <4>1, <4>2, Zenon
    <3>4. CASE i = 20
      <4>1. 20 \notin 10 .. 18
        OBVIOUS
      <4>2. audit[20].type # "decision"
        BY <1>5, Zenon
      <4> QED BY <3>4, <4>1, <4>2, Zenon
    <3> QED BY <3>1, <3>2, <3>3, <3>4
  <2>2. \A i \in 10 .. 18 : i \in 1 .. 20
    OBVIOUS
  <2> QED BY <1>3, <2>1, <2>2
<1>7. \A i \in told : /\ i - 9 \in 1 .. 9
                      /\ audit[i].source = i - 9 /\ audit[i].proposal = i - 9
                      /\ audit[i].result = Statuses[i - 9]
  <2>1. \A i \in told : i - 9 \in 1 .. 9 /\ 9 + (i - 9) = i
    BY <1>6
  <2> QED BY <1>4, <2>1
<1>8. {audit[i].source : i \in told} = DOMAIN proposals
  <2>1. \A k \in 1 .. 9 : 9 + k \in told /\ audit[9 + k].source = k
    BY <1>4, <1>6
  <2>2. DOMAIN proposals = 1 .. 9
    BY <1>1
  <2>3. ASSUME NEW s \in {audit[i].source : i \in told} PROVE s \in 1 .. 9
    <3>1. PICK i \in told : s = audit[i].source
      BY <2>3, Zenon
    <3> QED BY <1>7, <3>1, Zenon
  <2>4. ASSUME NEW k \in 1 .. 9 PROVE k \in {audit[i].source : i \in told}
    BY <2>1, Zenon
  <2>5. {audit[i].source : i \in told} = 1 .. 9
    BY <2>3, <2>4, Zenon
  <2> QED BY <2>2, <2>5, Zenon
<1>9. \A i, j \in told : i < j => audit[i].source < audit[j].source
  BY <1>6, <1>7
<1>10. \A i \in told :
         /\ audit[i].proposal = audit[i].source
         /\ (audit[i].result = "structurally_complete_disabled")
              <=> proposals[audit[i].source].complete
  <2>1. \A k \in 1 .. 9 : (Statuses[k] = "structurally_complete_disabled")
                            <=> proposals[k].complete
    BY <1>2
  <2> QED BY <1>7, <2>1
<1>11. Len(audit) = 20
  BY <1>3
<1> QED BY <1>5, <1>8, <1>9, <1>10, <1>11

\* A record of it that is changed, taken out or repeated is seen.
LEMMA LogIsEvident ==
  ASSUME TypedInv, AuditInv
  PROVE  TamperEvident
<1> DEFINE Errors(log) == AuditErrors(log, written, 1 .. 9, 1 .. 9)
           Tampered(i) == [audit[i] EXCEPT !.result = "tampered"]
           Rehashed(i) == [Tampered(i) EXCEPT !.hash = AuditHash(Tampered(i))]
           Without(i) == [j \in 1 .. Len(audit) - 1 |-> audit[IF j < i THEN j ELSE j + 1]]
<1> SUFFICES /\ Errors(audit) = {}
             /\ \A i \in DOMAIN audit :
                  /\ Errors([audit EXCEPT ![i] = Tampered(i)]) # {}
                  /\ i < Len(audit) => Errors([audit EXCEPT ![i] = Rehashed(i)]) # {}
                  /\ i < Len(audit) => Errors(Without(i)) # {}
                  /\ Errors(Append(audit, audit[i])) # {}
  BY Zenon DEF TamperEvident
<1>1. CASE audit = <<>>
  <2>1. DOMAIN audit = {}
    BY <1>1
  <2> QED BY <2>1 DEF AuditErrors
<1>2. CASE audit # <<>>
  <2>1. /\ audit = AuditLog /\ DOMAIN proposals = 1 .. 9
        /\ contract \in {"passed", "failed"} /\ Phase7Artifacts \subseteq written
    BY <1>2, LogWas, Zenon
  <2>2. /\ Sealed(audit, 20) /\ LogTells(audit, Statuses, "live_ready_false", contract)
        /\ \A i \in 1 .. 9 :
             Statuses[i] = IF proposals[i].complete THEN "structurally_complete_disabled"
                           ELSE "rejected_fail_closed"
    BY <2>1, LogIs
  <2>3. /\ DOMAIN audit = 1 .. 20 /\ Len(audit) = 20
        /\ audit = [j \in 1 .. 20 |-> audit[j]]
    <3>1. DOMAIN audit = 1 .. 20
      BY <2>2 DEF Sealed
    <3>2. audit = [j \in DOMAIN audit |-> audit[j]]
      BY <2>1, LogIsFunction
    <3> QED BY <3>1, <3>2
  <2>4. Errors(audit) = {}
    BY <2>1, <2>2, NoErrors
  <2> SUFFICES ASSUME NEW i \in 1 .. 20
               PROVE  /\ Errors([audit EXCEPT ![i] = Tampered(i)]) # {}
                      /\ i < Len(audit) => Errors([audit EXCEPT ![i] = Rehashed(i)]) # {}
                      /\ i < Len(audit) => Errors(Without(i)) # {}
                      /\ Errors(Append(audit, audit[i])) # {}
    BY <2>3, <2>4, Zenon
  <2>5. audit[i].result # "tampered"
    <3>1. \A k \in 1 .. 9 : Statuses[k] # "tampered"
      BY <2>2
    <3> QED BY <2>1, <2>2, <3>1, Untampered, Zenon
  <2>6. Errors([audit EXCEPT ![i] = Tampered(i)]) # {}
    BY <2>2, <2>5, TamperedIsSeen, Zenon
  <2>9. ASSUME i < Len(audit) PROVE Errors([audit EXCEPT ![i] = Rehashed(i)]) # {}
    <3>1. i \in 1 .. 19
      BY <2>3, <2>9
    <3> QED BY <2>2, <2>5, <3>1, RehashedIsSeen, Zenon
  <2>7. ASSUME i < Len(audit) PROVE Errors(Without(i)) # {}
    <3>1. i \in 1 .. 19
      BY <2>3, <2>7
    <3>2. Without(i) = [j \in 1 .. 19 |-> audit[IF j < i THEN j ELSE j + 1]]
      BY <2>3
    <3>3. PICK new : new = Without(i)
      OBVIOUS
    <3>4. Sealed(audit, 20) /\ new = [j \in 1 .. 19 |-> audit[IF j < i THEN j ELSE j + 1]]
      BY <2>2, <3>2, <3>3
    <3> HIDE DEF Without
    <3>5. AuditErrors(new, written, 1 .. 9, 1 .. 9) # {}
      BY <3>1, <3>4, CutIsSeen
    <3> QED BY <3>3, <3>5
  <2>8. Errors(Append(audit, audit[i])) # {}
    BY <2>2, <2>3, RepeatedIsSeen, Zenon
  <2> QED BY <2>6, <2>7, <2>8, <2>9, Zenon
<1> QED BY <1>1, <1>2

\* The audit log of phase 8 says what the decisions file says, validates, and no longer does
\* when a record is changed, even with its own hash unless it is the last, taken out of the
\* middle or repeated.
THEOREM AuditIsEvident == Spec => []AuditEvident
<1>1. ASSUME IInv PROVE AuditEvident
  <2>1. TypedInv /\ AuditInv
    BY <1>1 DEF IInv
  <2> QED BY <2>1, LogTellsDecisions, LogIsEvident DEF AuditEvident
<1> QED BY <1>1, Invariant, PTL

\* What a step is for whoever only sees the end of a run.
LEMMA StepKeepsPromise ==
  ASSUME IInv, [Next]_vars
  PROVE  [Promise!Next]_(Promise!vars)
<1> USE DEF environment, tree, evidence, end, Goto, Promise!vars
<1>0. TypedInv /\ EndInv
  BY DEF IInv
<1>1. ASSUME UNCHANGED <<final, said, exit>> PROVE UNCHANGED Promise!vars
  BY <1>1
<1>2. CASE Emit \/ Plan \/ DecideRequest \/ ReportContract \/ Propose
  BY <1>1, <1>2 DEF Emit, Plan, DecideRequest, ReportContract, Propose, RefuseFixture, Refuse, Decided
<1>3. CASE WriteOptIn \/ DecideOptIn
  BY <1>1, <1>3 DEF WriteOptIn, DecideOptIn, Decided, Refuse
<1>4. CASE Audit
  BY <1>1, <1>4 DEF Audit
<1>5. CASE External \/ Operator
  BY <1>1, <1>5 DEF External, Operator
<1>6. CASE WriteFinal
  <2>1. exit = "running" /\ final.state = Nothing /\ outcome.state \in States
    BY <1>0, <1>6 DEF WriteFinal, EndInv, NoState
  <2>2. final' = outcome /\ UNCHANGED <<said, exit>>
    BY <1>6 DEF WriteFinal
  <2> QED BY <2>1, <2>2 DEF Promise!Next, Promise!Claim
<1>7. CASE WriteSummary \/ WriteRaw
  BY <1>1, <1>7 DEF WriteSummary, WriteRaw
<1>8. CASE PrintAndReturn
  <2>1. exit = "running" /\ final.state # Nothing
    BY <1>0, <1>8 DEF PrintAndReturn, EndInv, States, Nothing
  <2>2. /\ said' = final.state /\ exit' = IF final.state \in {"passed"} THEN "0" ELSE "1"
        /\ UNCHANGED final
    BY <1>8 DEF PrintAndReturn
  <2> QED BY <2>1, <2>2 DEF Promise!Next, Promise!Return
<1>9. CASE Raise
  <2>1. exit = "running"
    BY <1>0, <1>9 DEF Raise, EndInv
  <2> QED BY <1>9, <2>1 DEF Raise, Promise!Next, Promise!Raise
<1>10. CASE Kill
  BY <1>10 DEF Kill, Promise!Next, Promise!Kill
<1>11. CASE Flip \/ Terminating \/ UNCHANGED vars
  BY <1>1, <1>11 DEF Flip, Terminating, vars
<1> QED BY <1>2, <1>3, <1>4, <1>5, <1>6, <1>7, <1>8, <1>9, <1>10, <1>11 DEF Next, Step

\* What a run shows of its end is what every smoke command promises: one final state, and a
\* printed line and an exit code that agree with it.
THEOREM KeepsPromise == Spec => Promise!Spec
<1>1. Init => Promise!Init
  BY DEF Init, NoState, Promise!Init
<1>2. IInv /\ [Next]_vars => [Promise!Next]_(Promise!vars)
  BY StepKeepsPromise
<1> QED BY <1>1, <1>2, Invariant, PTL DEF Spec, Promise!Spec

=============================================================================
