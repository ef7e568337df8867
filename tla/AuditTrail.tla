------------------------------ MODULE AuditTrail ------------------------------
(***************************************************************************)
(* The audit trail of phase 8 and the contract of an external store for it *)
(* (reactive_manager/audit_log.py, external_audit_store.py).               *)
(*                                                                         *)
(* A record says which artifact, and which proposal or decision of it, it  *)
(* is about and how that ended, and carries the hash of the record before  *)
(* it.  audit-00000n is the id n.  SHA-256 does not collide: the hash of a *)
(* record is the sequence of all that was hashed up to it.  An answer of   *)
(* the store is the reason it gives.                                       *)
(***************************************************************************)
EXTENDS Naturals, Sequences, FiniteSets

Genesis == <<>>

-----------------------------------------------------------------------------
(* Records.                                                                *)

\* mutated: the hash leaves out the result
HashedWithoutResult(record) ==
    <<record.id, record.type, record.artifact, record.source, record.proposal>>

\* What canonical_hash sees of a record besides the previous hash; proposal is
\* the one the provenance of a decision names.
Hashed(record) ==
    <<record.id, record.type, record.artifact, record.source, record.proposal,
      record.result>>

AuditHash(record) == Append(record.previous, Hashed(record))

\* What _append_record makes of the entries handed to it one after the other.
Chained(entries) ==
    LET Numbered(i) ==
            [id |-> i, type |-> entries[i].type, artifact |-> entries[i].artifact,
             source |-> entries[i].source, proposal |-> entries[i].proposal,
             result |-> entries[i].result]
        Hash(n) == [i \in 1 .. n |-> Hashed(Numbered(i))]
    IN  [i \in DOMAIN entries |->
           [id |-> i, type |-> entries[i].type, artifact |-> entries[i].artifact,
            source |-> entries[i].source, proposal |-> entries[i].proposal,
            result |-> entries[i].result, previous |-> Hash(i - 1), hash |-> Hash(i)]]

LastAuditHash(records) ==
    IF records = <<>> THEN Genesis ELSE records[Len(records)].hash

\* A proposal is numbered as its id is, a decision as the proposal it is on.
AuditEntry(type, artifact, number, result) ==
    [type |-> type, artifact |-> artifact, source |-> number, proposal |-> number,
     result |-> result]

\* build_audit_records: every proposal, every decision, the two reports.
BuildAuditRecords(proposals, statuses, report, contract) ==
    Chained(
      [i \in 1 .. proposals |->
         AuditEntry("proposal", "live_manager_proposal.json", i,
                    "recorded_for_review_only")]
        \o [i \in DOMAIN statuses |->
              AuditEntry("decision", "live_opt_in_decisions.jsonl", i, statuses[i])]
        \o <<AuditEntry("readiness report", "live_readiness_report.json", 0, report),
             AuditEntry("contract report", "contract_report.json", 0, contract)>>)

\* validate_audit_records: the kinds of error found in record i, given the
\* files that exist and the ids of the proposals and decisions on disk.
RecordErrors(records, i, files, proposalIds, decisionIds) ==
    LET r == records[i]
        previous == IF i = 1 THEN Genesis ELSE records[i - 1].hash
    IN  (IF r.id # i THEN {"audit_id"} ELSE {})
          \cup (IF r.previous # previous THEN {"previous hash"} ELSE {})
          \cup (IF r.hash # AuditHash(r) THEN {"audit hash"} ELSE {})
          \cup (IF r.artifact \notin files THEN {"missing source artifact"} ELSE {})
          \cup (IF r.type = "proposal" /\ r.source \notin proposalIds
                  THEN {"missing proposal"} ELSE {})
          \cup (IF r.type = "decision" /\ r.source \notin decisionIds
                  THEN {"missing decision"} ELSE {})
          \cup (IF r.type = "decision" /\ r.proposal \notin proposalIds
                  THEN {"provenance proposal"} ELSE {})

\* hash_chain_valid and source_links_valid are both "no error of any kind".
AuditErrors(records, files, proposalIds, decisionIds) ==
    UNION {RecordErrors(records, i, files, proposalIds, decisionIds) :
             i \in DOMAIN records}

-----------------------------------------------------------------------------
(* The external store.                                                     *)

Refused == {"store_unavailable", "write_rejected", "duplicate_audit_id",
            "missing_source_artifact_link", "hash_chain_mismatch"}

\* Which check of append refuses the record, in the order they are made.
Answer(store, record, available, rejecting) ==
    IF ~available THEN "store_unavailable"
    ELSE IF rejecting THEN "write_rejected"
    ELSE IF \E i \in DOMAIN store : store[i].id = record.id THEN "duplicate_audit_id"
    ELSE IF record.artifact = "" THEN "missing_source_artifact_link"
    ELSE IF record.previous # LastAuditHash(store) THEN "hash_chain_mismatch"
    ELSE IF record.hash # AuditHash(record) THEN "hash_chain_mismatch"
    ELSE "append_only_write_accepted"

\* What append leaves of a store that is up and takes writes.
Stored(store, record) ==
    IF Answer(store, record, TRUE, FALSE) = "append_only_write_accepted"
      THEN Append(store, record) ELSE store

ReadBack(store, id) == {store[i] : i \in {j \in DOMAIN store : store[j].id = id}}

\* build_external_audit_store_contracts: two accepted appends that are read
\* back, then the six failures; the accepted flag of those is written down as
\* FALSE whatever the store answered.
StoreDecisions(log) ==
    LET one == Stored(<<>>, log[1])
        two == Stored(one, log[2])
        Kept(store, record, answer) ==
            [accepted |-> /\ answer = "append_only_write_accepted"
                          /\ ReadBack(store, record.id) = {record},
             reason |-> answer]
        No(answer) == [accepted |-> FALSE, reason |-> answer]
    IN  <<Kept(one, log[1], Answer(<<>>, log[1], TRUE, FALSE)),
          Kept(two, log[2], Answer(one, log[2], TRUE, FALSE)),
          No(Answer(<<>>, log[1], FALSE, FALSE)),
          No(Answer(<<>>, log[1], TRUE, TRUE)),
          No(Answer(two, log[1], TRUE, FALSE)),
          No(IF {[r EXCEPT !.result = "tampered_after_read"] :
                   r \in ReadBack(one, log[1].id)} # {log[1]}
               THEN "read_back_mismatch" ELSE "read_back_unexpectedly_matched"),
          No(Answer(<<>>, [log[2] EXCEPT !.previous = <<"f">>], TRUE, FALSE)),
          No(Answer(<<>>, [log[1] EXCEPT !.artifact = ""], TRUE, FALSE))>>

StoreContractsOk(log, required) ==
    LET decisions == StoreDecisions(log)
    IN  /\ Cardinality({i \in DOMAIN decisions : decisions[i].accepted}) = 2
        /\ Refused \cup {"read_back_mismatch"}
             \subseteq {decisions[i].reason :
                          i \in {j \in DOMAIN decisions : ~decisions[j].accepted}}
        /\ \A i \in DOMAIN log : log[i].artifact \in required

=============================================================================
