--------------------------- MODULE MCFixtureSmoke ---------------------------
(* The three turns of FIXTURE_TRANSCRIPT, one of them with a tool call.    *)
EXTENDS FixtureSmoke

MCTranscript == <<[role |-> "user", tool |-> Absent],
                  [role |-> "assistant", tool |-> "mock_lookup_account"],
                  [role |-> "assistant", tool |-> Absent]>>
=============================================================================
