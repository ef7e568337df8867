---------------------------- MODULE MCPackageRuns ----------------------------
(* Two plain smokes, then the package that runs the other package.          *)
EXTENDS PackageRuns

\* A report, a package, or only the final state is gone.
MCRemovals == {{"audit_log.jsonl"}, Phase11Artifacts, {"final_state.json"}}

MCSmokes == <<"leaf", "leaf", "handoff">>
=============================================================================
