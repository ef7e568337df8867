----------------------------- MODULE PackageRuns -----------------------------
(***************************************************************************)
(* The commands that run other commands and go by what they print:         *)
(* run_human_review_package ("review", phase 11) runs the phase 10 command,*)
(* run_auditor_handoff_package ("handoff", phase 12) runs the former, and  *)
(* run_all_smokes ("all") runs one smoke after the other.  Any other smoke *)
(* is a "leaf"; of it nothing is used but SmokeContract, which PhaseRuns   *)
(* implements.                                                             *)
(*                                                                         *)
(* A caller waits for the command it runs, so the commands form a stack and*)
(* only its top moves.  A leaf names its directory by the second it reads  *)
(* from the clock when its main begins, the three others by the            *)
(* microsecond.                                                            *)
(***************************************************************************)
EXTENDS ReviewPackages

CONSTANTS
    Smokes,     \* SMOKES of run_all_smokes, a sequence of kinds
    Removals,   \* the sets of files that somebody may take away before they are copied
    MaxDelay,   \* bounds the seconds that pass while one of them runs
    MaxFlips    \* bounds how often the vendored tree is changed or restored

ASSUME SmokesAssumption == Smokes \in Seq({"leaf", "review", "handoff"})
ASSUME BoundsAssumption == MaxDelay \in Nat \ {0} /\ MaxFlips \in Nat

VARIABLES
    stack,          \* the commands that run, a caller before what it called
    pc,             \* for each kind, what it does next
    ret,            \* how the last command ended that was called
    second,         \* the clock
    git, dirty, flips,
    lastStart,      \* last_child_start_second
    results,        \* what the aggregate recorded of each smoke
    aggregate,      \* aggregate_final_state.json
    leaf,           \* the number of the last leaf begun and its directory
    wrote,          \* for each second, the leaf whose final_state.json is there
    reviewDir, matrix,
    handoffDir, handoffVendor, prerequisites, manifest

tree == <<git, dirty, flips>>
all == <<lastStart, results, aggregate>>
leaves == <<leaf, wrote>>
review == <<reviewDir, matrix>>
handoff == <<handoffDir, handoffVendor, prerequisites, manifest>>
vars == <<stack, pc, ret, second, tree, all, leaves, review, handoff>>

Nothing == "nothing"
NoDir == -1         \* no directory was printed
OwnDir == 0         \* one nobody else can have
NoReturn == [who |-> Nothing, exit |-> Nothing, said |-> Nothing, dir |-> NoDir]

Seconds == 1 .. (Len(Smokes) + 1) * MaxDelay + 1

ReviewFiles == Chain \cup Phase11Artifacts
                 \cup {"phase10_final_state.json", "summary.md", "final_state.json", "raw.log"}
HandoffFiles == Required \cup {"phase11_final_state.json"}

\* dir with content in each of the files.
Writing(dir, files, content) ==
    [f \in DOMAIN dir |-> IF f \in files THEN content ELSE dir[f]]

-----------------------------------------------------------------------------
(* Calls.                                                                  *)

At(kind, label) == stack # <<>> /\ stack[Len(stack)] = kind /\ pc[kind] = label

Goto(kind, label) ==
    /\ pc' = [pc EXCEPT ![kind] = label]
    /\ UNCHANGED <<stack, ret>>

\* subprocess.run: the caller looks at the result once the called one ended.
Call(caller, callee) ==
    /\ stack' = Append(stack, callee)
    /\ pc' = [pc EXCEPT ![caller] = "check", ![callee] = "begin"]
    /\ ret' = NoReturn

Return(exit, said, dir) ==
    /\ ret' = [who |-> stack[Len(stack)], exit |-> exit, said |-> said, dir |-> dir]
    /\ stack' = SubSeq(stack, 1, Len(stack) - 1)
    /\ UNCHANGED pc

ExitCode(state) == IF state = "passed" THEN "0" ELSE "1"

\* What all three callers ask of a child.
ChildPassed == ret.exit = "0" /\ ret.said = "passed" /\ ret.dir # NoDir

-----------------------------------------------------------------------------
(* run_all_smokes.                                                         *)

\* Not in the second the smoke before it was started in.
StartSmoke ==
    /\ At("all", "wait")
    /\ Len(results) < Len(Smokes)
    /\ second # lastStart
    /\ lastStart' = second
    /\ Call("all", Smokes[Len(results) + 1])
    /\ UNCHANGED <<second, tree, results, aggregate, leaves, review, handoff>>

Record ==
    /\ At("all", "check")
    /\ results' = Append(results, [passed |-> ChildPassed, dir |-> ret.dir,
                                   leaf |-> leaf.number, started |-> lastStart])
    /\ Goto("all", "wait")
    /\ UNCHANGED <<second, tree, lastStart, aggregate, leaves, review, handoff>>

AllPassed == \A i \in DOMAIN results : results[i].passed

WriteAggregate ==
    /\ At("all", "wait")
    /\ Len(results) = Len(Smokes)
    /\ aggregate' = IF AllPassed THEN "passed" ELSE "failed"
    /\ Goto("all", "print")
    /\ UNCHANGED <<second, tree, lastStart, results, leaves, review, handoff>>

PrintTable ==
    /\ At("all", "print")
    /\ Return(ExitCode(aggregate), aggregate, OwnDir)
    /\ UNCHANGED <<second, tree, all, leaves, review, handoff>>

-----------------------------------------------------------------------------
(* A leaf.                                                                 *)

NameDirectory ==
    /\ At("leaf", "begin")
    /\ leaf' = [number |-> leaf.number + 1, dir |-> second]
    /\ Goto("leaf", "run")
    /\ UNCHANGED <<second, tree, all, wrote, review, handoff>>

\* It has written final_state.json and prints what is there.  The phase 10
\* command passes only if git could be run and found the tree clean.
LeafReturns ==
    /\ At("leaf", "run")
    /\ \E state \in {"passed", "failed", "inputs_missing"} :
         /\ state = "passed" /\ "review" \in {stack[i] : i \in DOMAIN stack} => git /\ ~dirty
         /\ Return(ExitCode(state), state, leaf.dir)
    /\ wrote' = [wrote EXCEPT ![leaf.dir] = leaf.number]
    /\ UNCHANGED <<second, tree, all, leaf, review, handoff>>

\* The handler prints the directory of the second it is by then.
LeafRaises ==
    /\ At("leaf", "run")
    /\ Return("1", "error", second)
    /\ UNCHANGED <<second, tree, all, leaves, review, handoff>>

-----------------------------------------------------------------------------
(* run_human_review_package.                                               *)

BeginReview ==
    /\ At("review", "begin")
    /\ reviewDir' = [f \in ReviewFiles |-> Absent]
    /\ Call("review", "leaf")
    /\ UNCHANGED <<second, tree, all, leaves, matrix, handoff>>

CheckPhase10 ==
    /\ At("review", "check")
    /\ Goto("review", IF ChildPassed THEN "copy" ELSE "failure")
    /\ UNCHANGED <<second, tree, all, leaves, review, handoff>>

\* _write_failure; asking git raises when git cannot be run.
RefuseReview ==
    /\ At("review", "failure")
    /\ git
    /\ reviewDir' = [reviewDir EXCEPT !["final_state.json"] = "inputs_missing",
                                      !["raw.log"] = "inputs_missing"]
    /\ Goto("review", "print")
    /\ UNCHANGED <<second, tree, all, leaves, matrix, handoff>>

RaiseReview ==
    /\ At("review", "failure")
    /\ ~git
    /\ Return("1", "error", OwnDir)
    /\ UNCHANGED <<second, tree, all, leaves, review, handoff>>

\* _copy_phase10_chain when files are gone: the rest is copied, and refused.
MissPhase10 ==
    /\ At("review", "copy")
    /\ \E gone \in Removals :
         /\ gone \cap (Chain \cup {"final_state.json"}) # {}
         /\ reviewDir' = Writing(reviewDir,
              (Chain \ gone) \cup (IF "final_state.json" \in gone THEN {}
                                   ELSE {"phase10_final_state.json", "final_state.json"}),
              "phase 10")
    /\ Goto("review", "failure")
    /\ UNCHANGED <<second, tree, all, leaves, matrix, handoff>>

\* The same when all are there: the final state of phase 10 stands in for the own one.
CopyPhase10 ==
    /\ At("review", "copy")
    /\ reviewDir' = Writing(reviewDir, Chain \cup {"phase10_final_state.json",
                                                   "final_state.json"}, "phase 10")
    /\ Goto("review", "package")
    /\ UNCHANGED <<second, tree, all, leaves, matrix, handoff>>

\* build_human_review_package, the six files, and the files again when
\* _validate_package has found errors.  The copied final state says that the
\* tree was clean, or phase 10 would not have passed.
WritePackage ==
    /\ At("review", "package")
    /\ matrix' = BlockerMatrix(OperatorDecisions, IncidentDecisions)
    /\ reviewDir' = Writing(reviewDir, Phase11Artifacts \cup {"summary.md"},
                      IF PackageValid(FALSE, matrix', reviewDir) THEN "passed" ELSE "failed")
    /\ Goto("review", "final")
    /\ UNCHANGED <<second, tree, all, leaves, handoff>>

\* mutated: left as phase 10 wrote it
KeepForeignFinal ==
    /\ At("review", "final")
    /\ Goto("review", "raw")
    /\ UNCHANGED <<second, tree, all, leaves, review, handoff>>

\* The vendor flag of this file and the log is a new answer of git that nothing
\* looks at; git can be run, or the child would not have passed.
WriteReviewFinal ==
    /\ At("review", "final")
    /\ reviewDir' = [reviewDir EXCEPT !["final_state.json"] =
                                        reviewDir["human_review_package.json"]]
    /\ Goto("review", "raw")
    /\ UNCHANGED <<second, tree, all, leaves, matrix, handoff>>

WriteReviewRaw ==
    /\ At("review", "raw")
    /\ reviewDir' = [reviewDir EXCEPT !["raw.log"] = reviewDir["human_review_package.json"]]
    /\ Goto("review", "print")
    /\ UNCHANGED <<second, tree, all, leaves, matrix, handoff>>

\* The state that was computed; raw.log holds the same one.
PrintReview ==
    /\ At("review", "print")
    /\ Return(ExitCode(reviewDir["raw.log"]), reviewDir["raw.log"], OwnDir)
    /\ UNCHANGED <<second, tree, all, leaves, review, handoff>>

-----------------------------------------------------------------------------
(* run_auditor_handoff_package.                                            *)

BeginHandoff ==
    /\ At("handoff", "begin")
    /\ handoffDir' = [f \in HandoffFiles |-> IF f = Upstream THEN "commit" ELSE Absent]
    /\ Call("handoff", "review")
    /\ UNCHANGED <<second, tree, all, leaves, review, handoffVendor, prerequisites, manifest>>

CheckPhase11 ==
    /\ At("handoff", "check")
    /\ Goto("handoff", IF ChildPassed THEN "copy" ELSE "failure")
    /\ UNCHANGED <<second, tree, all, leaves, review, handoff>>

RefuseHandoff ==
    /\ At("handoff", "failure")
    /\ git
    /\ handoffDir' = [handoffDir EXCEPT !["final_state.json"] = "inputs_missing",
                                        !["raw.log"] = "inputs_missing"]
    /\ Goto("handoff", "print")
    /\ UNCHANGED <<second, tree, all, leaves, review, handoffVendor, prerequisites, manifest>>

RaiseHandoff ==
    /\ At("handoff", "failure")
    /\ ~git
    /\ Return("1", "error", OwnDir)
    /\ UNCHANGED <<second, tree, all, leaves, review, handoff>>

\* _copy_artifact_chain when files are gone: the rest is copied, and refused.
\* reviewDir stays: it is what the child has written.
MissPhase11 ==
    /\ At("handoff", "copy")
    /\ \E gone \in Removals :
         /\ gone \cap (Chain \cup Phase11Artifacts \cup {"final_state.json"}) # {}
         /\ handoffDir' =
              [f \in HandoffFiles |->
                 IF f \in (Chain \cup Phase11Artifacts) \ gone THEN reviewDir[f]
                 ELSE IF /\ f \in {"phase11_final_state.json", "final_state.json"}
                         /\ "final_state.json" \notin gone
                   THEN "phase 11" ELSE handoffDir[f]]
    /\ Goto("handoff", "failure")
    /\ UNCHANGED <<second, tree, all, leaves, review, handoffVendor, prerequisites, manifest>>

\* The same when all are there.
CopyPhase11 ==
    /\ At("handoff", "copy")
    /\ handoffDir' =
         [f \in HandoffFiles |->
            IF f \in Chain \cup Phase11Artifacts THEN reviewDir[f]
            ELSE IF f \in {"phase11_final_state.json", "final_state.json"}
              THEN "phase 11" ELSE handoffDir[f]]
    /\ Goto("handoff", "package")
    /\ UNCHANGED <<second, tree, all, leaves, review, handoffVendor, prerequisites, manifest>>

BuildHandoff ==
    /\ At("handoff", "package")
    /\ handoffVendor' = dirty
    /\ prerequisites' = Prerequisites(matrix)
    /\ Goto("handoff", "final")
    /\ UNCHANGED <<second, tree, all, leaves, review, handoffDir, manifest>>

\* The final state and the log say "passed" before anything is validated.
WriteHandoffFinal ==
    /\ At("handoff", "final")
    /\ handoffDir' = [handoffDir EXCEPT !["final_state.json"] = "passed"]
    /\ Goto("handoff", "raw")
    /\ UNCHANGED <<second, tree, all, leaves, review, handoffVendor, prerequisites, manifest>>

WriteHandoffRaw ==
    /\ At("handoff", "raw")
    /\ handoffDir' = [handoffDir EXCEPT !["raw.log"] = "passed"]
    /\ Goto("handoff", "artifacts")
    /\ UNCHANGED <<second, tree, all, leaves, review, handoffVendor, prerequisites, manifest>>

\* write_auditor_handoff_artifacts, up to the placeholders.
WriteArtifacts ==
    /\ At("handoff", "artifacts")
    /\ handoffDir' =
         Writing(Writing(handoffDir,
           {"evidence_bundle_index.json", "retention_manifest.json",
            "auditor_handoff_package.json", "auditor_questions.md"}, "passed"),
           {"auditor_handoff_packet.md", "handoff_summary.md", "summary.md",
            "artifact_hash_manifest.json"}, "pending")
    /\ Goto("handoff", "hash")
    /\ UNCHANGED <<second, tree, all, leaves, review, handoffVendor, prerequisites, manifest>>

Rendered ==
    Writing(handoffDir, {"auditor_handoff_packet.md", "handoff_summary.md", "summary.md"},
            "passed")

\* mutated: the hashes are taken before the texts are rendered
HashThenRender ==
    /\ At("handoff", "hash")
    /\ manifest' = HashManifest(handoffDir)
    /\ handoffDir' = [Rendered EXCEPT !["artifact_hash_manifest.json"] = "passed"]
    /\ Goto("handoff", "validate")
    /\ UNCHANGED <<second, tree, all, leaves, review, handoffVendor, prerequisites>>

\* The rest of it: the texts in place of the placeholders, the hashes last.
RenderAndHash ==
    /\ At("handoff", "hash")
    /\ manifest' = HashManifest(Rendered)
    /\ handoffDir' = [Rendered EXCEPT !["artifact_hash_manifest.json"] = "passed"]
    /\ Goto("handoff", "validate")
    /\ UNCHANGED <<second, tree, all, leaves, review, handoffVendor, prerequisites>>

\* Errors are written over the package and the final state, which the manifest
\* has hashed by then; the log, the packet and the summaries keep "passed".
ValidateHandoff ==
    /\ At("handoff", "validate")
    /\ handoffDir' =
         IF OutputsValid(handoffVendor, handoffDir["human_review_package.json"],
                         prerequisites, manifest)
           THEN handoffDir
           ELSE Writing(handoffDir, {"auditor_handoff_package.json", "final_state.json"},
                        "failed")
    /\ Goto("handoff", "print")
    /\ UNCHANGED <<second, tree, all, leaves, review, handoffVendor, prerequisites, manifest>>

PrintHandoff ==
    /\ At("handoff", "print")
    /\ Return(ExitCode(handoffDir["final_state.json"]), handoffDir["final_state.json"], OwnDir)
    /\ UNCHANGED <<second, tree, all, leaves, review, handoff>>

-----------------------------------------------------------------------------
(* The environment.                                                        *)

\* The command that moves is killed; its caller gets an exit code and no lines.
\* A caller is not killed while it waits: its child would go on by itself.
KillTop ==
    /\ stack # <<>>
    /\ Return("killed", Nothing, NoDir)
    /\ UNCHANGED <<second, tree, all, leaves, review, handoff>>

Tick ==
    /\ stack # <<>>
    /\ second < lastStart + MaxDelay
    /\ second' = second + 1
    /\ UNCHANGED <<stack, pc, ret, tree, all, leaves, review, handoff>>

Flip ==
    /\ stack # <<>>
    /\ flips < MaxFlips
    /\ dirty' = ~dirty
    /\ flips' = flips + 1
    /\ UNCHANGED <<stack, pc, ret, second, git, all, leaves, review, handoff>>

Init ==
    /\ \E root \in {"all", "review", "handoff"} : stack = <<root>>
    /\ pc = [all |-> "wait", review |-> "begin", handoff |-> "begin", leaf |-> "begin"]
    /\ ret = NoReturn
    /\ second = 1 /\ lastStart = 0
    /\ git \in BOOLEAN /\ dirty \in BOOLEAN /\ flips = 0
    /\ results = <<>> /\ aggregate = Absent
    /\ leaf = [number |-> 0, dir |-> OwnDir]
    /\ wrote = [s \in Seconds |-> 0]
    /\ reviewDir = [f \in ReviewFiles |-> Absent]
    /\ matrix = MatrixOf({}, {})
    /\ handoffDir = [f \in HandoffFiles |-> Absent]
    /\ handoffVendor = FALSE /\ prerequisites = {}
    /\ manifest = [f \in Required |-> Absent]

Step ==
    \/ StartSmoke \/ Record \/ WriteAggregate \/ PrintTable
    \/ NameDirectory \/ LeafReturns \/ LeafRaises
    \/ BeginReview \/ CheckPhase10 \/ RefuseReview \/ RaiseReview \/ MissPhase10
    \/ CopyPhase10 \/ WritePackage \/ WriteReviewFinal \/ WriteReviewRaw \/ PrintReview
    \/ BeginHandoff \/ CheckPhase11 \/ RefuseHandoff \/ RaiseHandoff \/ MissPhase11
    \/ CopyPhase11 \/ BuildHandoff \/ WriteHandoffFinal \/ WriteHandoffRaw \/ WriteArtifacts
    \/ RenderAndHash \/ ValidateHandoff \/ PrintHandoff

Terminating == stack = <<>> /\ UNCHANGED vars

Next == Step \/ KillTop \/ Tick \/ Flip \/ Terminating

Spec == Init /\ [][Next]_vars /\ WF_vars(Step) /\ WF_vars(Tick)

-----------------------------------------------------------------------------
(* Properties.                                                             *)

TypeOK ==
    /\ stack \in Seq({"all", "leaf", "review", "handoff"})
    /\ second \in Seconds /\ lastStart \in 0 .. second
    /\ flips \in 0 .. MaxFlips /\ dirty \in BOOLEAN
    /\ Len(results) <= Len(Smokes)
    /\ wrote \in [Seconds -> 0 .. leaf.number]
    /\ DOMAIN reviewDir = ReviewFiles /\ DOMAIN handoffDir = HandoffFiles
    /\ DOMAIN manifest = Required
    /\ ret.exit \in {Nothing, "0", "1", "killed"}

\* The directory the aggregate records for a smoke that passed holds what that
\* smoke wrote, if it bears the second the smoke was started in.  A smoke that
\* reads the clock later may get the directory of the next one.
RecordedOutputs ==
    \A i \in DOMAIN results :
      results[i].passed /\ Smokes[i] = "leaf" /\ results[i].dir = results[i].started
        => wrote[results[i].dir] = results[i].leaf

\* A package command that returns has its own final state in the place where
\* the one of its child was copied to, it says what was printed, and the exit
\* code is 0 exactly for "passed".  The aggregate passes exactly if each of its
\* smokes did, however they ended, and its records are true.
EndsAgree ==
    /\ ret.who = "review" /\ ret.said \notin {Nothing, "error"} =>
         /\ reviewDir["final_state.json"] = ret.said
         /\ ret.exit = "0" <=> ret.said = "passed"
    /\ ret.who = "handoff" /\ ret.said \notin {Nothing, "error"} =>
         /\ handoffDir["final_state.json"] = ret.said
         /\ handoffDir["auditor_handoff_package.json"] \in {ret.said, Absent}
         /\ ret.exit = "0" <=> ret.said = "passed"
    /\ ret.who = "all" /\ ret.said # Nothing =>
         /\ aggregate = ret.said
         /\ ret.exit = "0" <=> \A i \in DOMAIN Smokes : results[i].passed
    /\ RecordedOutputs

\* The manifest of a handoff has the hash of every file it lists as the file is
\* when the command ends, but for its own, and each of them is retained under
\* exactly one group.
ManifestFits ==
    \A f \in Required :
        /\ f # "artifact_hash_manifest.json" => manifest[f] = handoffDir[f]
        /\ Cardinality(GroupsOf(f)) = 1

\* What a package that passed rests on: the files of its chain are there, the
\* phase 11 package in it passed, the tree was clean when it was built (asked
\* by the handoff only; the review goes by what phase 10 found), each blocker a
\* decision of phase 10 named is among its prerequisites, and its manifest fits.
PackageRests ==
    /\ ret.who = "review" /\ ret.exit = "0" => Missing(reviewDir) = {}
    /\ ret.who = "handoff" /\ ret.exit = "0" =>
         /\ Missing(handoffDir) = {}
         /\ handoffDir["human_review_package.json"] = "passed"
         /\ ~handoffVendor
         /\ Observed(OperatorDecisions) \cup Observed(IncidentDecisions)
              \subseteq {p[2] : p \in prerequisites}
         /\ ManifestFits

=============================================================================
