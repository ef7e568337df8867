----------------------------- MODULE ObservedRun -----------------------------
(***************************************************************************)
(* A command and what it leaves in its run directory: one of the launchers *)
(* of BaselineLaunch with the tau2 process it starts, or the smoke of the  *)
(* write-intent observer.                                                  *)
(*                                                                         *)
(* In the traced process the wrappers of Environment.get_response and      *)
(* ToolKitBase.use_tool hand every dispatch to the observer before they    *)
(* call the original.  The observer writes three files.  A line whose flush*)
(* fails stays in the buffer of its file and comes out with the next one.  *)
(* A line is a kind and a row, the call and the wrapper (or the fixture) it*)
(* is about; no property is about the order of the lines of one file.      *)
(***************************************************************************)
EXTENDS ObserverCases, BaselineLaunch

CONSTANTS
    MaxCalls,       \* bounds the tool calls of the tau2 process
    MaxDeviations,  \* in how many arguments a command differs from GoodArgs
    CanFail         \* whether writes of the tau2 process and the smoke may fail

ASSUME BoundsAssumption == MaxCalls \in Nat /\ MaxDeviations \in Nat
ASSUME CanFailAssumption == CanFail \in BOOLEAN

VARIABLES
    launcher, args,     \* what was asked for
    pc,                 \* what the launcher, or the smoke, does next
    status, exit,       \* its status and exit code
    child, rc, childStatus,     \* the tau2 process
    dispatch,           \* for each simulation thread its dispatch in progress
    calls,              \* the tool calls so far and how they ended
    warning_counts, event_count,
    disk, buffer,       \* the observer's lines
    items,              \* how far the smoke has come
    files,              \* the status in each file that has one
    counted,            \* the counts in observer_final_state.json
    broken              \* a write has failed

command == <<launcher, args, pc, status, exit>>
process == <<child, rc, childStatus>>
observer == <<warning_counts, event_count, disk, buffer>>
results == <<files, counted, broken>>
vars == <<command, process, dispatch, calls, observer, items, results>>

Absent == "absent"
Partial == "partial"        \* begun and not finished
NoExit == -1
Threads == 1 .. args.concurrency
Observing == launcher = "traced" /\ args.observe

-----------------------------------------------------------------------------
(* The observer: observe_runtime_tool_dispatch.                            *)

\* A count is read and stored in two steps, once for each of the two warnings;
\* both are counted under the same phase.
StepsDiffFirst ==                       \* mutated: the diff before its ledger
    <<"read", "store", "read", "store", "diff", "diff event", "ledger", "snapshot", "candidate">>
Steps ==
    <<"read", "store", "read", "store", "ledger", "snapshot", "candidate", "diff", "diff event">>

Over == 10                  \* past the last step
EventLines == {"snapshot", "candidate", "diff event", "score"}
FileOf(kind) == IF kind \in EventLines THEN "events" ELSE kind

\* The lines that come out when one of this kind is flushed.
HeldWith(kind) == {l \in buffer : FileOf(l[1]) = FileOf(kind)}

Idle == [call |-> 0, level |-> "none", at |-> 0, seen |-> 0]

\* A tool that is not among WRITE_TOOL_HINTS is not observed.
StartAt(hinted) == IF hinted THEN 1 ELSE Over

InStep(t, kinds) ==
    child = "running" /\ dispatch[t].at \in DOMAIN Steps /\ Steps[dispatch[t].at] \in kinds

ReadCount(t) ==
    /\ InStep(t, {"read"})
    /\ dispatch' = [dispatch EXCEPT ![t].at = @ + 1, ![t].seen = warning_counts]
    /\ UNCHANGED <<command, process, calls, observer, items, results>>

StoreCount(t) ==
    /\ InStep(t, {"store"})
    /\ warning_counts' = dispatch[t].seen + 1
    /\ dispatch' = [dispatch EXCEPT ![t].at = @ + 1]
    /\ UNCHANGED <<command, process, calls, event_count, disk, buffer, items, results>>

Line(t) == <<Steps[dispatch[t].at], <<dispatch[t].call, dispatch[t].level>>>>
CountEvent(kind) == event_count' = event_count + (IF kind \in EventLines THEN 1 ELSE 0)

WriteLine(t) ==
    LET line == Line(t)
    IN  /\ InStep(t, EventLines \cup {"ledger", "diff"})
        /\ disk' = disk \cup HeldWith(line[1]) \cup {line}
        /\ buffer' = buffer \ HeldWith(line[1])
        /\ CountEvent(line[1])
        /\ dispatch' = [dispatch EXCEPT ![t].at = @ + 1]
        /\ UNCHANGED <<command, process, calls, warning_counts, items, results>>

EndCall(t, end) ==
    /\ calls' = [calls EXCEPT ![dispatch[t].call].end = end]
    /\ dispatch' = [dispatch EXCEPT ![t] = Idle]

\* mutated: the observer goes on as if the line had been written
LineSkipped(t) ==
    LET line == Line(t)
    IN  /\ InStep(t, EventLines \cup {"ledger", "diff"})
        /\ CanFail
        /\ buffer' = buffer \cup {line}
        /\ CountEvent(line[1])
        /\ dispatch' = [dispatch EXCEPT ![t].at = @ + 1]
        /\ broken' = TRUE
        /\ UNCHANGED <<command, process, calls, warning_counts, disk, items, files, counted>>

\* The observer raises into a wrapper, outside its try: the original is not
\* called.  From use_tool the exception comes to get_response, which makes an
\* error message of it, or to the evaluator; from get_response it ends the run of
\* the simulation.  Either way the tool has not run.
LineFails(t) ==
    LET line == Line(t)
    IN  /\ InStep(t, EventLines \cup {"ledger", "diff"})
        /\ CanFail
        /\ buffer' = buffer \cup {line}
        /\ CountEvent(line[1])
        /\ EndCall(t, "lost")
        /\ broken' = TRUE
        /\ UNCHANGED <<command, process, warning_counts, disk, items, files, counted>>

-----------------------------------------------------------------------------
(* The wrapped calls.                                                      *)

\* A tool call, through get_response or straight from the evaluator.
Dispatch(t) ==
    /\ child = "running" /\ Observing
    /\ dispatch[t] = Idle /\ Len(calls) < MaxCalls
    /\ \E hinted \in BOOLEAN, path \in {"response", "direct"} :
         /\ calls' = Append(calls, [hinted |-> hinted, path |-> path, end |-> "open"])
         /\ dispatch' = [dispatch EXCEPT ![t] =
              [call |-> Len(calls) + 1, at |-> StartAt(hinted), seen |-> 0,
               level |-> IF path = "response" THEN "environment" ELSE "toolkit"]]
    /\ UNCHANGED <<command, process, observer, items, results>>

\* get_response goes on to use_tool, unless make_tool_call refuses the call.
Respond(t) ==
    /\ child = "running"
    /\ dispatch[t].at = Over /\ dispatch[t].level = "environment"
    /\ \/ /\ dispatch' = [dispatch EXCEPT ![t].level = "toolkit", ![t].seen = 0,
                             ![t].at = StartAt(calls[dispatch[t].call].hinted)]
          /\ UNCHANGED calls
       \/ EndCall(t, "refused")
    /\ UNCHANGED <<command, process, observer, items, results>>

UseTool(t) ==
    /\ child = "running"
    /\ dispatch[t].at = Over /\ dispatch[t].level = "toolkit"
    /\ EndCall(t, "ran")
    /\ UNCHANGED <<command, process, observer, items, results>>

-----------------------------------------------------------------------------
(* The tau2 process: main of traced_tau2_cli and prompt_variant_tau2_cli.  *)

\* tau2 returns, exits or raises.  If the line that says that it returned cannot
\* be written, the handler says "failed" and leaves the return code at 0.
Tau2Ends ==
    /\ child = "running"
    /\ \A t \in Threads : dispatch[t] = Idle
    /\ \/ childStatus' = "passed" /\ rc' = 0 /\ UNCHANGED broken
       \/ childStatus' = "failed" /\ rc' = 1 /\ UNCHANGED broken
       \/ /\ CanFail /\ launcher # "model"
          /\ childStatus' = "failed" /\ rc' \in {0, 1} /\ broken' = TRUE
    /\ child' = IF launcher = "model" THEN "exited" ELSE "hook map"
    /\ UNCHANGED <<command, dispatch, calls, observer, items, files, counted>>

\* The finally clause: what it does after each of its steps.
After(step) ==
    CASE step = "hook map" -> IF Observing THEN "observer final" ELSE "final"
      [] step = "observer final" -> "observer close"
      [] step = "observer close" -> "final"
      [] step = "final" -> "summary"
      [] step = "summary" -> "exited"
ClosingSteps == {"hook map", "observer final", "observer close", "final", "summary"}

FileIn(step) == [s \in {"observer final", "final"} |->
                   IF s = "final" THEN "final" ELSE "observer"][step]
WritesStatus(step) == step \in {"observer final", "final"}

CloseStep ==
    /\ child \in ClosingSteps
    /\ child' = After(child)
    /\ files' = IF WritesStatus(child) THEN [files EXCEPT ![FileIn(child)] = childStatus]
                ELSE files
    /\ counted' = IF child = "observer final"
                    THEN [warnings |-> warning_counts, events |-> event_count] ELSE counted
    /\ IF child = "observer close"
         THEN disk' = disk \cup buffer /\ buffer' = {}
         ELSE UNCHANGED <<disk, buffer>>
    /\ UNCHANGED <<command, rc, childStatus, dispatch, calls, warning_counts, event_count,
                   items, broken>>

\* ... or one of them fails, and the process ends with a traceback.
CloseFails ==
    /\ child \in ClosingSteps /\ CanFail
    /\ child' = "exited" /\ rc' = 1
    /\ broken' = TRUE
    /\ files' = IF WritesStatus(child) THEN [files EXCEPT ![FileIn(child)] = Partial] ELSE files
    /\ \E flushed \in SUBSET buffer : disk' = disk \cup flushed
    /\ buffer' = {}
    /\ UNCHANGED <<command, childStatus, dispatch, calls, warning_counts, event_count,
                   items, counted>>

\* What a killed process was writing is cut off.
Killed ==
    /\ buffer' = {}
    /\ files' = IF WritesStatus(child) THEN [files EXCEPT ![FileIn(child)] = Partial] ELSE files
    /\ dispatch' = [t \in DOMAIN dispatch |-> Idle]
    /\ UNCHANGED <<launcher, args, childStatus, calls, warning_counts, event_count, disk,
                   items, counted, broken>>

KillChild ==
    /\ child \in {"running"} \cup ClosingSteps
    /\ child' = "killed" /\ rc' = 9
    /\ Killed
    /\ UNCHANGED <<pc, status, exit>>

-----------------------------------------------------------------------------
(* The launcher.                                                           *)

Goto(label) == pc' = label /\ UNCHANGED <<launcher, args>>
Quiet == UNCHANGED <<dispatch, calls, observer, items, counted, broken>>

Launch ==
    /\ pc = "decide"
    /\ status' = Decide(launcher, args)
    /\ IF status' = "ready" THEN child' = "running" /\ Goto("wait")
       ELSE UNCHANGED child /\ Goto("reconsider")
    /\ UNCHANGED <<exit, rc, childStatus, files>> /\ Quiet

Reconsider ==
    /\ pc = "reconsider"
    /\ status' = Reconsidered(launcher, args, status)
    /\ Goto("refuse")
    /\ UNCHANGED <<exit, process, files>> /\ Quiet

\* mutated: the refusal is printed and nothing else
RefuseSilently ==
    /\ pc = "refuse"
    /\ Goto("summary")
    /\ UNCHANGED <<status, exit, process, files>> /\ Quiet

\* write_refusal_artifacts, write_refusal_trace; model has write_artifacts.
Refuse ==
    /\ pc = "refuse"
    /\ files' = [files EXCEPT !["final"] = status]
    /\ Goto("summary")
    /\ UNCHANGED <<status, exit, process>> /\ Quiet

\* The process has ended in time; its output is copied.
Completed ==
    /\ pc = "wait" /\ child \in {"exited", "killed"}
    /\ status' = IF rc = 0 THEN "passed" ELSE "failed"
    /\ Goto("update")
    /\ UNCHANGED <<exit, process, files>> /\ Quiet

\* mutated: the time is not limited as long as tau2 itself runs
TimeoutInClosing ==
    /\ pc = "wait" /\ child \in ClosingSteps
    /\ child' = "killed" /\ rc' = 9
    /\ Killed
    /\ exit' = 1 /\ pc' = "ended"
    /\ UNCHANGED status

\* subprocess.run kills the process and raises TimeoutExpired, which nothing
\* catches: no status is printed and no summary written.
Timeout ==
    /\ pc = "wait" /\ child \notin {"exited", "killed"}
    /\ child' = "killed" /\ rc' = 9
    /\ Killed
    /\ exit' = 1 /\ pc' = "ended"
    /\ UNCHANGED status

\* update_runtime_final_state reads the file it adds to; model writes its own;
\* variant leaves the file as its child wrote it.
Update ==
    /\ pc = "update"
    /\ IF launcher = "traced" /\ files["final"] = Partial
         THEN exit' = 1 /\ Goto("ended") /\ UNCHANGED files
         ELSE /\ Goto("summary") /\ UNCHANGED exit
              /\ files' = IF launcher = "variant" THEN files
                          ELSE [files EXCEPT !["final"] = status]
    /\ UNCHANGED <<status, process>> /\ Quiet

\* write_wrapper_summary
WriteSummary ==
    /\ pc = "summary" /\ launcher # "smoke"
    /\ files' = [files EXCEPT !["summary"] = status]
    /\ Goto("print")
    /\ UNCHANGED <<status, exit, process>> /\ Quiet

PrintStatus ==
    /\ pc = "print"
    /\ exit' = ExitCode(launcher, status)
    /\ Goto("ended")
    /\ UNCHANGED <<status, process, files>> /\ Quiet

-----------------------------------------------------------------------------
(* The smoke: five fixtures, then a dispatch without a ledger.             *)

Runtime == Len(FixtureCases) + 1

RowOf(i) == <<i, IF i = Runtime THEN "runtime" ELSE "fixture">>
KindsOf(i) ==
    IF i = Runtime THEN <<"ledger", "snapshot", "candidate", "diff", "diff event">>
    ELSE IF FixtureCases[i].calls = <<>> THEN <<"ledger", "snapshot", "score">>
    ELSE <<"ledger", "snapshot", "candidate", "diff", "diff event", "score">>

\* The first n lines of an item, and the events among them.
LinesOf(i, n) == {<<KindsOf(i)[k], RowOf(i)>> : k \in 1 .. n}
EventsIn(i, n) == Cardinality({k \in 1 .. n : KindsOf(i)[k] \in EventLines})

WarningsOf(row) ==
    IF row[2] = "fixture" THEN Warnings(FixtureCases[row[1]]) ELSE RuntimeWarnings
WarningsIn(row) == Cardinality(WarningsOf(row))

Observe ==
    /\ pc = "observe" /\ items < Runtime
    /\ items' = items + 1
    /\ disk' = disk \cup LinesOf(items', Len(KindsOf(items')))
    /\ event_count' = event_count + EventsIn(items', Len(KindsOf(items')))
    /\ warning_counts' = warning_counts + WarningsIn(RowOf(items'))
    /\ Goto("observe")
    /\ UNCHANGED <<status, exit, process, dispatch, calls, buffer, results>>

\* The lines up to one that fails.  The warnings of a fixture are counted before
\* its last line, those of the dispatch before its first.
ObserveFails ==
    /\ pc = "observe" /\ items < Runtime /\ CanFail
    /\ LET i == items + 1
       IN  \E k \in 1 .. Len(KindsOf(i)) :
             /\ disk' = disk \cup LinesOf(i, k - 1)
             /\ buffer' = {<<KindsOf(i)[k], RowOf(i)>>}
             /\ event_count' = event_count + EventsIn(i, k)
             /\ warning_counts' = warning_counts +
                  (IF i = Runtime \/ k = Len(KindsOf(i)) THEN WarningsIn(RowOf(i)) ELSE 0)
    /\ status' = "failed" /\ broken' = TRUE
    /\ Goto("close")
    /\ UNCHANGED <<exit, process, dispatch, calls, items, files, counted>>

RowsOnDisk(kind) == {l[2] : l \in {x \in disk : x[1] = kind}}

\* validate_results; whatever it raises is a failure as well.
Validate ==
    /\ pc = "observe" /\ items = Runtime
    /\ status' = IF ResultsValid(items - 1, {r \in RowsOnDisk("ledger") : r[2] = "runtime"},
                                 {r \in RowsOnDisk("diff") : r[2] = "runtime"})
                   THEN "passed" ELSE "failed"
    /\ Goto("close")
    /\ UNCHANGED <<exit, process, files>> /\ Quiet

CloseSmoke ==
    /\ pc = "close"
    /\ disk' = disk \cup buffer /\ buffer' = {}
    /\ Goto("final")
    /\ UNCHANGED <<status, exit, process, dispatch, calls, warning_counts, event_count,
                   items, results>>

WriteSmokeFinal ==
    /\ pc = "final"
    /\ files' = [files EXCEPT !["observer"] = status]
    /\ counted' = [warnings |-> warning_counts, events |-> event_count]
    /\ Goto("summary")
    /\ UNCHANGED <<status, exit, process, dispatch, calls, observer, items, broken>>

\* observer_summary.md and raw.log
WriteSmokeSummary ==
    /\ pc = "summary" /\ launcher = "smoke"
    /\ files' = [files EXCEPT !["summary"] = status]
    /\ Goto("print")
    /\ UNCHANGED <<status, exit, process>> /\ Quiet

\* Outside the try: the smoke ends with a traceback.
SmokeFails ==
    /\ launcher = "smoke" /\ CanFail
    /\ pc \in {"close", "final", "summary"}
    /\ pc = "close" => buffer # {}
    /\ files' = IF pc = "final" THEN [files EXCEPT !["observer"] = Partial]
                ELSE IF pc = "summary" THEN [files EXCEPT !["summary"] = Partial] ELSE files
    /\ broken' = TRUE /\ exit' = 1
    /\ Goto("ended")
    /\ UNCHANGED <<status, process, dispatch, calls, observer, items, counted>>

-----------------------------------------------------------------------------
Init ==
    /\ launcher \in Launchers \cup {"smoke"}
    /\ args \in {a \in Args : /\ Cardinality(Deviations(a)) <= MaxDeviations
                              /\ launcher = "smoke" => a = GoodArgs}
    /\ pc = IF launcher = "smoke" THEN "observe" ELSE "decide"
    /\ status = "ready" /\ exit = NoExit
    /\ child = "none" /\ rc = 0 /\ childStatus = "failed"
    /\ dispatch = [t \in Threads |-> Idle]
    /\ calls = <<>>
    /\ warning_counts = 0 /\ event_count = 0 /\ disk = {} /\ buffer = {}
    /\ items = 0
    /\ files = [f \in {"final", "summary", "observer"} |-> Absent]
    /\ counted = [warnings |-> 0, events |-> 0]
    /\ broken = FALSE

Simulation(t) ==
    \/ Dispatch(t) \/ ReadCount(t) \/ StoreCount(t) \/ WriteLine(t) \/ LineFails(t)
    \/ Respond(t) \/ UseTool(t)

LauncherStep ==
    \/ Launch \/ Reconsider \/ Refuse \/ Completed \/ Timeout \/ Update \/ WriteSummary
    \/ PrintStatus
    \/ Observe \/ ObserveFails \/ Validate \/ CloseSmoke \/ WriteSmokeFinal
    \/ WriteSmokeSummary \/ SmokeFails

ChildStep ==
    (\E t \in Threads : Simulation(t)) \/ Tau2Ends \/ CloseStep \/ CloseFails \/ KillChild

Terminating == pc = "ended" /\ UNCHANGED vars

Next == LauncherStep \/ ChildStep \/ Terminating

\* Nothing is assumed of the tau2 process: it may wait for a model for ever.
Spec == Init /\ [][Next]_vars /\ WF_vars(LauncherStep)

-----------------------------------------------------------------------------
(* Properties.                                                             *)

Statuses == {"ready", "passed", "failed", "refused_missing_model", "refused_missing_ack",
             "refused_missing_provider_env", "refused_invalid_task_id",
             "refused_non_mock_domain"}

\* Every variable keeps its type.
TypeOK ==
    /\ status \in Statuses /\ exit \in {NoExit, 0, 1} /\ rc \in {0, 1, 9}
    /\ childStatus \in {"passed", "failed"}
    /\ DOMAIN dispatch = Threads
    /\ \A t \in Threads : dispatch[t].at \in 0 .. Over /\ dispatch[t].call \in 0 .. Len(calls)
    /\ Len(calls) <= MaxCalls
    /\ items \in 0 .. Runtime
    /\ disk \cap buffer = {}
    /\ \A f \in DOMAIN files : files[f] \in Statuses \cup {Absent, Partial}

\* In the files, whatever failed and whenever the process was killed, a diff has
\* its candidate and its ledger and a candidate its ledger, so that no row refers
\* to a snapshot or an intent that is not there; the observer writes them to three
\* files one after the other and never looks back.
RowsComplete ==
    /\ RowsOnDisk("diff event") \subseteq RowsOnDisk("diff")
    /\ RowsOnDisk("diff") \subseteq RowsOnDisk("candidate")
    /\ RowsOnDisk("candidate") \subseteq RowsOnDisk("ledger") \cap RowsOnDisk("snapshot")

WrappersOf(path) == IF path = "response" THEN {"environment", "toolkit"} ELSE {"toolkit"}

\* A write tool that ran was observed before, once by each wrapper it came through
\* (so twice, when it was called through get_response); any other tool never is.
\* Only a line that could not be written keeps a tool from running: that far the
\* observer "never blocks calls".
RanMeansObserved ==
    \A c \in DOMAIN calls :
        LET rows == {r \in RowsOnDisk("diff event") : r[1] = c /\ r[2] \in {"environment", "toolkit"}}
        IN  /\ calls[c].end = "ran" =>
                 {r[2] : r \in rows} = IF calls[c].hinted THEN WrappersOf(calls[c].path) ELSE {}
            /\ calls[c].end = "lost" => broken /\ calls[c].hinted
            /\ ~calls[c].hinted => rows = {}

EventsAmong(lines) == {l \in lines : l[1] \in EventLines}

\* What the ledgers among the lines warn of, each warning with its row.
WarnedAmong(lines) ==
    UNION {{l[2]} \X WarningsOf(l[2]) : l \in {x \in lines : x[1] = "ledger"}}

\* The counts in observer_final_state.json are those of the files, and never less
\* if lines were lost.  The observer counts without a lock; what makes this hold is
\* that the launchers refuse every --concurrency but 1.  (In the smoke the warnings
\* of a fixture are counted after its ledger: if lines are lost they may be fewer.)
CountsMatchFiles ==
    files["observer"] \notin {Absent, Partial} =>
        LET events == Cardinality(EventsAmong(disk))
            warned == Cardinality(WarnedAmong(disk))
        IN  /\ ~broken => counted = [warnings |-> warned, events |-> events]
            /\ events <= counted.events
            /\ launcher = "traced" => warned <= counted.warnings

\* A launcher that wrote its summary has the same status in its final state, also
\* when the tau2 process said otherwise or nothing (variant leaves the word of its
\* process, which differs only if a write failed or it was killed); it is "passed"
\* exactly if the process returned 0; the exit code tells a failure; and a refusal
\* leaves a final state although nothing ran.  A smoke fails only if a write
\* failed: the fixtures get the warnings they expect.
StatusesAgree ==
    pc = "ended" /\ files["summary"] \notin {Absent, Partial} =>
        /\ files["summary"] = status
        /\ (launcher \in {"model", "traced"} \/ (launcher = "variant" /\ child = "none"))
             => files["final"] = status
        /\ child # "none" => (status = "passed" <=> rc = 0)
        /\ exit = 0 => status # "failed"
        /\ status = "passed" => exit = 0
        /\ (~broken /\ child # "killed") =>
             /\ launcher # "smoke" => files["final"] = status
             /\ files["observer"] \in {Absent, status}
        /\ launcher = "smoke" => files["observer"] = status /\ (~broken => status = "passed")

Allowed ==
    /\ args.model /\ args.ack /\ args.key /\ args.steps
    /\ launcher # "variant" =>
         /\ args.domain = "mock" \/ args.override
         /\ args.concurrency = 1 /\ args.num_tasks # "zero" /\ ~InvalidTask(args)

\* "It refuses to run tau2 unless all of the following are true"
\* (docs/tau2_model_baseline.md): whatever combination of arguments is given, and
\* whatever the order in which a launcher looks at them, nothing that may be paid
\* for is started without model, acknowledgement and key, nor by model or traced
\* outside the mock domain without the override (variant has no such argument: it
\* always runs the airline domain); and every command so given is run.
RunsAsAllowed ==
    /\ child # "none" => Allowed
    /\ pc = "ended" /\ launcher # "smoke" /\ Allowed => child # "none"

\* A command comes to an end, even if the tau2 process does not.
CommandEnds == <>(pc = "ended")
=============================================================================
