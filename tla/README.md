# Verification of activegraph-tau2-bench

TLA+ models of the parts of this repository in which the order of steps decides
about correctness, TLC configurations that check them on small instances, and
TLAPS proofs of what matters most for every value of the constants. Paths below
are relative to `src/`; `tau2/` stands for `vendor/tau2-bench/src/tau2/`.

1. [The system](#1-the-system)
2. [Modules](#2-modules)
3. [Half-duplex orchestrator](#3-half-duplex-orchestrator)
4. [Batch runner and checkpoint](#4-batch-runner-and-checkpoint)
5. [Runtime tracer](#5-runtime-tracer)
6. [Gym environments](#6-gym-environments)
7. [Fixture smokes](#7-fixture-smokes)
8. [Phase commands](#8-phase-commands)
9. [Packages and the aggregator](#9-packages-and-the-aggregator)
10. [Write-intent observer and launchers](#10-write-intent-observer-and-launchers)
11. [What is proved](#11-what-is-proved)
12. [What the code does not keep](#12-what-the-code-does-not-keep)
13. [What is not modelled](#13-what-is-not-modelled)
14. [Plan](#14-plan)

To check: `tlc -config X.cfg M` for the pairs in the tables below, `tlapm M.tla`
for the `*Proofs` modules.

## 1. The system

The repository wraps the tau2 benchmark (vendored) with passive instrumentation.
A *batch* runs simulations in a thread pool. A *simulation* is a conversation of
an agent, a user and an environment of tools, driven by an *orchestrator*. The
*runtime tracer* replaces functions of tau2 by wrappers that write an event trace
and leave the program alone; two of them hand tool calls to the *write-intent
observer*. The *launchers* decide whether tau2 may be run at all and start it as
a subprocess. The *gym environments* turn one simulation into an object with
`reset()` and `step()`.

Apart from tau2, the *smokes* of phases 2 to 12 write and check artifacts without
a language model: a fixture trace, its graph, state packets and plans (phases 2 to
5), contracts, an audit trail and reviews of a live manager that does not exist
(6 to 10), and packages of all this for a reviewer (11 and 12), each phase
repeating the one before or running it as a subprocess. An *aggregator* runs them
one after the other.

| component | state | operations | talks to | what is hard |
|---|---|---|---|---|
| half-duplex orchestrator, `tau2/orchestrator/orchestrator.py` | roles, pending message, counters, `done`, reason, trajectory | `initialize`, `step`, `_check_termination`, `_finalize`, `_cleanup`, `run` | agent, user, environment (calls) | the order of reasons and limits, tool calls mixed with stops, exceptions, routing of results |
| batch runner, `tau2/runner/batch.py`, `progress.py` | executor, queue, attempts, results in memory | `run_tasks`, `run_with_retry`, hallucination retry, Ctrl-C | simulations; the checkpoint through `save_fn` and `replace_fn` | worker threads, retries, shutdown, a file shared without a lock |
| checkpoint, `tau2/runner/checkpoint.py`, `tau2/data_model/simulation.py` | `results.json`, `simulations/`, the saver's indexes | `try_resume`, `_save_*`, `_replace_*`, `_flush_index`, `Results.load` | the file system | crashes between file operations, failing writes, agreement of index and files |
| runtime tracer, `experiments/tau2_runtime_trace/` | event counter, counts, last id, file handle | `record`, the wrappers, `main` of the traced command line | every wrapped function, in the thread that calls it | an unlocked writer, failing writes, exceptions through wrappers, kills |
| gym environments, `tau2/gym/gym_agent.py` | orchestrator thread, two events, observation, next action, last run | `reset`, `step`; `generate_next_message`, `set_action`, `stop` of the agent | caller thread and orchestrator thread | signals without a common lock, threads left behind, ends that race calls |
| write-intent observer, `experiments/write_intent_observer/` | counts, three JSONL files | `observe_runtime_tool_dispatch`, `observe_case`, the smoke | called by two wrappers of the tracer | double observation, unlocked counts, rows over three files |
| baseline launchers, `scripts/run_tau2_model_baseline.py`, `run_tau2_runtime_traced_baseline.py`, `run_airline_task8_prompt_variant.py` | arguments, status, run directory | check, start, wait, copy, report | a tau2 subprocess and its files | order of the checks, timeouts, files half written by the child |
| fixture trace and graph, `experiments/trace_only/`, `activegraph_trace/` | event file; log, nodes, edges | `emit`, `ingest`, `export`, phases 2 and 3 | files | partial projection, early exits |
| state packets, `experiments/state_packets/` | packets linked by hashes | build, validate, phase 4 | the trace | what a valid chain does and does not show |
| dry-run manager, `experiments/reactive_manager/planner.py` | plans | read back, validate, plan, phase 5 | files of phases 2 to 4 | files damaged before they are read, validators that raise |
| contracts and live opt-in, `reactive_manager/guards.py`, `executor_contract.py`, `live_opt_in.py`, `live_readiness.py` | decisions | guards, gates, reports, phases 6 and 7 | git | a tree that changes between the questions, gates that mask each other |
| audit trail and external store, `audit_log.py`, `external_audit_store.py` | chained records | append, validate, phases 8 and 9 | files | tampering |
| readiness reviews, `credential_vault.py`, `sandbox_policy.py`, `operator_*.py`, `incident_response.py`, ... | none | reports of phases 8 to 10 | files | which earlier report a later one asks for |
| packages, `review_package.py`, `auditor_handoff.py`, `retention_manifest.py` | run directories | phases 11 and 12 | a subprocess each, its files | final states of others in the own place, stale hashes |
| smoke aggregator, `scripts/run_all_smokes.py` | results | run one by one, report | smokes as subprocesses, by their output | directories named by the second |
| full-duplex orchestrator and streaming participants | ticks, chunks, turn-taking state | `step` per tick | participants, environment | both participants at once, deferred tool results |
| analysis scripts, evaluator, domains, voice, knowledge, web | none between calls, or external | | | data and I/O |

What makes each correct:

* **Orchestrator.** A run that was set up ends, within its limits; its reason is
  true of its history; participants are always released; nobody speaks out of
  turn; the evaluator can replay the trajectory.
* **Batch and checkpoint.** One result per run over all sessions; good results
  are never lost or made again; disk, index and memory agree; what was cut off can
  be resumed; the batch ends.
* **Tracer.** The traced program behaves as it did without; the file nests and its
  ids are unique; the summary is that of the file.
* **Gym.** No action is lost or doubled; a replaced simulation does not reach into
  its successor; an end comes with its run; every call returns.
* **Observer and launchers.** Nothing that costs money runs without consent; a write
  tool that ran was observed; rows refer to rows that are there; counts are those of
  the files; status, files and exit code agree; a command ends.
* **Smokes.** A pass rests on what it claims to rest on; what is damaged, tampered
  with or missing shows; final state, printed state and exit code agree.

The hazards behind these, each at its line, are listed in `PROJECT.json`.

## 2. Modules

| module | content |
|---|---|
| `TurnProtocol` | abstract: who holds the floor of a conversation |
| `Orchestrator` | `BaseOrchestrator.run` with `Orchestrator`'s methods; implements `TurnProtocol` |
| `ResultStore` | abstract: one result per run, good ones stay |
| `BatchRun` | batch, retries, checkpoint, crashes, resume; implements `ResultStore` |
| `RuntimeTrace` | writer, wrappers and threads of the tracer |
| `GymEnv` | caller and orchestrator threads of the gym environment |
| `SmokeContract` | abstract: what a smoke command promises its caller |
| `TraceArtifacts` | events, graph, packets, plans and their validators, as operators |
| `FixtureSmoke` | a run of phase 2, 3, 4 or 5; implements `SmokeContract` |
| `ExecutionContracts`, `AuditTrail`, `ReviewContracts` | the decisions and reports of phases 6 to 10, as operators |
| `PhaseRuns` | a run of phase 6, 7, 8, 9 or 10; implements `SmokeContract` |
| `ReviewPackages` | the files, blockers and manifests of phases 11 and 12, as operators |
| `PackageRuns` | phases 11 and 12 and the aggregator, as a stack of subprocesses that rely on `SmokeContract` |
| `ObserverCases` | what the observer says of a case, as operators |
| `BaselineLaunch` | when a launcher runs tau2, as operators |
| `ObservedRun` | a launcher, its tau2 process, the observer in it; the observer's smoke |
| `MC*` | constants that are sets, sequences or records, for TLC |
| `OrchestratorProofs`, `BatchRunProofs`, `RuntimeTraceProofs`, `GymEnvProofs`, `FixtureSmokeProofs`, `PhaseRunsProofs`, `PackageRunsProofs`, `ObservedRunProofs` | theorems and proofs |

The components meet in the following places, and each model takes the other side
as it may behave: a simulation inside `BatchRun` is one attempt that returns or
raises (which is what `Orchestrator` shows of a run: it returns or raises, and
releases its participants); the orchestrator inside `GymEnv` is reduced to turns
of the player, the end and exceptions; the calls that `RuntimeTrace` wraps form
the call tree of `run_tasks`, with the rule that the executor is shut down with
`wait=True`; `ObservedRun` takes up the two wrappers of `RuntimeTrace` that call the
observer, and the end of the traced process; `PackageRuns` uses of a smoke no more
than `SmokeContract`, which `FixtureSmoke` and `PhaseRuns` are shown to implement.

Operators marked `\* mutated` are not part of the specifications: they are the
plausible mistakes against which the properties were tried.

## 3. Half-duplex orchestrator

`Orchestrator.tla`. One behaviour is one simulation attempt.

| code | model |
|---|---|
| `self.from_role`, `to_role`, `message`, `step_count`, `num_errors`, `done`, `termination_reason` | variables of the same names |
| `self.trajectory` | `trajectory`: role and number of calls of each message |
| arguments of `__init__` that steer the loop | `setup` |
| place in `run()` | `phase`: `new`, `loop`, `check`, `returned`, `raised` |
| elapsed time | `expired`, may become true at any check when there is a timeout |
| `agent.stop`, `user.stop` | `stopped` |
| `initialize` | `InitializeFresh`, `InitializeSolo`, `InitializeAfterText`, `InitializeAfterTool`, `InitializeRaises` |
| `step` | `ParticipantTurn` (both directions), `EnvironmentTurn`, `StepRaises` |
| `_check_termination`, `_check_timeout` | `CheckTermination` |
| `_finalize`, `_cleanup` | `Finalize`, `StopBoth` |

A message is the number of its tool calls, whether it has text and whether the
text carries the stop token. Participants answer with any such message their
class can produce, or raise; every call of a message may fail.

| run | module, config | states | shows |
|---|---|---|---|
| `orchestrator` | `MCOrchestrator`, `MCOrchestrator.cfg` | 28 870 | all properties below, for every setup |

* `ReasonHonest`: the reported reason is one the history bears out, under the
  code's precedence; in particular a timeout never hides a stop or a protocol error of
  its turn.
* `RefusalOnlyOnMixedStop`: the `ValueError` of `_finalize` has exactly one cause.
* `StopIsReplayable`: after a stop, every tool call of the trajectory is followed by
  its answers, which `Environment.set_state` needs; the exception is the one the
  code marks with FIXIT.
* `LoopReleases` (liveness): once in the loop, the run ends and both participants
  have been stopped.
* `FollowsProtocol`: the loop implements `TurnProtocol` under the mapping
  floor = `to_role`, caller = `from_role` while the environment is to answer.

`LimitsHold` (at most one tool step beyond `max_steps`, and errors only beyond
`max_errors` by the calls of one message) and `ReasonSticky` (only the two hard
limits overwrite a recorded reason) are theorems (section 11) and not part of a run.

*Bounds.* `MaxSteps = 4` covers a tool call of either participant at every position,
a participant's second call after a first answer and the step beyond the limit;
`MaxErrors = 2` and `MaxCalls = 2` let one message jump over the error limit and stop
short of it. *Fairness.* `WF_vars(Next)`: one thread, no lock, no waiting; the
participants and tools return or raise. Deadlock is checked: a finished run
stutters by `Finished`.

## 4. Batch runner and checkpoint

`BatchRun.tla`. One behaviour is a batch over several processes on one disk.

| code | model |
|---|---|
| `results.json` | `meta` (absent, torn, ok) and `index` |
| files of `simulations/`, or the list in the single file | `sims`; a temporary file: `stray` |
| `_saved_keys`, `_key_to_sim_id` | `known` |
| `_index_by_id` | `entries` |
| `simulation_results.simulations` | `memory` |
| the lock of `create_checkpoint_fns` | `lock` |
| `_run_tracked` for one (trial, task, seed) | `runs[k]` |
| `results_user_hallucination.json` | `discarded` |
| `try_resume` | `BeginCreate`, `EndCreate`, `Resume`, `ResumeFails`, `UnlinkFailed`, `BeginRewrite`, `EndRewrite` |
| `run_with_retry`, `_execute` | `Start`, `ExecuteOk`, `ExecuteFails` |
| the hallucination retry | `Check`, `ReadDiscarded`, `TruncateDiscarded`, `AppendDiscarded` |
| `_save_dir`, `_save_json`, `_replace_dir`, `_replace_json`, `_flush_index` | `SkipDuplicate`, `BeginSave`, `BeginReplace`, `WriteReplacement`, `Rename`, `Flush`, `StoreFails` |
| `as_completed`, shutdown, Ctrl-C, `os._exit` | `Collect`, `RunRaised`, `Finish`, `Interrupt`, `Die`, `Restart` |

A result is its key, its number among the results made for the key and its kind:
good, hallucinated or the placeholder of an infrastructure failure. A failing
write removes its temporary file; `Die` leaves everything where it is, also in the
middle of the operations named in `CrashIn`. The hallucination check asks a language
model (`hallucination_reviewer.py:196`) and may raise, which ends the batch.

`HallucinationsRetried` is about the results on disk that the running process made:
a hallucinated one is there after its check only when its attempts are used up.

| run | config of `BatchRun` | states | shows |
|---|---|---|---|
| `batch_json` | `MCBatchRunJson.cfg` | 601 053 | single file, failing writes, kills while storing: `CompletedOnDisk`, `HallucinationsRetried`, `Resumable`, `BatchEnds` |
| `batch_dir` | `MCBatchRunDir.cfg` | 117 522 | directory, kills anywhere: `OnePerKey`, `ReturnedComplete`, `KeepsGoodResults` |
| `batch_dir_writes` | `MCBatchRunDirWrites.cfg` | 252 571 | directory, failing writes, one session: `IndexInSync` |
| `batch_dir_kill` | `MCBatchRunDirKill.cfg` | counterexample | `Resumable` does not hold of a killed directory (section 12) |

The runs take `MCBatchRun`, which adds nothing to `BatchRun`. *Bounds.* Two runs are
enough for every race: they meet at the lock, in the index and in the discarded
file. One retry and one hallucination retry allow each "last one" and "one more"
case; two sessions allow one crash and one resume, and the second session starts
from every state the first can leave. *Fairness* (only `batch_json`): weak
fairness of the start-up, of each run and of `Finish`; the pool's threads run and `main` waits for them, while `Die`, `Interrupt` and `Restart`
need not happen. A run waiting for the lock is helped because its holder is; each
run contends at most a bounded number of times, so weak fairness is enough.

`KeepsGoodResults` is refinement of `ResultStore`. While `try_resume` has emptied
`results.json` and not yet filled it, the mapping looks at memory, so that only
losing the process there breaks the promise. In the directory format, where the run
checks it, the results are in files of their own and cannot be lost so; the single
file can (section 12).

## 5. Runtime tracer

`RuntimeTrace.tla`. One behaviour is one traced process.

| code | model |
|---|---|
| `_counter`, `event_counts`, `last_event_id` | `counter`, `event_counts`, `last_event_id` |
| the handle of `runtime_events.jsonl` | `buffer` (written, not flushed) and `file` |
| `runtime_trace_final_state.json` | `final_counts` |
| Python frames of wrapped calls | `stack[t]`, with the stage of each wrapper |
| `record` | `rec[t]`, actions `Write`, `WriteFails`, `ReadCount`, `StoreCount` |
| the `_wrap_*` functions | `AfterRecord`, `AfterFailure`, `AfterBody`, `Leave` |
| `HOOK_MAP` and what the hooked functions call | `Kinds`, `Callees` |
| the `parent_event_id` of a line | `ParentOf`; the bootstrap's end names none |
| `main` of `traced_tau2_cli.py`, Ctrl-C outside of `run_tasks`, `os._exit` | `Finish`, `Interrupt`, `Kill` |

Taking an id is one step, because the interpreter (CPython 3.12 with its global
lock) does not switch threads between the increment and the use of the counter;
raising a count is two, because there is a call in between.

| run | config of `MCRuntimeTrace` | states | shows |
|---|---|---|---|
| `trace` | `MCRuntimeTrace.cfg` | 204 287 | one simulation at a time, every hook: `SummaryExact`, `Bracketed`, `OnlyOpenLackEnds`, `EveryStartEnds` |
| `trace_threads` | `MCRuntimeTraceThreads.cfg` | 472 403 | two workers, failing writes: `UniqueIds`, `BatchEncloses`, `ChildAfterStart`, `RaisesPropagate` |

* `SummaryExact`: counts and last id are those of the file; `UniqueIds`: no id twice.
* `Bracketed`, `ChildAfterStart`: an end, or any other line that belongs to a call,
  follows the start of that call, and calls nest. A line belongs to the call whose
  start it names as its parent; only the bootstrap's end is told by its type.
* `OnlyOpenLackEnds`: at every moment, so also where a kill or Ctrl-C cuts the process
  off, the starts without an end in the file are those of calls that are still open.
  The wrappers write an end in `except Exception`, which `KeyboardInterrupt` passes.
* `EveryStartEnds` (liveness): the process ends; if by itself, every start has its end
  and the final state has the counts of the file. After a kill or Ctrl-C only
  `OnlyOpenLackEnds` is promised.
* `BatchEncloses`: what workers record lies between start and end of the batch.
* `RaisesPropagate`: what a wrapped call raises is raised by its wrapper, also when the
  trace cannot be written. `NothingAdded`, the converse where no write fails, is part of
  the same theorem (section 11) and not of a run, nor is `CountsNeverExceed`: a count
  may be lost to a race of two threads, but none is invented.

*Bounds.* Eight calls reach every kind of call in one simulation, nested to the
depth bootstrap, batch, simulation, execution, run, turn, dispatch, tool. With two
workers only the bootstrap, the batch and the simulations are hooked: the races are
those of two `record`s in any order, whatever they record. *Fairness* (`trace`
only): every thread runs and every call ends; a kill or Ctrl-C may come at any time
and need not come.

## 6. Gym environments

`GymEnv.tla`. One behaviour is one environment object, from its construction over
several resets; `UserGymEnv` and `GymUser` repeat the code of `AgentGymEnv` and
`GymAgent` for the other participant.

| code | model |
|---|---|
| a call holding the environment's lock | `caller` (place), `reply` (what it returns) |
| `_orchestrator`, `_agent`, `_orchestrator_thread` | `current`, the number of the simulation |
| `_simulation_run`, `_simulation_done` | `run`, `done` |
| `_agent_turn_finished`, `_next_action`, `_observation` | `finished`, `next`, `observation` of `sims[g]` |
| `generate_next_message` | `TurnStarts`, `Publish`, `Wake`, `Take` |
| `stop` of the agent, end of `run()` | `Finalizes`, `OrchestratorRaises` |
| `_run_orchestrator` | `StoreRun`, `SignalDone` |
| `reset` | `ResetStart`, `ResetSpawn`, `ResetFails`, then the common end |
| `step` | `StepUnready`, `StepAfterEnd`, `StepUnparsed`, `StepStart`, `SetAction`, `ActionRefused`, then the common end |
| polling, and the reads that follow it | `Poll`, `ReadDone`, `ReadObservation`, `Reward` |

Actions are numbered in the order in which they are set, an observation is the
turn whose history it shows. `given`, `taken` and `last` count them for the properties.
Simulations that a reset left behind keep their threads.

| run | module, config | states | shows |
|---|---|---|---|
| `gym` | `GymEnv`, `MCGymEnv.cfg` | 3 081 | `ActionsTakenOnce`, `EndComesWithRun`, `AtMostOneTurnOld`, `CallsReturn` |

*Bounds.* Two simulations, because a thread left behind can only meet its direct or
a later successor, which are alike to it; three turns, so that an observation can be
one turn old and could be two. *Fairness.* Calls run on and so does each thread:
nothing in the code waits but the two events and the agent's lock, which is held
for a few assignments; participants and tools return or raise. The caller need not
call again. Deadlock is checked.

## 7. Fixture smokes

`FixtureSmoke.tla` over `TraceArtifacts.tla`. One behaviour is one run of
`run_trace_smoke`, `run_activegraph_trace_smoke`, `run_state_packet_smoke` or
`run_reactive_manager_dry_run`.

| code | model |
|---|---|
| the ids `main()` holds, `latest_parent` | `held` |
| `events.jsonl`; the store's `_events`, `_nodes`, `_edges` | `lines`; `log`, `nodes`, `edges` |
| `activegraph_trace.json`, `state_packets.jsonl`, the plan files | `trace`, `packets`, `plans`; the files as such: `dir` |
| `final_state.json`, the printed status, the exit code | `final`, `printed`, `exit` |
| each `emit()` of `main()` with the store's `ingest` | `EmitTrace`, `EmitGraph`, `EmitPackets`, `EmitDryRun` |
| `export`, `build_state_packets`, `validate_state_packets` | `Derive`, `BuildPacket`, `WritePackets` |
| reading back, `build_replay_plan`, `build_fork_plan`, `build_diff_report`, validators | `ReadAndPlan`, `PlanDiff`, `Validate` |
| early exits, the handler around `main()` | `EarlyTrace` ..., `EarlyRaw`, `EarlySummary`, `Handle` |

A hash is the sequence of what was hashed, so that two hashes are equal exactly if
their inputs are. `Damage` changes one of the three files of the dry run before it
is read: a line lost, doubled, moved, or one field altered.

| run | config of `MCFixtureSmoke` | states | shows |
|---|---|---|---|
| `fixture` | `MCFixtureSmoke.cfg` | 16 218 | `GraphFaithful`, `AcceptedOnlyAsWritten`, `Contract` |

* `GraphFaithful`: nodes, edges and log fit each other after every single event.
* `AcceptedOnlyAsWritten`: a dry run that passes read the events, the packets and, of the
  projection, the event log, the counts and the adapter's statement as they were
  written, and its plans follow them. Nodes and edges of the projection are asked for
  their type only, so that a loss of them passes (section 12).
* `Contract` (refinement of `SmokeContract`, with liveness): the final state is written
  once, printed as written, and the exit code tells it; the run ends.

*Bounds.* The transcript is the one of the fixture (three turns, one tool call, 18
events), which is all the program ever emits; one damage, since every validator
compares line by line. *Fairness.* `WF_vars(Step)`: one process without waiting. A
kill or a damage need not happen. `CHECK_DEADLOCK FALSE`: a run that has ended stops.

## 8. Phase commands

`PhaseRuns.tla` over `ExecutionContracts.tla`, `AuditTrail.tla` and
`ReviewContracts.tla`. One behaviour is one run of the command of phase 6
(`run_reactive_manager_contracts`), 7 (`run_live_manager_opt_in_contracts`), 8
(`run_live_readiness_audit`), 9 (`run_external_readiness_contracts`) or 10
(`run_operator_incident_readiness`).

| code | model |
|---|---|
| `emit_fixture_artifacts`, `build_phase5_artifacts` | `Emit`, `Plan`; what they find is `upstream` and `sound`. Missing symbols or invalid packets are told after the four files were written (`RefuseFixture`) |
| requests, guards, both executors, `contract_report.json` | `DecideRequest`, `ReportContract` |
| proposals, gates, `live_readiness_report.json` | `Propose`, `WriteOptIn`, `DecideOptIn` |
| audit log, policies, audit report | `Audit` |
| phase 9, phase 10 | `External`, `Operator` |
| `git status` of the vendored tree, asked by every guard | `dirty`, which `Flip` changes between the questions; `git` whether it can be run at all |
| final state, summary, log, printed status; the handler | `WriteFinal`, `WriteSummary`, `WriteRaw`, `PrintAndReturn`; `Raise` |

Every guard and gate is a field of a record of Booleans, computed from the fields
of the request or proposal it looks at; the fixtures are the five requests and nine
proposals of the code.

| run | config of `MCPhaseRuns` | states | shows |
|---|---|---|---|
| `phases` | `MCPhaseRuns.cfg` | 26 786 | `RefusedForItsReason`, `PassRests`, `AuditEvident`, `Contract` |

* `RefusedForItsReason`: each bad fixture trips the gate it was made for. The reports
  only count refusals, and a dirty tree refuses everything.
* `PassRests`: what exit code 0 implies, phase by phase. That the contract report
  passed is implied up to phase 7 only: later phases do not ask (section 12).
* `AuditEvident`: the audit log tells the decisions and validates; a record that is
  repeated, taken out from before the last, changed with its hash left as it was, or
  changed with its hash remade where a record follows, makes it invalid. The hashes have
  no key: whoever remakes those of all records that follow, or cuts off the last ones,
  is not seen (section 12).
* `Contract`: as for the fixtures.

*Bounds.* `MaxFlips = 2`: the tree may be dirty for any stretch of the questions and
clean before and after. *Fairness.* `WF_vars(Step)`, as above.

## 9. Packages and the aggregator

`PackageRuns.tla` over `ReviewPackages.tla`. One behaviour is a call of
`run_human_review_package` (phase 11, which runs the phase 10 command),
`run_auditor_handoff_package` (12, which runs phase 11) or `run_all_smokes`.

| code | model |
|---|---|
| nested `subprocess.run` | `stack`; `Call`, `Return`; what the caller parses from the output is `ret` |
| any other smoke | `NameDirectory`, `LeafReturns`, `LeafRaises`: what `SmokeContract` allows |
| `run_all_smokes.main` | `StartSmoke`, `Record`, `WriteAggregate`, `PrintTable` |
| phase 11 | `BeginReview` ... `PrintReview`, one action per group of writes; `MissPhase10` if a file to copy is gone |
| phase 12 | `BeginHandoff` ... `PrintHandoff`; `MissPhase11` |
| the clock directories are named by | `second`, `Tick` |
| contents of the run directories | `reviewDir`, `handoffDir`: for each file the state it tells |

| run | config of `MCPackageRuns` | states | shows |
|---|---|---|---|
| `packages` | `MCPackageRuns.cfg` | 583 945 | `EndsAgree`, `PackageRests` |

* `EndsAgree`: when a package command returns, the `final_state.json` in its directory
  is its own and not the copy of its child's, it says what was printed, and the exit
  code follows; the aggregate passes exactly if every smoke did, and records for a
  smoke what it wrote, if the smoke named its directory in the second it was started in.
* `PackageRests`: a package that passed is complete, was built from a passed review, the
  handoff also with a clean tree at its own question, names every blocker of the decisions below it, and each hash of its
  manifest is the hash of the file as it is in the end.

*Bounds.* Two plain smokes before the handoff package: two are needed for a directory
to be shared, and the package brings its own nested ones. One second may pass while
a smoke runs, so that it may or may not read the second it was started in. The tree
changes once, and before they are copied, files of a child may be taken away: one, the
final state, or all of a group (`Removals`). The run checks no liveness: every wait is for a child, whose end
`Contract` and `CommandEnds` show.

## 10. Write-intent observer and launchers

`ObservedRun.tla` over `ObserverCases.tla` and `BaselineLaunch.tla`. One behaviour is
a command: one of the three launchers with its tau2 process, or the observer's smoke.

| code | model |
|---|---|
| arguments and environment of a launcher | `args`; the checks in their order: `Checks` |
| `status`, the exit code | `status`, `exit` |
| status in `*_final_state.json` and the summaries | `files` |
| the tau2 process: running, closing, ended | `child`, `rc`, `childStatus` |
| a dispatch in one of the two wrappers | `dispatch[t]`; `calls` remembers how it ended |
| `warning_counts`, `event_count` | variables of these names; a count is read and stored in two steps |
| the three JSONL files | `disk`, and `buffer` for a line whose flush failed |
| `observe_runtime_tool_dispatch` | `ReadCount`, `StoreCount`, `WriteLine`, `LineFails` over `Steps` |
| `get_response`, `use_tool` with their wrappers | `Dispatch`, `Respond`, `UseTool` |
| `main` of the traced command lines with its `finally` | `Tau2Ends`, `CloseStep`, `CloseFails`, `KillChild` |
| `main` of the launchers | `Launch`, `Reconsider`, `Refuse`, `Completed`, `Timeout`, `Update`, `WriteSummary`, `PrintStatus` |
| the smoke | `Observe`, `ObserveFails`, `Validate`, `CloseSmoke`, `WriteSmokeFinal`, `WriteSmokeSummary`, `SmokeFails` |

| run | config of `MCObservedRun` | states | shows |
|---|---|---|---|
| `observer` | `MCObservedRun.cfg` | 788 016 | all properties below |

* `RowsComplete`: a diff has its candidate and its ledger, whatever failed and whenever
  the process was killed.
* `RanMeansObserved`: a write tool that ran was observed before, once by each wrapper
  it came through; only a failing write of the observer keeps a tool from running.
* `CountsMatchFiles`: the counts in the final state are those of the files; when lines
  were lost, the warnings of the traced process may exceed them, those of the smoke are
  not looked at. The unlocked
  counts are safe only because the launchers refuse any concurrency but 1; the mutant
  that drops this check breaks the property.
* `StatusesAgree`: summary, final state and exit code do not contradict each other, and
  where tau2 ran, the printed status is `passed` exactly if tau2 returned 0. The prompt
  variant's own final state is left out where a write failed or tau2 was killed: there it
  may disagree with the summary.
* `RunsAsAllowed`: no combination of arguments starts a run without model,
  acknowledgement and key, or outside the mock domain without the override; and every
  allowed command runs. The prompt variant always runs the airline domain, so the clause
  about the mock domain is for the other two.
* `CommandEnds` (liveness).

*Bounds.* Command lines that differ from a good one in at most two arguments: a check
masks another only in pairs. Two tool calls, each with two wrappers: rows of one
call between rows of another, a failed line before a good one. *Fairness.*
`WF_vars(LauncherStep)` alone: the tau2 process may hang for ever; what ends the
command is the timeout of `subprocess.run`. The launchers' own writes are taken to
succeed.

## 11. What is proved

Every theorem says `Spec => []P`, an action property or a refinement, without fairness,
for all values of the constants that satisfy the module's assumption
(`OrchestratorAssumption`, `BatchAssumption`, `RuntimeTraceAssumption`, `GymAssumption`,
`FixtureAssumption`, `MaxFlipsAssumption`, `SmokesAssumption`; those about `ObservedRun` need none). The
assumptions say what the code enforces on its parameters (limits of at least one, a solo
agent that can stop), that the executor has a finite number of threads
(`max_concurrency`), that the transcript of a fixture has a turn, and what tells apart
model values. Some theorems have a hypothesis of their own, because outside of it the
code does not keep the property:

* `Lossless`: the checkpoint is a single file, or no write fails. In the directory format
  a result may be stored and marked while its line in the index is not written
  (`checkpoint.py:316`, section 12), and the retry's result is then skipped.
* `Careful`: the single file where the process dies in no rewrite, or no failing write and
  no death inside a file operation. Outside of it a checkpoint may not load again: a death
  in the rewrite in place (`checkpoint.py:208`), and in the directory format what
  `batch_dir_kill` shows.
* `WholeRewrite`: the process does not die in the rewrite in place of the single file.
* `Format = "dir"` for `IndexInSync`, since the other format has no index.
* No failing write for `Bracketed` and `OnlyOpenLackEnds`: a line that cannot be written is missing, so its
  partner has none. One worker besides for `SummaryExact`: the counts are not locked.

| theorem | property | argument |
|---|---|---|
| `OrchestratorProofs!TypeCorrect` | `TypeOK` | one case per action |
| `OrchestratorProofs!LimitsKept` | `LimitsHold` | with `Room`: how much of the limits is left at each place of the loop. `LimitsHold` alone is not inductive: it does not say that a step begun with the environment to answer started below the limit |
| `OrchestratorProofs!RoutingHolds` | `RoutingTotal`: the two routing exceptions of `step` are unreachable | `Routed` extends it to the moment before the termination check |
| `OrchestratorProofs!Implements` | `FollowsProtocol` | each step is a step of `TurnProtocol` or a stutter, from `Routed` |
| `OrchestratorProofs!ReasonIsHonest` | `ReasonHonest` | `ReasonInv`: an ended run has a reason, and the reason is borne out by the message or the counter that caused it, at every place of the loop; where a timeout is still to be told, the turn has given no reason of its own (`TurnBears`, `LimitBears`, `BeforeCheck`, `FloorAtLimit`) |
| `OrchestratorProofs!RefusalExplained` | `RefusalOnlyOnMixedStop` | from `ReasonInv`: who is addressed by the last message when `_finalize` runs |
| `OrchestratorProofs!ReasonStays` | `ReasonSticky` | an action property, from `ReasonInv`: a run with a reason makes no further turn, so only `_check_termination` still writes one, and it writes the timeout only where no reason is yet |
| `OrchestratorProofs!StopsReplay` | `StopIsReplayable` | `Recorded`: at every place of the loop the trajectory is a sequence of tool calls each followed by its answers, except for the calls of its last message, and the pending message is that one. `StopIsReplayable` speaks of the end only, where nothing is known of the calls before; so does the theorem |
| `BatchRunProofs!TypeCorrect` | `TypeOK` | with `RetriesLeft`, `OwnKey`, `ReplacesLater`: retries stay within their limit because a discarded result had one left |
| `BatchRunProofs!NoDuplicates` | `OnePerKey` | `StoredInv`: nothing stored before the checkpoint exists; the saver knows what is stored for each run it executes; from the look-up to the rename the place of a result stays free; what a resume writes back has no doubles. Holds for both formats, with failures and crashes anywhere |
| `BatchRunProofs!CompletedAreStored` (`Lossless`) | `CompletedOnDisk` | `DoneInv`: what is on disk, in memory and known to the saver at each place of a run (`Storage`, `Verdict`, `MemoryInv`, `KnownInv`). A run that was collected passed the place where its result was on disk, and what leaves the disk leaves it only to be replaced by a run that is not collected yet |
| `BatchRunProofs!ReturnsComplete` (`Lossless`) | `ReturnedComplete` | from `DoneInv`: the batch returns only when every run is collected or was found done |
| `BatchRunProofs!HallucinationsAreRetried` (`Lossless`) | `HallucinationsRetried` | from `DoneInv`: `Verdict` has that a result that was kept was good or had no retry left, unless it was found done by a resume, which does not check, and `Storage` that the result on disk, in either format, is the one that was kept |
| `BatchRunProofs!IndexStaysInSync` (`Format = "dir"`) | `IndexInSync` | `SaverInv`: what the saver's index in memory holds between the sessions (`BootInv`), under the lock (`LockInv`) and before the first save (`FreshInv`); with failing writes and crashes anywhere |
| `BatchRunProofs!CanResume` (`Careful`) | `Resumable` | `LoadableInv`: the file is whole or not there at each place that a careful process may die at |
| `BatchRunProofs!StoreKeeps` (`Lossless`, `WholeRewrite`) | `KeepsGoodResults` | refinement of `ResultStore`: a store, a replacement and a resume's clean-up map to its actions, every other step to a stutter; `RewriteInv` has that the rewrite of a resume loses nothing but failed results |
| `RuntimeTraceProofs!TypeCorrect` | `TypeOK` | with `RecordOpen`: who is inside `record` has an open wrapper that records |
| `RuntimeTraceProofs!IdsUnique` | `UniqueIds` | `IdsInv`: no id of a written, buffered or pending line is above the counter, and none is shared |
| `RuntimeTraceProofs!ExceptionsPropagate` | `RaisesPropagate`; with it `NothingAdded` | `FramesInv`: what a frame knows of the exception of the wrapped call at each of its places, so that no place can lose or invent one |
| `RuntimeTraceProofs!ChildrenFollowStarts` | `ChildAfterStart` | `StartsInv`: the start of every frame that children can name is in the file or before them in the buffer; the bootstrap's end finds its start by the type, as there is one bootstrap. `ChildAfterStart` alone says nothing of the lines still buffered, which come out later |
| `RuntimeTraceProofs!TraceNests` (no failing write) | `Bracketed` | `NestInv`: the starts without an end of a thread are those of its stack, in its order |
| `RuntimeTraceProofs!OnlyOpenCallsLackEnds` (no failing write) | `OnlyOpenLackEnds` | from `NestInv`, of which every kill and Ctrl-C leaves the stacks as they were |
| `RuntimeTraceProofs!BatchEnclosesWorkers` | `BatchEncloses` | `BatchInv`: a worker has frames only while the main thread waits inside the batch, and has none when the batch's end is recorded |
| `RuntimeTraceProofs!CountsBounded` | `CountsNeverExceed`, in no run | `CountInv`: a count, stored or just read by a thread, is at most the number of lines written and under way |
| `RuntimeTraceProofs!SummaryIsExact` (no failing write, one worker) | `SummaryExact` | `ExactInv` over `RecordsAlone`: one `record` at a time, between whose steps counts and last id lag behind the file by exactly its line |
| `GymEnvProofs!TypeCorrect` | `TypeOK` | includes that no simulation sees more actions than turns |
| `GymEnvProofs!HandshakeHolds` | `ActionsTakenOnce` | `Handshake`: what the event, the action and the counts are at each place of the thread |
| `GymEnvProofs!ReplacedStill` | `ReplacedStandStill` | `Standing`: outside of polling, the current thread cannot go on without the caller, so a reset only ever leaves threads behind that are parked or dead |
| `GymEnvProofs!EndHasRun` | `EndComesWithRun` | `CallsInv` on top of `Standing`: `RunThere` (the run is stored before the end is signalled, and both are forgotten together) and `ReplyHolds` (what is known of the reply at each place of the call) |
| `GymEnvProofs!ObservationFresh` | `AtMostOneTurnOld` | `Shows` in `CallsInv`: the observation lags by one turn between signal and assignment, and only there |
| `GymEnvProofs!RefusalForgotten` | `RefusedOnlyWhenForgotten` | `CallsInv`: at `set_action` the thread is parked, so a refusal means it is dead, and the end unknown means that no run is there |
| `FixtureSmokeProofs!TypeCorrect` | `TypeOK` | `EmitInv`: the ids that `main()` holds are those of emitted events, so each event names an earlier one. For any transcript |
| `FixtureSmokeProofs!GraphStaysFaithful` | `GraphFaithful` | with `EmitInv`: the parent an event names is in the log, so its node is there when the edge to it is added |
| `FixtureSmokeProofs!AcceptsOnlyAsWritten` | `AcceptedOnlyAsWritten` | `OrderInv` (where the events stand that a dry run forks at), `PacketsInv` (packet i is made from event i and chained to the packet before) and `DryRunInv` (damages bring in nothing but a few values; each plan is made from the files as they are). What passes the validators then has none of these values and is in order (`LogAccepted`, `PacketsAccepted`), and the plans are those of the log (`PacketsFound`, `EventFound`, `WindowsFound`). For any transcript and number of damages, each of which is to one file: that two files are altered to agree with each other is left out. Of the projection this is about the event log, the counts and the adapter's statement: nothing that is read back depends on its nodes and edges |
| `FixtureSmokeProofs!KeepsPromise` | the safety part of `Contract` | refinement of `SmokeContract`, from `EndInv`: the writes of the final state, `PrintState`, `Handle` and `Kill` are its four actions |
| `PhaseRunsProofs!TypeCorrect` | `TypeOK` | the decisions answer their fixtures in order (`AnsweredInOrder`), which bounds them |
| `PhaseRunsProofs!BadFixturesTrip` | `RefusedForItsReason` | from `AnsweredInOrder`: each decision is the answer to its fixture with the tree clean or dirty, and for both the fixture's own gate fails (`AnswersTrip`, `ScoresTrip`) |
| `PhaseRunsProofs!PassIsEarned` | `PassRests` | `FilesInv` (the files of the stages passed are there) and `EarnedInv` (an outcome that says passed was decided with all it rests on, which nothing afterwards takes back). `External` goes on to phase 10 whatever its report says; that the report passes is `ExternalPasses`: the store contract holds of every log of phase 8. That the contract report of phase 6 passed is part of the statement up to phase 7 only |
| `PhaseRunsProofs!AuditIsEvident` | `AuditEvident` | `AuditInv`: the log stays the one of the decisions, its files exist. The rest is about the log itself: it is numbered and chained (`ChainedIsSealed`), validates (`NoErrors`), and does not once a record is changed with its old hash (`TamperedIsSeen`) or, but for the last, with a new one (`RehashedIsSeen`), taken out (`CutIsSeen`) or repeated (`RepeatedIsSeen`) |
| `PhaseRunsProofs!KeepsPromise` | the safety part of `Contract` | refinement of `SmokeContract`: `WriteFinal`, `PrintAndReturn`, `Raise` and `Kill` are its four actions, every other step stutters, from `EndInv` |
| `PackageRunsProofs!TypeCorrect` | `TypeOK` | with `ClockInv`: the clock is at most `MaxDelay` ahead of the start of the last smoke, which was at most `(Len(results) + 1) * MaxDelay` |
| `PackageRunsProofs!EndsAgreeAlways` | `EndsAgree` | `StackInv`: the commands are a chain of calls, each but the last waits for its child, and the one that ended last was called by the top, so no directory changes under a command that waits. On it, what each directory holds at each statement (`ReviewInv`, `HandoffInv`), what the last command told (`ReviewTold`, `HandoffTold`, `AllInv`), and `LeafInv`: a recorded smoke that named its directory in its second is not written over, since later leaves name later seconds. `EndsAgree` alone says nothing of commands that still run |
| `PackageRunsProofs!PackageRestsAlways` | `PackageRests` | the same invariant: `ReviewGood` and `HandoffGood` are what a passed command left behind, and `Copied` carries the former into the latter. `RetainedOnce` shows from the groups alone that every required file is retained in exactly one |
| `ObservedRunProofs!TypeCorrect` | `TypeOK` | `Worded` (`DecidesStatus`: no check gives any other status) and `Separate`: a line is in its file or in a buffer. That a line is new is what `Counted`, below, knows of the dispatch that writes it |
| `ObservedRunProofs!RunsOnlyAsAllowed` | `RunsAsAllowed` | `ReadyIffPermitted`: `Decide` answers "ready" exactly for the permitted arguments, whatever the order of the checks; `Decided` ties this to the places of the launcher. Needs no assumption: it holds for all 10 arguments at once, not only for two deviations |
| `ObservedRunProofs!RowsAreComplete` | `RowsComplete` | `RowsOrdered`: every line on disk or left in a buffer has on disk what it refers to, and so will the line each dispatch has come to. `RowsComplete` alone is not inductive: it says nothing of the buffers, which come out later, nor of dispatches half done. For any number of calls and threads |
| `ObservedRunProofs!ObservedBeforeRun` | `RanMeansObserved` | `Accounted` on `RowsOrdered`: what each dispatch and each call it remembers has in the files. For any number of calls and threads |
| `ObservedRunProofs!EndsAreHonest` | `StatusesAgree` | `Honest`: where the command is (`Placed`), what the summary says (`SummaryHonest`), that a printed status is settled (`FinalSettled`), and the ends of tau2, with its return code, and of the smoke (`ProcessHonest`, `SmokeHonest`). The fixtures of the smoke are data; lemmas say what they yield |
| `ObservedRunProofs!CountsAreHonest` | `CountsMatchFiles` | `Counted`: until the process ends, the counts are those of the lines in the files and in the buffers, and the warnings of a dispatch whose ledger is not yet written (`Early`) come on top; what a dispatch has read is current, and none of its lines is there before its step (`Unwritten`), so that each line adds one element to the set that is counted. After the final state no line is written, and those that come out or are lost are among the counted ones (`FinalCounts`). It rests on `RunsAsAllowed`: a traced process has one thread because the launchers refuse every other concurrency. For any number of calls |

`RuntimeTrace`, `BatchRun`, `Orchestrator`, `FixtureSmoke`, `PhaseRuns`, `PackageRuns` and
`ObservedRun` were checked with their inductive invariants on small instances before the proofs.

Only model-checked:

* everything temporal under fairness (`LoopReleases`, `BatchEnds`, `EveryStartEnds`,
  `CallsReturn`, `CommandEnds`, the end in `Contract`), which is beyond the prover;
* the number that `ReadinessScore` gives for a set of warnings other than the empty one: it
  is a fold, and what a fold yields for every input needs induction over data. No property
  is about it but that the smoke accepts its fixtures.

So every safety property that a run checks is a theorem as well.

## 12. What the code does not keep

Shown by runs that TLC finds violated:

* **An interrupted directory may not load** (`batch_dir_kill`, `Resumable`): Ctrl-C
  promises that `--auto-resume` continues; `os._exit` may leave a temporary file or a
  result that the index does not name, and `Results.load` raises ever after. In the
  single-file format this cannot happen (`batch_json`).

Seen while modelling, without a run of their own:

* *Orchestrator.* A stop may raise instead of returning: the docstring
  (`tau2/orchestrator/orchestrator.py:387`) says the simulation ends when the agent sends
  its stop signal; if the message also calls tools and `validate_communication` is off
  (the default), `_finalize` raises "Environment should not receive the last message".
  `RefusalOnlyOnMixedStop` shows that this is the only cause.
* `max_steps` is the "maximum number of simulation steps before termination"
  (`tau2/orchestrator/orchestrator.py:422`); a tool call in the last step is still
  answered, so `step_count` may reach `max_steps + 1` (`LimitsHold` has the bound).
* *Checkpoint.* The re-save of a resume opens the only copy of a single-file checkpoint
  with mode `w` (`checkpoint.py:208`); a kill there loses the results.
* A result that is returned but not stored: `_save_dir` marks the key before it flushes
  the index (`checkpoint.py:316`); if that fails, the retry's result is skipped as a
  duplicate.
* A crash between the storing of a first result and its hallucination check, or a check
  whose model call raises (`hallucination_reviewer.py:196`, outside of its `try`) and so
  ends the batch: the resumed batch takes the run as done and never checks it.
* `results_user_hallucination.json` is changed by several workers without a lock; a
  worker that reads it while another has truncated it fails its whole batch
  (`ReadDiscarded` leads to `raised`).
* *Tracer.* `runtime_trace.py:5` says the tracer "never changes ... control flow"; a
  `record` that cannot write raises into the traced program (`WriteFails`), and so does
  an observer that cannot write, which keeps the tool from running (`LineFails`,
  bounded by `RanMeansObserved`), although "it cannot block"
  (`docs/write_intent_passive_observer.md`).
* Ctrl-C outside of `run_tasks` leaves starts without ends in the trace although the
  final state is written, and the process says "failed": the wrappers record an end in
  `except Exception` (`runtime_trace.py:349`), which `KeyboardInterrupt` passes
  (`Interrupt`).
* *Gym.* The turn is signalled before the observation is assigned (`gym_agent.py:272`,
  `281`), so a caller may be shown the history before its turn; `AtMostOneTurnOld` is what
  holds.
* A `reset()` that fails after clearing `_simulation_done` makes the old simulation
  current again without its end: the next `step` raises, or a caller is told that it
  is not the agent's turn (`RefusedOnlyWhenForgotten` delimits this).
* A simulation replaced in the player's turn leaves its thread waiting for ever.
* *Smokes.* Without the vendored tree, phases 3 and 4 raise `KeyError: 'trace_mode'` from
  the summary of their early exit (`run_activegraph_trace_smoke.py:73`), after the final
  state was written (`EarlySummary`).
* The validators of the dry run do not stop the planning and may raise themselves:
  with more packets than events, `validate_state_packets` raises `IndexError`
  (`packets.py:291`) where it should report a mismatch.
* A dry run accepts a projection that has lost its nodes or edges: what is asked of them
  is that they are lists (`planner.py:109`).
* The hashes of the audit trail have no key (`audit_log.py:25`): a changed record is not
  seen if its hash and those of all records after it are made anew.
* Phases 8 and later pass although the contract report of phase 6 failed; their audit log
  records it (`AuditEvident`), their final state does not.
* *Aggregator.* It waits for a new second before it starts a smoke
  (`run_all_smokes.py:194`), because smokes name their directories by the second; but
  a smoke reads its clock after its interpreter has started. If that is a second later,
  and it ends within it, the next one may get the same directory, and what the
  aggregate recorded for the first is what the second left there. `EndsAgree` has the
  condition under which the records are true (`RecordedOutputs`).
* *Launchers.* A timeout leaves neither status nor summary (`Timeout`). If the traced
  process is killed while it writes its final state, the launcher raises when it reads
  it (`Update`). A launcher that has failed for one reason may report the refusal of a
  task id instead and exit with 0 (`Reconsidered`). If the line that ends the trace cannot
  be written, the traced process says "failed" and exits with 0 (`Tau2Ends`).

## 13. What is not modelled

* *Batch*: tasks added or a configuration changed between sessions, artifacts, status
  files, the monitor thread (it only prints).
* *Gym*: calls interrupted from outside. A `step` that is left by an exception while
  it polls keeps a running thread, which after a `reset` may end the new simulation;
  the properties speak of calls that return.
* *Tracer*: inspection of hooks and the summary in Markdown, which format what the
  model keeps; a second run into the same directory.
* *Packages*: a caller killed while it waits, whose child goes on by itself. The child
  writes into a directory of its own, which nobody reads then; but an orphaned phase 10
  names its directory by the second, maybe that in which the next smoke starts.
  `RecordedOutputs` is not claimed for that case. Files that vanish at other moments than
  before they are copied.
* *Smokes*: wording of documents and summaries; secrets are a flag of the artifact that
  would hold them (`safe`).
* *Launchers*: failing writes of the launcher itself; the text of commands and reports.
* *Analysis, extraction, projection and comparison scripts*: they read the files of one
  finished run and print a report; nothing reads back what they write, and they have
  no state between calls.
* *Full-duplex orchestrator and streaming*: vendored, and not started by this
  repository's own code.
* *Agents, user simulators, domains, evaluator, metrics, voice, knowledge, web
  service, command line*: language models, data and I/O. The models take from them
  what the core sees: any message a class can produce, any outcome of a tool.

## 14. Plan

Done, in this order: `Orchestrator` with `TurnProtocol`; `RuntimeTrace`; `BatchRun`
with `ResultStore`; `GymEnv`; for each the type theorem and safety theorems. Then
`FixtureSmoke`, `PhaseRuns` and `PackageRuns` with `SmokeContract`, and `ObservedRun`.
Then the proofs of all safety properties of `Orchestrator`, `BatchRun`, `RuntimeTrace`,
`GymEnv`, `FixtureSmoke`, `PhaseRuns`, `PackageRuns` and `ObservedRun`.

Possible extensions of the models: calls of `GymEnv` that are interrupted; a task set
that grows between the sessions of `BatchRun`; the full-duplex orchestrator.
