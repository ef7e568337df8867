--------------------------- MODULE BaselineLaunch ----------------------------
(***************************************************************************)
(* When a launcher of tau2 runs it and when it refuses: model              *)
(* (run_tau2_model_baseline), traced (run_tau2_runtime_traced_baseline) and*)
(* variant (run_airline_task8_prompt_variant).                             *)
(*                                                                         *)
(* The arguments are what the launchers look at: whether provider and model*)
(* are given, the acknowledgement, the domain and its override, whether    *)
(* --max-steps is positive, --concurrency, --num-tasks, --task-id (absent, *)
(* an id, an index of the domain's tasks or an index it does not have), an *)
(* API key in the environment, and --enable-write-intent-observer.         *)
(***************************************************************************)
EXTENDS Integers, Sequences, FiniteSets

Launchers == {"model", "traced", "variant"}

Args == [model : BOOLEAN, ack : BOOLEAN, domain : {"mock", "other"}, override : BOOLEAN,
         steps : BOOLEAN, concurrency : {1, 2}, num_tasks : {"none", "zero", "some"},
         task_id : {"none", "id", "index", "bad index"}, key : BOOLEAN, observe : BOOLEAN]

\* What a user gives for a run.
GoodArgs == [model |-> TRUE, ack |-> TRUE, domain |-> "mock", override |-> FALSE,
             steps |-> TRUE, concurrency |-> 1, num_tasks |-> "none", task_id |-> "none",
             key |-> TRUE, observe |-> TRUE]

Deviations(args) == {f \in DOMAIN GoodArgs : args[f] # GoodArgs[f]}

-----------------------------------------------------------------------------
(* The checks, in their order; the first that applies gives the status.    *)

\* apply_task_selection raises ValueError.
InvalidTask(args) == args.task_id = "bad index"

Check(applies, status) == [applies |-> applies, status |-> status]

MissingModel(args) == Check(~args.model, "refused_missing_model")
AckOutsideMock(args) ==                 \* mutated: nobody is asked in the mock domain
    Check(~args.ack /\ args.domain # "mock", "refused_missing_ack")
MissingAck(args) == Check(~args.ack, "refused_missing_ack")
MissingKey(args) == Check(~args.key, "refused_missing_provider_env")

ParallelChecks(first, second, args) ==  \* mutated: any concurrency is passed on
    <<first, second,
      Check(args.domain = "other" /\ ~args.override, "refused_non_mock_domain"),
      Check(~args.steps, "failed"),
      Check(args.num_tasks = "zero", "failed"),
      Check(InvalidTask(args), "refused_invalid_task_id"),
      MissingKey(args)>>

RunChecks(first, second, args) ==
    <<first, second,
      Check(args.domain = "other" /\ ~args.override, "refused_non_mock_domain"),
      Check(~args.steps, "failed"),
      Check(args.concurrency # 1, "failed"),
      Check(args.num_tasks = "zero", "failed"),
      Check(InvalidTask(args), "refused_invalid_task_id"),
      MissingKey(args)>>

Checks(launcher, args) ==
    [model   |-> RunChecks(MissingAck(args), MissingModel(args), args),
     traced  |-> RunChecks(MissingModel(args), MissingAck(args), args),
     variant |-> <<MissingModel(args), MissingAck(args), Check(~args.steps, "failed"),
                   MissingKey(args)>>][launcher]

Decide(launcher, args) ==
    LET checks == Checks(launcher, args)
        failing == {i \in DOMAIN checks : checks[i].applies}
    IN  IF failing = {} THEN "ready"
        ELSE checks[CHOOSE i \in failing : \A j \in failing : i <= j].status

\* A launcher that does not run tau2 still wants to report the command it would
\* have run; for that it selects the task it had not come to, and what goes wrong
\* then takes the place of the status.
Reconsidered(launcher, args, status) ==
    IF /\ launcher # "variant" /\ args.model
       /\ status \notin {"refused_missing_provider_env", "refused_invalid_task_id"}
       /\ InvalidTask(args)
      THEN "refused_invalid_task_id" ELSE status

ExitCode(launcher, status) ==
    IF status = "failed" \/ (launcher = "model" /\ status = "refused_invalid_task_id")
      THEN 1 ELSE 0

=============================================================================
