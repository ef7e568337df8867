------------------------------ MODULE BatchRun ------------------------------
(***************************************************************************)
(* A batch of simulations with its checkpoint: run_tasks, run_with_retry,  *)
(* try_resume and the save and replace functions of create_checkpoint_fns  *)
(* (vendor/tau2-bench/src/tau2/runner/batch.py, progress.py, checkpoint.py,*)
(* Results in data_model/simulation.py).                                   *)
(*                                                                         *)
(* The runs of the batch execute concurrently, retry, and store their      *)
(* results under one lock; storing is a sequence of file system steps      *)
(* between which the process may die.  A later session resumes from what   *)
(* it finds.  The task set and the configuration stay the same.            *)
(***************************************************************************)
EXTENDS Integers, FiniteSets

CONSTANTS
    Keys,                   \* the runs: (trial, task, seed)
    NoKey,                  \* no holder of the lock
    Format,                 \* "json": one file; "dir": metadata and a file per result
    MaxConcurrency,         \* max_concurrency
    MaxRetries,             \* max_retries
    HallucinationRetries,   \* hallucination_retries (0: half duplex, no check)
    CanFail,                \* writing a result may fail
    CrashIn,                \* file operations that the process may die in
    MaxSessions             \* bound of the model: processes started

ASSUME BatchAssumption ==
    /\ NoKey \notin Keys
    /\ Format \in {"json", "dir"}
    /\ MaxConcurrency \in Nat \ {0}
    /\ MaxRetries \in Nat /\ HallucinationRetries \in Nat
    /\ CanFail \in BOOLEAN
    /\ CrashIn \subseteq {"create", "rewrite", "store"}
    /\ MaxSessions \in Nat \ {0}

VARIABLES
    process,    \* where run_tasks stands
    session,    \* number of the process
    runs,       \* runs[k]: where _run_tracked stands for k
    lock,       \* holder of the checkpoint lock
    memory,     \* simulation_results.simulations
    known,      \* results stored by this process (_saved_keys, _key_to_sim_id)
    entries,    \* _index_by_id
    meta,       \* results.json: absent, torn or ok
    index,      \* simulation_index of results.json
    sims,       \* the stored results: files of simulations/, or the json's list
    stray,      \* a temporary file lies in simulations/
    discarded,  \* results_user_hallucination.json
    executed    \* executed[k]: results produced for k so far

disk == <<meta, index, sims, stray>>
vars == <<process, session, runs, lock, memory, known, entries, disk,
          discarded, executed>>

ResultKinds == {"good", "hallucinated", "infra"}
Result == [key : Keys, n : Nat, kind : ResultKinds, retries : Nat]
NoResult(k) == [key |-> k, n |-> 0, kind |-> "infra", retries |-> 0]

Idle(k, at) == [at |-> at, goal |-> "save", attempt |-> 0, retries |-> 0,
                result |-> NoResult(k), seen |-> {}]
Ended == {"done", "collected", "raised", "skipped"}

With(k, at) == runs' = [runs EXCEPT ![k].at = at]

-----------------------------------------------------------------------------
(* try_resume.                                                             *)

Init ==
    /\ process = "new" /\ session = 1
    /\ runs = [k \in Keys |-> Idle(k, "queued")]
    /\ lock = NoKey
    /\ memory = {} /\ known = {} /\ entries = {}
    /\ meta = "absent" /\ index = {} /\ sims = {} /\ stray = FALSE
    /\ discarded = [torn |-> FALSE, results |-> {}]
    /\ executed = [k \in Keys |-> 0]

\* Results.load: the file parses and, in the directory format, the files of
\* simulations/ (temporary ones match the glob too) are those of the index.
Loadable ==
    /\ meta = "ok"
    /\ Format = "dir" => ~stray /\ index = sims

DoneAnyway(results, k) == FALSE         \* mutated: done_runs left empty
Done(results, k) == \E s \in results : s.key = k

\* The runs that are not done are queued, and the index of the saver starts
\* from the one on disk.
StartRuns(results) ==
    /\ process' = "running"
    /\ runs' = [k \in Keys |-> Idle(k, IF Done(results, k) THEN "skipped" ELSE "queued")]
    /\ memory' = results
    /\ entries' = results
    /\ known' = {}

\* Nothing on disk: Results.save opens results.json for writing ...
BeginCreate ==
    /\ process = "new" /\ meta = "absent"
    /\ process' = "creating"
    /\ meta' = "torn"
    /\ UNCHANGED <<session, runs, lock, memory, known, entries, index, sims, stray,
                   discarded, executed>>

\* ... and fills it.
EndCreate ==
    /\ process = "creating"
    /\ meta' = "ok"
    /\ StartRuns({})
    /\ UNCHANGED <<session, lock, index, sims, stray, discarded, executed>>

Kept(results) == {s \in results : s.kind # "infra"}

\* A checkpoint loads; without failed results in it nothing is rewritten.
Resume ==
    /\ process = "new" /\ meta # "absent" /\ Loadable
    /\ IF Kept(sims) = sims
         THEN StartRuns(sims)
         ELSE /\ process' = "rewriting"
              /\ memory' = Kept(sims)
              /\ UNCHANGED <<runs, known, entries>>
    /\ UNCHANGED <<session, lock, disk, discarded, executed>>

ResumeFails ==
    /\ process = "new" /\ meta # "absent" /\ ~Loadable
    /\ process' = "unloadable"
    /\ UNCHANGED <<session, runs, lock, memory, known, entries, disk, discarded,
                   executed>>

\* The directory format first unlinks the files of the failed runs.
UnlinkFailed ==
    /\ process = "rewriting" /\ Format = "dir" /\ meta = "ok"
    /\ \E s \in sims \ memory : sims' = sims \ {s}
    /\ UNCHANGED <<process, session, runs, lock, memory, known, entries, meta, index,
                   stray, discarded, executed>>

\* Then results.json is opened for writing, which empties it ...
BeginRewrite ==
    /\ process = "rewriting" /\ meta = "ok"
    /\ Format = "dir" => sims = memory
    /\ meta' = "torn"
    /\ index' = {}
    /\ sims' = IF Format = "json" THEN {} ELSE sims
    /\ UNCHANGED <<process, session, runs, lock, memory, known, entries, stray,
                   discarded, executed>>

\* ... and filled.
EndRewrite ==
    /\ process = "rewriting" /\ meta = "torn"
    /\ meta' = "ok"
    /\ index' = IF Format = "dir" THEN memory ELSE index
    /\ sims' = memory
    /\ StartRuns(memory)
    /\ UNCHANGED <<session, lock, stray, discarded, executed>>

-----------------------------------------------------------------------------
(* _run_tracked and run_with_retry.                                        *)

\* Nobody stops the worker threads while main waits in as_completed, shuts the
\* executor down after a failed run, or prepares to exit after Ctrl-C.
Alive == process \in {"running", "raising", "stopping"}
Active == {k \in Keys : runs[k].at \notin Ended \cup {"queued"}}

\* The executor starts a queued run; Ctrl-C cancels the queue.
Start(k) ==
    /\ process \in {"running", "raising"}
    /\ runs[k].at = "queued"
    /\ Cardinality(Active) < MaxConcurrency
    /\ With(k, "executing")
    /\ UNCHANGED <<process, session, lock, memory, known, entries, disk, discarded,
                   executed>>

NewResult(k, kind) == [key |-> k, n |-> executed[k] + 1, kind |-> kind,
                       retries |-> runs[k].retries]

GivesUpSilently(k) == [runs[k] EXCEPT !.at = "done", !.result = NewResult(k, "infra")]  \* mutated
GivesUp(k) == [runs[k] EXCEPT !.at = "save", !.result = NewResult(k, "infra")]

\* An attempt failed: the next one, unless the retries are used up or Ctrl-C
\* came; then a placeholder is stored.
AttemptFailed(k) ==
    IF runs[k].attempt < MaxRetries /\ process # "stopping"
      THEN /\ runs' = [runs EXCEPT ![k].at = "executing", ![k].attempt = @ + 1]
           /\ UNCHANGED executed
      ELSE /\ runs' = [runs EXCEPT ![k] = GivesUp(k)]
           /\ executed' = [executed EXCEPT ![k] = @ + 1]

\* run_single_task returns a result: the first one is stored at once, a
\* hallucination retry is looked at first.
ExecuteOk(k) ==
    /\ Alive /\ runs[k].at = "executing"
    /\ \E kind \in IF HallucinationRetries > 0 THEN {"good", "hallucinated"} ELSE {"good"} :
         runs' = [runs EXCEPT ![k].result = NewResult(k, kind),
                              ![k].at = IF runs[k].goal = "save" THEN "save" ELSE "check"]
    /\ executed' = [executed EXCEPT ![k] = @ + 1]
    /\ UNCHANGED <<process, session, lock, memory, known, entries, disk, discarded>>

\* run_single_task raises; only run_with_retry catches.
ExecuteFails(k) ==
    /\ Alive /\ runs[k].at = "executing"
    /\ IF runs[k].goal = "save"
         THEN AttemptFailed(k)
         ELSE With(k, "raised") /\ UNCHANGED executed
    /\ UNCHANGED <<process, session, lock, memory, known, entries, disk, discarded>>

\* check_hallucination, while retries are left.  The model is asked outside its
\* try and outside run_with_retry: when that raises, the run does.
Check(k) ==
    /\ Alive /\ runs[k].at = "check"
    /\ \/ With(k, IF runs[k].result.kind = "hallucinated"
                       /\ runs[k].retries < HallucinationRetries
                    THEN "discard"
                    ELSE IF runs[k].retries > 0 THEN "replace" ELSE "done")
       \/ runs[k].retries < HallucinationRetries /\ With(k, "raised")
    /\ UNCHANGED <<process, session, lock, memory, known, entries, disk, discarded,
                   executed>>

\* The discarded result is appended to results_user_hallucination.json without
\* a lock: read, empty, write.
ReadDiscarded(k) ==
    /\ Alive /\ runs[k].at = "discard"
    /\ runs' = IF discarded.torn
                 THEN [runs EXCEPT ![k].at = "raised"]
                 ELSE [runs EXCEPT ![k].at = "truncate", ![k].seen = discarded.results]
    /\ UNCHANGED <<process, session, lock, memory, known, entries, disk, discarded,
                   executed>>

TruncateDiscarded(k) ==
    /\ Alive /\ runs[k].at = "truncate"
    /\ discarded' = [torn |-> TRUE, results |-> {}]
    /\ With(k, "append")
    /\ UNCHANGED <<process, session, lock, memory, known, entries, disk, executed>>

\* ... and the run is made again with feedback.
AppendDiscarded(k) ==
    /\ Alive /\ runs[k].at = "append"
    /\ discarded' = [torn |-> FALSE, results |-> runs[k].seen \cup {runs[k].result}]
    /\ runs' = [runs EXCEPT ![k].at = "executing", ![k].goal = "replace",
                            ![k].retries = @ + 1, ![k].seen = {}]
    /\ UNCHANGED <<process, session, lock, memory, known, entries, disk, executed>>

-----------------------------------------------------------------------------
(* save_fn and replace_fn.                                                 *)

OfKey(results, k) == {s \in results : s.key = k}

\* A result of this key is stored already: by this process (dir), or at all.
Duplicate(k) == OfKey(IF Format = "dir" THEN known ELSE sims, k) # {}

\* After a result was stored, or skipped as a duplicate.
StoredUnchecked(k) == "done"            \* mutated: the check is left out
Stored(k) ==
    IF runs[k].goal = "replace" \/ runs[k].result.kind = "infra"
         \/ HallucinationRetries = 0
      THEN "done" ELSE "check"

SkipDuplicate(k) ==
    /\ Alive /\ runs[k].at = "save" /\ lock = NoKey
    /\ Duplicate(k)
    /\ With(k, Stored(k))
    /\ UNCHANGED <<process, session, lock, memory, known, entries, disk, discarded,
                   executed>>

\* _save_dir, _save_json: take the lock and write a temporary file.
InPlace == "torn"                       \* mutated: the file is written in place
MetaWhileWriting == meta

BeginSave(k) ==
    /\ Alive /\ runs[k].at = "save" /\ lock = NoKey
    /\ ~Duplicate(k)
    /\ lock' = k
    /\ stray' = TRUE
    /\ meta' = MetaWhileWriting
    /\ With(k, "rename")
    /\ UNCHANGED <<process, session, memory, known, entries, index, sims, discarded,
                   executed>>

\* _replace_dir unlinks the result this process stored for the key;
\* _replace_json leaves the old one to the rename.
EveryStored(k) == known                 \* mutated: the key is not looked at
OldFile(k) == OfKey(known, k)

EntriesKept(k) == entries               \* mutated: the old index entry stays
EntriesWithout(k) == entries \ OldFile(k)

BeginReplace(k) ==
    /\ Alive /\ runs[k].at = "replace" /\ lock = NoKey
    /\ lock' = k
    /\ IF Format = "dir"
         THEN /\ sims' = sims \ OldFile(k)
              /\ entries' = EntriesWithout(k)
         ELSE UNCHANGED <<sims, entries>>
    /\ With(k, "write")
    /\ UNCHANGED <<process, session, memory, known, meta, index, stray, discarded,
                   executed>>

WriteReplacement(k) ==
    /\ Alive /\ runs[k].at = "write"
    /\ stray' = TRUE
    /\ With(k, "rename")
    /\ UNCHANGED <<process, session, lock, memory, known, entries, meta, index, sims,
                   discarded, executed>>

OldInJson(k) == IF runs[k].goal = "replace" THEN OfKey(sims, k) ELSE {}

\* os.replace gives the temporary file its name.
Rename(k) ==
    /\ Alive /\ runs[k].at = "rename"
    /\ stray' = FALSE
    /\ meta' = "ok"
    /\ IF Format = "dir"
         THEN /\ sims' = sims \cup {runs[k].result}
              /\ known' = (known \ OfKey(known, k)) \cup {runs[k].result}
              /\ entries' = entries \cup {runs[k].result}
              /\ With(k, "flush")
              /\ UNCHANGED lock
         ELSE /\ sims' = (sims \ OldInJson(k)) \cup {runs[k].result}
              /\ With(k, Stored(k))
              /\ lock' = NoKey
              /\ UNCHANGED <<known, entries>>
    /\ UNCHANGED <<process, session, memory, index, discarded, executed>>

\* _flush_index writes results.json anew, atomically.
Flush(k) ==
    /\ Alive /\ runs[k].at = "flush"
    /\ index' = entries
    /\ lock' = NoKey
    /\ With(k, Stored(k))
    /\ UNCHANGED <<process, session, memory, known, entries, meta, sims, stray,
                   discarded, executed>>

\* The write of the result or of the index fails and removes its temporary
\* file.  The failure of a first result counts as a failed attempt, any other
\* ends the run.
KeepsLock(k) == k                       \* mutated: the lock is not released
ReleasedLock(k) == NoKey

StoreFails(k) ==
    /\ CanFail
    /\ Alive /\ runs[k].at \in {"rename", "flush"}
    /\ lock' = ReleasedLock(k)
    /\ stray' = FALSE
    /\ IF runs[k].goal = "save" /\ runs[k].result.kind # "infra"
         THEN AttemptFailed(k)
         ELSE With(k, "raised") /\ UNCHANGED executed
    /\ UNCHANGED <<process, session, memory, known, entries, meta, index, sims, discarded>>

-----------------------------------------------------------------------------
(* run_tasks and the process.                                              *)

\* as_completed hands over a finished run; a run that raised ends the loop.
Collect(k) ==
    /\ process = "running" /\ runs[k].at = "done"
    /\ memory' = memory \cup {runs[k].result}
    /\ With(k, "collected")
    /\ UNCHANGED <<process, session, lock, known, entries, disk, discarded, executed>>

RunRaised(k) ==
    /\ process = "running" /\ runs[k].at = "raised"
    /\ process' = "raising"
    /\ UNCHANGED <<session, runs, lock, memory, known, entries, disk, discarded,
                   executed>>

\* executor.shutdown(wait=True).
Finish ==
    /\ \/ process = "running" /\ \A k \in Keys : runs[k].at \in {"collected", "skipped"}
       \/ process = "raising" /\ \A k \in Keys : runs[k].at \in Ended
    /\ process' = IF process = "running" THEN "returned" ELSE "raised"
    /\ UNCHANGED <<session, runs, lock, memory, known, entries, disk, discarded,
                   executed>>

\* Ctrl-C: shutdown_event is set and the queue cancelled.
Interrupt ==
    /\ process = "running"
    /\ process' = "stopping"
    /\ UNCHANGED <<session, runs, lock, memory, known, entries, disk, discarded,
                   executed>>

\* The file operation the process stands in.
Operation ==
    IF process = "creating" THEN "create"
    ELSE IF process = "rewriting" THEN "rewrite"
    ELSE IF lock # NoKey THEN "store" ELSE "none"

\* os._exit(130), or a kill: the threads stop where they are.
Die ==
    /\ process \in {"creating", "rewriting"} \/ Alive
    /\ Operation \in CrashIn \cup {"none"}
    /\ process' = "dead"
    /\ UNCHANGED <<session, runs, lock, memory, known, entries, disk, discarded,
                   executed>>

\* The batch is started again with --auto-resume.
Restart ==
    /\ process \in {"dead", "returned", "raised"}
    /\ session < MaxSessions
    /\ session' = session + 1
    /\ process' = "new"
    /\ lock' = NoKey
    /\ memory' = {} /\ known' = {} /\ entries' = {}
    /\ runs' = [k \in Keys |-> Idle(k, "queued")]
    /\ UNCHANGED <<disk, discarded, executed>>

Over ==
    /\ process \in {"returned", "raised", "dead", "unloadable"}
    /\ UNCHANGED vars

RunStep(k) ==
    \/ Start(k) \/ ExecuteOk(k) \/ ExecuteFails(k) \/ Check(k)
    \/ ReadDiscarded(k) \/ TruncateDiscarded(k) \/ AppendDiscarded(k)
    \/ SkipDuplicate(k) \/ BeginSave(k) \/ BeginReplace(k) \/ WriteReplacement(k)
    \/ Rename(k) \/ Flush(k) \/ StoreFails(k)
    \/ Collect(k) \/ RunRaised(k)

Boot ==
    \/ BeginCreate \/ EndCreate \/ Resume \/ ResumeFails
    \/ UnlinkFailed \/ BeginRewrite \/ EndRewrite

Next ==
    \/ Boot
    \/ \E k \in Keys : RunStep(k)
    \/ Finish \/ Interrupt \/ Die \/ Restart \/ Over

Spec == Init /\ [][Next]_vars

\* A process that is not killed goes on, in main and in every worker thread.
FairSpec ==
    /\ Spec
    /\ WF_vars(Boot) /\ WF_vars(Finish)
    /\ \A k \in Keys : WF_vars(RunStep(k))

-----------------------------------------------------------------------------
(* Properties.                                                             *)

Run == [at : {"queued", "executing", "check", "discard", "truncate", "append", "save",
              "replace", "write", "rename", "flush"} \cup Ended,
        goal : {"save", "replace"}, attempt : 0 .. MaxRetries,
        retries : 0 .. HallucinationRetries, result : Result, seen : SUBSET Result]

\* Every variable keeps its type.
TypeOK ==
    /\ process \in {"new", "creating", "rewriting", "running", "raising", "stopping",
                    "returned", "raised", "dead", "unloadable"}
    /\ session \in 1 .. MaxSessions
    /\ runs \in [Keys -> Run]
    /\ lock \in Keys \cup {NoKey}
    /\ memory \in SUBSET Result /\ known \in SUBSET Result /\ entries \in SUBSET Result
    /\ meta \in {"absent", "torn", "ok"}
    /\ index \in SUBSET Result /\ sims \in SUBSET Result
    /\ stray \in BOOLEAN
    /\ discarded \in [torn : BOOLEAN, results : SUBSET Result]
    /\ executed \in [Keys -> Nat]

\* At most one result is stored for a run, over all sessions.
OnePerKey == \A s, t \in sims : s.key = t.key => s = t

\* "All completed results are already on disk": a result the batch counts as
\* completed is the one in the checkpoint.
CompletedOnDisk ==
    Alive =>
        /\ memory \subseteq sims
        /\ \A k \in Keys : runs[k].at \in {"done", "collected"} => runs[k].result \in sims

\* A batch that returned has a result for every run, and on disk exactly what
\* it returned.
ReturnedComplete ==
    process = "returned" => sims = memory /\ \A k \in Keys : OfKey(sims, k) # {}

\* "Use --auto-resume to continue later": a batch that was cut off can go on.
Resumable == process # "unloadable"

\* While nobody is storing a result, the saver's index is that of the stored files
\* and no temporary file lies about.  The index on disk may differ only after a
\* failed write: it lacks the file of a run that is made again for it, or that
\* raised, and names a file that is gone only for a run that raised.
IndexInSync ==
    Alive /\ lock = NoKey =>
        /\ entries = sims /\ ~stray
        /\ \A s \in sims \ index :
             runs[s.key].result = s => runs[s.key].at \in {"executing", "raised"}
        /\ \A s \in index \ sims : runs[s.key].at = "raised"

\* When a batch returns, what the checkpoint holds of a run that this process
\* made is hallucinated only if its retries are used up: no replacement was
\* skipped, and none was lost on its way to the checkpoint.
HallucinationsRetried ==
    process = "returned" =>
        \A s \in sims : runs[s.key].at = "collected" /\ s.kind = "hallucinated" =>
            s.retries = HallucinationRetries

\* A batch ends, unless it is killed: no run waits for ever.
BatchEnds == process = "running" ~> process \in {"returned", "raised", "stopping", "dead"}

\* The checkpoint is a store with one result per run in which good results stay.
\* While try_resume rewrites results.json, what it holds in memory counts: the
\* promise is broken only if the process dies there.
Content == IF process = "rewriting" /\ meta = "torn" THEN memory ELSE sims

Store == INSTANCE ResultStore WITH
    stored <- [k \in Keys |->
                 IF OfKey(Content, k) = {} THEN "none"
                 ELSE (CHOOSE s \in OfKey(Content, k) : TRUE).kind]

KeepsGoodResults == Store!Spec
=============================================================================
