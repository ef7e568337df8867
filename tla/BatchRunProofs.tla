--------------------------- MODULE BatchRunProofs ---------------------------
(***************************************************************************)
(* Theorems about BatchRun, for all sets of runs, any number of workers,   *)
(* retries and sessions.  Types and OnePerKey hold for both formats, with  *)
(* crashes and failures anywhere; the other theorems name what they need:  *)
(* Lossless (what is stored counts as stored), Careful (the kill leaves no *)
(* half-made file) and WholeRewrite (no kill inside the rewrite).          *)
(***************************************************************************)
EXTENDS BatchRun, TLAPS

\* A run that discards its result has a hallucination retry left.
RetriesLeft ==
    \A k \in Keys : runs[k].at \in {"discard", "truncate", "append"} =>
        runs[k].retries < HallucinationRetries

\* A run only ever holds results of its own key.
OwnKey == \A k \in Keys : runs[k].result.key = k

\* Only a hallucination retry replaces a result.
ReplacesLater ==
    \A k \in Keys :
        /\ runs[k].goal = "save" => runs[k].retries = 0
        /\ runs[k].at \in {"replace", "write"} => runs[k].goal = "replace"

\* Nothing is stored before the checkpoint exists.
NothingYet == meta = "absent" \/ process = "creating" => sims = {}

\* The lookup of _save_dir and _replace_dir finds every stored result of a run
\* that is not skipped.
KnownHere ==
    Format = "dir" /\ Alive =>
        \A k \in Keys : runs[k].at # "skipped" => OfKey(sims, k) \subseteq known

\* Between the check for duplicates and the rename the place stays free.
FreeToStore ==
    \A k \in Keys :
        runs[k].at \in {"write", "rename"} /\ (Format = "dir" \/ runs[k].goal = "save")
            => OfKey(sims, k) = {}

\* What try_resume writes back has one result per run.
OnePerKeyInMemory ==
    process = "rewriting" => \A s, t \in memory : s.key = t.key => s = t

\* The inductive invariant: types, and what the storing of results rests on.
TypedInv == TypeOK /\ RetriesLeft /\ OwnKey /\ ReplacesLater

StoredInv ==
    NothingYet /\ KnownHere /\ FreeToStore /\ OnePerKeyInMemory /\ OnePerKey

IInv == TypedInv /\ StoredInv

-----------------------------------------------------------------------------
(* Types.                                                                  *)

(* With moves one run to another place and leaves the rest of it alone.     *)
LEMMA WithFacts ==
  ASSUME runs \in [Keys -> Run], NEW k \in Keys, NEW at, With(k, at),
         \E r \in Run : r.at = at
  PROVE  /\ runs' \in [Keys -> Run]
         /\ runs'[k] = [runs[k] EXCEPT !.at = at]
         /\ \A j \in Keys : j # k => runs'[j] = runs[j]
<1>1. runs[k] \in Run
  OBVIOUS
<1>2. [runs[k] EXCEPT !.at = at] \in Run
  BY <1>1 DEF Run
<1>3. runs' = [runs EXCEPT ![k] = [runs[k] EXCEPT !.at = at]]
  BY DEF With
<1> QED BY <1>2, <1>3

(* A fresh run and a new result have their types.                           *)
LEMMA IdleFacts ==
  ASSUME BatchAssumption, NEW k \in Keys, NEW at \in {"queued", "skipped"}
  PROVE  /\ Idle(k, at) \in Run
         /\ Idle(k, at).at = at /\ Idle(k, at).result.key = k
         /\ Idle(k, at).retries = 0
BY DEF BatchAssumption, Idle, Run, Ended, Result, NoResult, ResultKinds

\* A result that an attempt makes is one of its own run.
LEMMA NewResultFacts ==
  ASSUME TypeOK, BatchAssumption, NEW k \in Keys, NEW kind \in ResultKinds
  PROVE  NewResult(k, kind) \in Result /\ NewResult(k, kind).key = k
BY DEF TypeOK, BatchAssumption, NewResult, Result, Run

\* A failed attempt leads back to another one or to a stored failure, and touches no
\* other run.
LEMMA AttemptFailedFacts ==
  ASSUME TypedInv, BatchAssumption, NEW k \in Keys, AttemptFailed(k)
  PROVE  /\ runs' \in [Keys -> Run] /\ executed' \in [Keys -> Nat]
         /\ runs'[k].at \in {"executing", "save"}
         /\ runs'[k].result.key = k
         /\ runs'[k].goal = runs[k].goal /\ runs'[k].retries = runs[k].retries
         /\ \A j \in Keys : j # k => runs'[j] = runs[j]
<1>1. runs[k] \in Run /\ executed[k] \in Nat
  BY DEF TypedInv, TypeOK
<1>2. CASE runs[k].attempt < MaxRetries /\ process # "stopping"
  <2> DEFINE r == [runs[k] EXCEPT !.at = "executing", !.attempt = @ + 1]
  <2>1. runs' = [runs EXCEPT ![k] = r] /\ executed' = executed
    BY <1>2 DEF AttemptFailed
  <2>2. r \in Run /\ r.at = "executing" /\ r.result.key = k /\ r.goal = runs[k].goal
        /\ r.retries = runs[k].retries
    <3>1. runs[k].attempt + 1 \in 0 .. MaxRetries
      BY <1>1, <1>2 DEF Run, BatchAssumption
    <3>2. runs[k].result.key = k
      BY DEF TypedInv, OwnKey
    <3> QED BY <1>1, <3>1, <3>2 DEF Run
  <2> QED BY <2>1, <2>2 DEF TypedInv, TypeOK
<1>3. CASE ~(runs[k].attempt < MaxRetries /\ process # "stopping")
  <2>1. /\ runs' = [runs EXCEPT ![k] = GivesUp(k)]
        /\ executed' = [executed EXCEPT ![k] = @ + 1]
    BY <1>3 DEF AttemptFailed
  <2>2. NewResult(k, "infra") \in Result /\ NewResult(k, "infra").key = k
    BY NewResultFacts DEF ResultKinds, TypedInv
  <2>3. GivesUp(k) \in Run /\ GivesUp(k).at = "save" /\ GivesUp(k).result.key = k
        /\ GivesUp(k).goal = runs[k].goal /\ GivesUp(k).retries = runs[k].retries
    BY <1>1, <2>2 DEF Run, GivesUp
  <2> QED BY <1>1, <2>1, <2>3 DEF TypedInv, TypeOK
<1> QED BY <1>2, <1>3

\* What a step of run k does to the runs.
Moved(k) ==
    /\ runs' \in [Keys -> Run]
    /\ \A j \in Keys : j # k => runs'[j] = runs[j]
    /\ runs'[k].result.key = k
    /\ runs'[k].at \in {"discard", "truncate", "append"} =>
         runs'[k].retries < HallucinationRetries
    /\ runs'[k].goal = "save" => runs'[k].retries = 0
    /\ runs'[k].at \in {"replace", "write"} => runs'[k].goal = "replace"

(* A move to a place that the retries made so far and the goal allow.       *)
LEMMA WithMoves ==
  ASSUME TypedInv, NEW k \in Keys, NEW at, With(k, at), \E r \in Run : r.at = at,
         at \in {"discard", "truncate", "append"} =>
             runs[k].retries < HallucinationRetries,
         at \in {"replace", "write"} => runs[k].goal = "replace"
  PROVE  Moved(k)
<1>1. runs \in [Keys -> Run] /\ runs[k].result.key = k
      /\ (runs[k].goal = "save" => runs[k].retries = 0)
  BY DEF TypedInv, TypeOK, OwnKey, ReplacesLater
<1>2. /\ runs' \in [Keys -> Run]
      /\ runs'[k] = [runs[k] EXCEPT !.at = at]
      /\ \A j \in Keys : j # k => runs'[j] = runs[j]
  BY <1>1, WithFacts
<1>3. runs[k] \in Run
  BY <1>1
<1>4. /\ runs'[k].result = runs[k].result /\ runs'[k].at = at
      /\ runs'[k].retries = runs[k].retries /\ runs'[k].goal = runs[k].goal
  BY <1>2, <1>3 DEF Run
<1> QED BY <1>1, <1>2, <1>4 DEF Moved

(* Every place of a run is one of its type.                                 *)
LEMMA Places ==
  ASSUME BatchAssumption, TypedInv, NEW k \in Keys,
         NEW at \in {"queued", "executing", "check", "discard", "truncate", "append",
                     "save", "replace", "write", "rename", "flush", "done",
                     "collected", "raised", "skipped"}
  PROVE  \E r \in Run : r.at = at
<1>1. runs[k] \in Run
  BY DEF TypedInv, TypeOK
<1>2. [runs[k] EXCEPT !.at = at] \in Run /\ [runs[k] EXCEPT !.at = at].at = at
  BY <1>1 DEF Run, Ended
<1> QED BY <1>2

(* The other places are open to every run.                                  *)
LEMMA MoveTo ==
  ASSUME BatchAssumption, TypedInv, NEW k \in Keys,
         NEW at \in {"queued", "executing", "check", "save", "rename", "flush",
                     "done", "collected", "raised"},
         With(k, at)
  PROVE  Moved(k)
BY Places, WithMoves

(* Every step of a run moves that run only, within its type.                *)
LEMMA RunStepMoves ==
  ASSUME BatchAssumption, TypedInv, NEW k \in Keys, RunStep(k)
  PROVE  Moved(k)
<1> DEFINE r == runs[k]
<1>0. /\ r.goal = "save" => r.retries = 0
      /\ r \in Run /\ r.result.key = k /\ executed[k] \in Nat /\ runs \in [Keys -> Run]
      /\ discarded.results \in SUBSET Result
  BY DEF TypedInv, TypeOK, OwnKey, ReplacesLater
<1>1. CASE Start(k)
  BY <1>1, MoveTo DEF Start
<1>2. CASE ExecuteOk(k)
  <2>1. PICK kind \in ResultKinds :
          runs' = [runs EXCEPT ![k].result = NewResult(k, kind),
                               ![k].at = IF r.goal = "save" THEN "save" ELSE "check"]
    BY <1>2 DEF ExecuteOk, ResultKinds
  <2>2. NewResult(k, kind) \in Result /\ NewResult(k, kind).key = k
    BY NewResultFacts DEF TypedInv
  <2> DEFINE s == [r EXCEPT !.result = NewResult(k, kind),
                            !.at = IF r.goal = "save" THEN "save" ELSE "check"]
  <2>3. s \in Run /\ s.result.key = k /\ s.goal = r.goal /\ s.retries = r.retries
        /\ s.at \notin {"discard", "truncate", "append", "replace", "write"}
    BY <1>0, <2>2 DEF Run
  <2>4. runs' = [runs EXCEPT ![k] = s]
    BY <1>0, <2>1
  <2> QED BY <1>0, <2>3, <2>4 DEF Moved
<1>3. CASE ExecuteFails(k)
  <2>1. CASE AttemptFailed(k)
    BY <1>0, <2>1, AttemptFailedFacts DEF Moved
  <2>2. CASE With(k, "raised")
    BY <2>2, MoveTo
  <2> QED BY <1>3, <2>1, <2>2 DEF ExecuteFails
<1>4. CASE Check(k)
  <2>0. CASE With(k, "raised")
    BY <2>0, MoveTo
  <2> SUFFICES ASSUME ~With(k, "raised")
               PROVE  Moved(k)
    BY <2>0
  <2>1. CASE r.result.kind = "hallucinated" /\ r.retries < HallucinationRetries
    <3>1. With(k, "discard")
      BY <1>4, <2>1 DEF Check
    <3> QED BY <2>1, <3>1, Places, WithMoves
  <2>2. CASE ~(r.result.kind = "hallucinated" /\ r.retries < HallucinationRetries)
    <3>1. CASE r.retries > 0
      <4>1. With(k, "replace")
        BY <1>4, <2>2, <3>1 DEF Check
      <4>2. r.goal = "replace"
        BY <1>0, <3>1 DEF Run
      <4> QED BY <4>1, <4>2, Places, WithMoves
    <3>2. CASE ~(r.retries > 0)
      <4>1. With(k, "done")
        BY <1>4, <2>2, <3>2 DEF Check
      <4> QED BY <4>1, MoveTo
    <3> QED BY <3>1, <3>2
  <2> QED BY <2>1, <2>2
<1>5. CASE ReadDiscarded(k)
  <2>1. CASE discarded.torn
    <3>1. With(k, "raised")
      BY <1>5, <2>1 DEF ReadDiscarded, With
    <3> QED BY <3>1, MoveTo
  <2>2. CASE ~discarded.torn
    <3> DEFINE s == [r EXCEPT !.at = "truncate", !.seen = discarded.results]
    <3>1. runs' = [runs EXCEPT ![k] = s]
      BY <1>0, <1>5, <2>2 DEF ReadDiscarded
    <3>2. s \in Run /\ s.result.key = k /\ s.retries = r.retries
      BY <1>0 DEF Run
    <3>3. r.retries < HallucinationRetries
      BY <1>5 DEF ReadDiscarded, TypedInv, RetriesLeft
    <3> QED BY <1>0, <3>1, <3>2, <3>3 DEF Moved
  <2> QED BY <2>1, <2>2
<1>6. CASE TruncateDiscarded(k)
  <2>1. With(k, "append") /\ r.retries < HallucinationRetries
    BY <1>6 DEF TruncateDiscarded, TypedInv, RetriesLeft
  <2> QED BY <2>1, Places, WithMoves
<1>7. CASE AppendDiscarded(k)
  <2> DEFINE s == [r EXCEPT !.at = "executing", !.goal = "replace",
                            !.retries = @ + 1, !.seen = {}]
  <2>1. runs' = [runs EXCEPT ![k] = s]
    BY <1>0, <1>7 DEF AppendDiscarded
  <2>2. r.retries < HallucinationRetries
    BY <1>7 DEF AppendDiscarded, TypedInv, RetriesLeft
  <2>3. r.retries + 1 \in 0 .. HallucinationRetries
    BY <1>0, <2>2 DEF Run, BatchAssumption
  <2>4. s \in Run /\ s.result.key = k /\ s.at = "executing" /\ s.goal = "replace"
    BY <1>0, <2>3 DEF Run
  <2> QED BY <1>0, <2>1, <2>4 DEF Moved
<1>8. CASE SkipDuplicate(k) \/ Flush(k)
  <2>1. With(k, "done") \/ With(k, "check")
    BY <1>8 DEF SkipDuplicate, Flush, Stored
  <2> QED BY <2>1, MoveTo
<1>9. CASE BeginSave(k) \/ WriteReplacement(k)
  <2>1. With(k, "rename")
    BY <1>9 DEF BeginSave, WriteReplacement
  <2> QED BY <2>1, MoveTo
<1>10. CASE BeginReplace(k)
  <2>1. With(k, "write") /\ r.goal = "replace"
    BY <1>10 DEF BeginReplace, TypedInv, ReplacesLater
  <2> QED BY <2>1, Places, WithMoves
<1>11. CASE Rename(k)
  <2>1. With(k, "flush") \/ With(k, "done") \/ With(k, "check")
    BY <1>11 DEF Rename, Stored
  <2> QED BY <2>1, MoveTo
<1>12. CASE StoreFails(k)
  <2>1. CASE AttemptFailed(k)
    BY <1>0, <2>1, AttemptFailedFacts DEF Moved
  <2>2. CASE With(k, "raised")
    BY <2>2, MoveTo
  <2> QED BY <1>12, <2>1, <2>2 DEF StoreFails
<1>13. CASE Collect(k)
  <2>1. With(k, "collected")
    BY <1>13 DEF Collect
  <2> QED BY <2>1, MoveTo
<1>14. CASE RunRaised(k)
  BY <1>0, <1>14 DEF RunRaised, Moved, TypedInv, RetriesLeft
<1> QED
  BY <1>1, <1>2, <1>3, <1>4, <1>5, <1>6, <1>7, <1>8, <1>9, <1>10, <1>11, <1>12,
     <1>13, <1>14 DEF RunStep

(* The files and the memory keep their types in every step of a run.        *)
LEMMA RunStepTypes ==
  ASSUME BatchAssumption, TypedInv, NEW k \in Keys, RunStep(k)
  PROVE  TypedInv'
<1>1. Moved(k)
  BY RunStepMoves
<1>2. runs' \in [Keys -> Run] /\ RetriesLeft' /\ OwnKey' /\ ReplacesLater'
  BY <1>1 DEF Moved, TypedInv, RetriesLeft, OwnKey, ReplacesLater
<1>3. runs[k] \in Run
  BY DEF TypedInv, TypeOK
<1>4. runs[k].result \in Result
  BY <1>3 DEF Run
<1> USE DEF TypedInv, disk
<1>5. CASE Start(k) \/ Check(k) \/ ReadDiscarded(k) \/ SkipDuplicate(k)
  BY <1>2, <1>5 DEF Start, Check, ReadDiscarded, SkipDuplicate, TypeOK
<1>6. CASE ExecuteOk(k)
  <2>1. executed' \in [Keys -> Nat]
    BY <1>6 DEF ExecuteOk, TypeOK
  <2> QED BY <1>2, <1>6, <2>1 DEF ExecuteOk, TypeOK
<1>7. CASE ExecuteFails(k)
  <2>1. executed' \in [Keys -> Nat]
    BY <1>7, AttemptFailedFacts DEF ExecuteFails, TypeOK
  <2> QED BY <1>2, <1>7, <2>1 DEF ExecuteFails, TypeOK
<1>8. CASE TruncateDiscarded(k)
  BY <1>2, <1>8 DEF TruncateDiscarded, TypeOK
<1>9. CASE AppendDiscarded(k)
  <2>1. runs[k].seen \in SUBSET Result
    BY <1>3 DEF Run
  <2> QED BY <1>2, <1>4, <1>9, <2>1 DEF AppendDiscarded, TypeOK
<1>10. CASE BeginSave(k) \/ WriteReplacement(k)
  BY <1>2, <1>10 DEF BeginSave, WriteReplacement, MetaWhileWriting, TypeOK
<1>11. CASE BeginReplace(k)
  <2>1. sims' \in SUBSET Result /\ entries' \in SUBSET Result
    BY <1>11 DEF BeginReplace, EntriesWithout, OldFile, OfKey, TypeOK
  <2> QED BY <1>2, <1>11, <2>1 DEF BeginReplace, TypeOK
<1>12. CASE Rename(k)
  <2>1. sims' \in SUBSET Result /\ known' \in SUBSET Result /\ entries' \in SUBSET Result
    BY <1>4, <1>12 DEF Rename, OldInJson, OfKey, TypeOK
  <2> QED BY <1>2, <1>12, <2>1 DEF Rename, TypeOK
<1>13. CASE Flush(k)
  BY <1>2, <1>13 DEF Flush, TypeOK
<1>14. CASE StoreFails(k)
  <2>1. executed' \in [Keys -> Nat]
    BY <1>14, AttemptFailedFacts DEF StoreFails, TypeOK
  <2> QED BY <1>2, <1>14, <2>1 DEF StoreFails, ReleasedLock, TypeOK
<1>15. CASE Collect(k)
  BY <1>2, <1>4, <1>15 DEF Collect, TypeOK
<1>16. CASE RunRaised(k)
  BY <1>2, <1>16 DEF RunRaised, TypeOK
<1> QED
  BY <1>5, <1>6, <1>7, <1>8, <1>9, <1>10, <1>11, <1>12, <1>13, <1>14, <1>15, <1>16
     DEF RunStep

(* A batch starts with idle runs.                                           *)
LEMMA StartRunsTypes ==
  ASSUME BatchAssumption, NEW results \in SUBSET Result, StartRuns(results)
  PROVE  /\ runs' \in [Keys -> Run] /\ RetriesLeft' /\ OwnKey' /\ ReplacesLater'
         /\ \A k \in Keys : runs'[k].at \in {"queued", "skipped"}
         /\ \A k \in Keys : runs'[k].at # "skipped" => OfKey(results, k) = {}
         /\ process' = "running" /\ known' = {} /\ memory' = results /\ entries' = results
<1> DEFINE place(k) == IF Done(results, k) THEN "skipped" ELSE "queued"
<1>1. runs' = [k \in Keys |-> Idle(k, place(k))]
  BY DEF StartRuns
<1>2. \A k \in Keys : place(k) \in {"queued", "skipped"}
  OBVIOUS
<1>3. \A k \in Keys : /\ runs'[k] = Idle(k, place(k)) /\ runs'[k] \in Run
                      /\ runs'[k].at = place(k) /\ runs'[k].result.key = k
                      /\ runs'[k].retries = 0
  BY <1>1, <1>2, IdleFacts
<1>4. \A k \in Keys : place(k) # "skipped" => OfKey(results, k) = {}
  BY DEF Done, OfKey
<1> HIDE DEF place
<1> QED BY <1>1, <1>2, <1>3, <1>4 DEF StartRuns, RetriesLeft, OwnKey, ReplacesLater

\* Every step keeps the types.
LEMMA Typing ==
  ASSUME BatchAssumption, TypedInv, [Next]_vars
  PROVE  TypedInv'
<1> USE DEF TypedInv, disk
<1>1. CASE \E k \in Keys : RunStep(k)
  BY <1>1, RunStepTypes
<1>2. CASE BeginCreate \/ ResumeFails
  BY <1>2 DEF BeginCreate, ResumeFails, TypeOK, RetriesLeft, OwnKey, ReplacesLater
<1>3. CASE EndCreate
  <2>1. runs' \in [Keys -> Run] /\ RetriesLeft' /\ OwnKey' /\ ReplacesLater' /\ process' = "running"
        /\ known' = {} /\ memory' = {} /\ entries' = {}
    BY <1>3, StartRunsTypes DEF EndCreate
  <2> QED BY <1>3, <2>1 DEF EndCreate, TypeOK
<1>4. CASE Resume
  <2>1. Kept(sims) \in SUBSET Result
    BY DEF Kept, TypeOK
  <2>2. CASE Kept(sims) = sims
    <3>1. StartRuns(sims) /\ sims \in SUBSET Result
      BY <1>4, <2>2 DEF Resume, TypeOK
    <3>2. runs' \in [Keys -> Run] /\ RetriesLeft' /\ OwnKey' /\ ReplacesLater'
          /\ process' = "running" /\ known' = {} /\ memory' = sims /\ entries' = sims
      BY <3>1, StartRunsTypes
    <3> QED BY <1>4, <3>1, <3>2 DEF Resume, TypeOK
  <2>3. CASE Kept(sims) # sims
    BY <1>4, <2>1, <2>3 DEF Resume, TypeOK, RetriesLeft, OwnKey, ReplacesLater
  <2> QED BY <2>2, <2>3
<1>5. CASE UnlinkFailed \/ BeginRewrite
  BY <1>5 DEF UnlinkFailed, BeginRewrite, TypeOK, RetriesLeft, OwnKey, ReplacesLater
<1>6. CASE EndRewrite
  <2>1. StartRuns(memory) /\ memory \in SUBSET Result
    BY <1>6 DEF EndRewrite, TypeOK
  <2>2. runs' \in [Keys -> Run] /\ RetriesLeft' /\ OwnKey' /\ ReplacesLater' /\ process' = "running"
        /\ known' = {} /\ memory' = memory /\ entries' = memory
    BY <2>1, StartRunsTypes
  <2> QED BY <1>6, <2>1, <2>2 DEF EndRewrite, TypeOK
<1>7. CASE Finish \/ Interrupt \/ Die
  BY <1>7 DEF Finish, Interrupt, Die, TypeOK, RetriesLeft, OwnKey, ReplacesLater
<1>8. CASE Restart
  <2>1. \A k \in Keys : Idle(k, "queued") \in Run /\ Idle(k, "queued").at = "queued"
                        /\ Idle(k, "queued").result.key = k
                      /\ Idle(k, "queued").retries = 0
    BY IdleFacts
  <2>2. runs' = [k \in Keys |-> Idle(k, "queued")]
    BY <1>8 DEF Restart
  <2>3. runs' \in [Keys -> Run] /\ RetriesLeft' /\ OwnKey' /\ ReplacesLater'
    BY <2>1, <2>2 DEF RetriesLeft, OwnKey, ReplacesLater
  <2>4. session' \in 1 .. MaxSessions
    BY <1>8 DEF Restart, TypeOK, BatchAssumption
  <2> QED BY <1>8, <2>3, <2>4 DEF Restart, TypeOK
<1>9. CASE Over \/ UNCHANGED vars
  BY <1>9 DEF Over, vars, TypeOK, RetriesLeft, OwnKey, ReplacesLater
<1> QED
  BY <1>1, <1>2, <1>3, <1>4, <1>5, <1>6, <1>7, <1>8, <1>9 DEF Next, Boot

\* A fresh process is well typed.
LEMMA InitTyped == BatchAssumption /\ Init => TypedInv
<1> SUFFICES ASSUME BatchAssumption, Init PROVE TypedInv
  OBVIOUS
<1>1. \A k \in Keys : Idle(k, "queued") \in Run /\ Idle(k, "queued").at = "queued"
                      /\ Idle(k, "queued").result.key = k
                      /\ Idle(k, "queued").retries = 0
  BY IdleFacts
<1>2. runs \in [Keys -> Run] /\ RetriesLeft /\ OwnKey /\ ReplacesLater
  BY <1>1 DEF Init, RetriesLeft, OwnKey, ReplacesLater
<1>3. session \in 1 .. MaxSessions
  BY DEF Init, BatchAssumption
<1>4. executed \in [Keys -> Nat]
  BY DEF Init
<1> QED BY <1>2, <1>3, <1>4 DEF Init, TypedInv, TypeOK

(* Every variable of the batch keeps its type: no attempt is made beyond     *)
(* max_retries + 1, and none beyond hallucination_retries.                   *)
THEOREM TypeCorrect == Spec => []TypeOK
<1>1. Init => TypedInv
  BY InitTyped, BatchAssumption
<1>2. TypedInv /\ [Next]_vars => TypedInv'
  BY Typing, BatchAssumption
<1> QED BY <1>1, <1>2, PTL DEF Spec, TypedInv

-----------------------------------------------------------------------------
(* One result per run.                                                     *)

(* A step of a run that leaves files and saver alone and does not begin to   *)
(* store keeps the invariant.                                                *)
LEMMA QuietStep ==
  ASSUME TypedInv, StoredInv, NEW k \in Keys, Moved(k), Alive, Alive',
         sims' = sims, known' = known, meta' = meta,
         runs[k].at # "skipped", runs'[k].at \notin {"write", "rename"}
  PROVE  StoredInv'
<1>1. NothingYet' /\ OnePerKeyInMemory' /\ OnePerKey'
  BY DEF StoredInv, NothingYet, OnePerKeyInMemory, OnePerKey, Alive
<1>2. KnownHere'
  BY DEF StoredInv, KnownHere, Moved, OfKey
<1>3. FreeToStore'
  BY DEF StoredInv, FreeToStore, Moved, OfKey
<1> QED BY <1>1, <1>2, <1>3 DEF StoredInv

\* A step of one run keeps the agreement of the checkpoint with what the saver knows.
LEMMA RunStepStores ==
  ASSUME BatchAssumption, TypedInv, StoredInv, NEW k \in Keys, RunStep(k)
  PROVE  StoredInv'
<1>1. Moved(k)
  BY RunStepMoves
<1>2. runs \in [Keys -> Run] /\ runs[k] \in Run /\ runs[k].result.key = k
  BY DEF TypedInv, TypeOK, OwnKey
<1>a. Alive /\ runs[k].at # "skipped"
  BY <1>2 DEF RunStep, Start, ExecuteOk, ExecuteFails, Check, ReadDiscarded,
     TruncateDiscarded, AppendDiscarded, SkipDuplicate, BeginSave, BeginReplace,
     WriteReplacement, Rename, Flush, StoreFails, Collect, RunRaised, Alive
<1> USE DEF disk
<1>3. CASE ExecuteFails(k) \/ StoreFails(k)
  <2>1. runs'[k].at \in {"executing", "save", "raised"}
    <3>1. CASE AttemptFailed(k)
      BY <3>1, AttemptFailedFacts
    <3>2. CASE With(k, "raised")
      BY <3>2, <1>2 DEF With, Run
    <3> QED BY <1>3, <3>1, <3>2 DEF ExecuteFails, StoreFails
  <2>2. process' = process /\ sims' = sims /\ known' = known /\ meta' = meta
    BY <1>3 DEF ExecuteFails, StoreFails
  <2> QED BY <1>1, <1>a, <2>1, <2>2, QuietStep DEF Alive
<1>4. CASE \/ Start(k) \/ ExecuteOk(k) \/ Check(k) \/ ReadDiscarded(k)
           \/ TruncateDiscarded(k) \/ AppendDiscarded(k) \/ SkipDuplicate(k)
           \/ Flush(k) \/ Collect(k) \/ RunRaised(k)
  <2>1. runs'[k].at \notin {"write", "rename"}
    <3>1. CASE Start(k)
      BY <3>1, <1>2 DEF With, Start, Run
    <3>2. CASE ExecuteOk(k)
      BY <3>2, <1>2 DEF ExecuteOk, Run
    <3>3. CASE Check(k)
      BY <3>3, <1>2 DEF With, Check, Run
    <3>4. CASE ReadDiscarded(k)
      BY <3>4, <1>2 DEF ReadDiscarded, Run
    <3>5. CASE TruncateDiscarded(k)
      BY <3>5, <1>2 DEF With, TruncateDiscarded, Run
    <3>6. CASE AppendDiscarded(k)
      BY <3>6, <1>2 DEF AppendDiscarded, Run
    <3>7. CASE SkipDuplicate(k) \/ Flush(k)
      BY <3>7, <1>2 DEF With, SkipDuplicate, Flush, Stored, Run
    <3>8. CASE Collect(k) \/ RunRaised(k)
      BY <3>8, <1>2 DEF With, Collect, RunRaised, Run
    <3> QED BY <1>4, <3>1, <3>2, <3>3, <3>4, <3>5, <3>6, <3>7, <3>8
  <2>2. sims' = sims /\ known' = known /\ meta' = meta
    BY <1>4 DEF Start, ExecuteOk, Check, ReadDiscarded, TruncateDiscarded,
       AppendDiscarded, SkipDuplicate, Flush, Collect, RunRaised
  <2>3. Alive'
    BY <1>4, <1>a DEF Start, ExecuteOk, Check, ReadDiscarded, TruncateDiscarded,
       AppendDiscarded, SkipDuplicate, Flush, Collect, RunRaised, Alive
  <2> QED BY <1>1, <1>a, <2>1, <2>2, <2>3, QuietStep
<1>5. CASE BeginSave(k) \/ WriteReplacement(k)
  <2>1. /\ sims' = sims /\ known' = known /\ process' = process
        /\ meta' = meta /\ memory' = memory
    BY <1>5 DEF BeginSave, WriteReplacement, MetaWhileWriting
  <2>2. runs'[k].at = "rename" /\ runs'[k].goal = runs[k].goal
    BY <1>5, <1>2 DEF With, BeginSave, WriteReplacement, Run
  <2>3. NothingYet' /\ OnePerKeyInMemory' /\ OnePerKey'
    BY <2>1 DEF StoredInv, NothingYet, OnePerKeyInMemory, OnePerKey
  <2>4. KnownHere'
    BY <1>1, <1>a, <2>1 DEF StoredInv, KnownHere, Moved, OfKey, Alive
  <2>5. Format = "dir" \/ runs[k].goal = "save" => OfKey(sims, k) = {}
    <3>1. CASE BeginSave(k) /\ Format = "dir"
      <4>1. OfKey(known, k) = {}
        BY <3>1 DEF BeginSave, Duplicate
      <4>2. OfKey(sims, k) \subseteq known
        BY <3>1, <1>a DEF StoredInv, KnownHere
      <4> QED BY <4>1, <4>2 DEF OfKey
    <3>2. CASE BeginSave(k) /\ Format # "dir"
      BY <3>2 DEF BeginSave, Duplicate
    <3>3. CASE WriteReplacement(k)
      BY <3>3 DEF WriteReplacement, StoredInv, FreeToStore
    <3> QED BY <1>5, <3>1, <3>2, <3>3
  <2>6. FreeToStore'
    BY <1>1, <2>1, <2>2, <2>5 DEF StoredInv, FreeToStore, Moved, OfKey
  <2> QED BY <2>3, <2>4, <2>6 DEF StoredInv
<1>6. CASE BeginReplace(k)
  <2>1. /\ known' = known /\ process' = process /\ meta' = meta /\ memory' = memory
        /\ sims' \subseteq sims
    BY <1>6 DEF BeginReplace
  <2>2. runs'[k].at = "write" /\ runs'[k].goal = runs[k].goal
    BY <1>6, <1>2 DEF With, BeginReplace, Run
  <2>3. NothingYet' /\ OnePerKeyInMemory' /\ OnePerKey'
    BY <2>1 DEF StoredInv, NothingYet, OnePerKeyInMemory, OnePerKey
  <2>4. KnownHere'
    BY <1>1, <1>a, <2>1 DEF StoredInv, KnownHere, Moved, OfKey, Alive
  <2>5. Format = "dir" => OfKey(sims', k) = {}
    <3> SUFFICES ASSUME Format = "dir" PROVE OfKey(sims', k) = {}
      OBVIOUS
    <3>1. OfKey(sims, k) \subseteq known
      BY <1>a DEF StoredInv, KnownHere
    <3>2. sims' = sims \ OfKey(known, k)
      BY <1>6 DEF BeginReplace, OldFile
    <3> QED BY <3>1, <3>2 DEF OfKey
  <2>6. runs[k].goal = "replace"
    BY <1>6 DEF BeginReplace, TypedInv, ReplacesLater
  <2>7. FreeToStore'
    BY <1>1, <2>1, <2>2, <2>5, <2>6 DEF StoredInv, FreeToStore, Moved, OfKey
  <2> QED BY <2>3, <2>4, <2>7 DEF StoredInv
<1>7. CASE Rename(k)
  <2> DEFINE new == runs[k].result
  <2>1. process' = process /\ memory' = memory /\ meta' = "ok"
    BY <1>7 DEF Rename
  <2>2. runs'[k].at \in {"flush", "done", "check"}
    BY <1>7, <1>2 DEF With, Rename, Stored, Run
  <2>3. Format = "dir" \/ runs[k].goal = "save" => OfKey(sims, k) = {}
    BY <1>7 DEF Rename, StoredInv, FreeToStore
  <2>4. \E rest \in SUBSET sims : sims' = rest \cup {new} /\ OfKey(rest, k) = {}
    <3>1. CASE Format = "dir"
      BY <1>7, <2>3, <3>1 DEF Rename
    <3>2. CASE Format # "dir"
      <4>1. sims' = (sims \ OldInJson(k)) \cup {new}
        BY <1>7, <3>2 DEF Rename
      <4>2. OfKey(sims \ OldInJson(k), k) = {}
        BY <2>3, <1>2 DEF OldInJson, OfKey, Run
      <4> QED BY <4>1, <4>2
    <3> QED BY <3>1, <3>2
  <2>5. new.key = k
    BY <1>2
  <2>6. OnePerKey'
    BY <2>4, <2>5 DEF StoredInv, OnePerKey, OfKey
  <2>7. NothingYet' /\ OnePerKeyInMemory'
    BY <1>a, <2>1 DEF NothingYet, OnePerKeyInMemory, Alive, StoredInv
  <2>8. KnownHere'
    <3> SUFFICES ASSUME Format = "dir" PROVE KnownHere'
      BY DEF KnownHere
    <3>1. sims' = sims \cup {new} /\ known' = (known \ OfKey(known, k)) \cup {new}
      BY <1>7 DEF Rename
    <3>2. \A j \in Keys : j # k /\ runs'[j].at # "skipped" => OfKey(sims', j) \subseteq known'
      BY <1>1, <1>a, <2>5, <3>1 DEF StoredInv, KnownHere, Moved, OfKey
    <3>3. OfKey(sims', k) \subseteq known'
      BY <2>3, <2>5, <3>1 DEF OfKey
    <3> QED BY <3>2, <3>3 DEF KnownHere
  <2>9. FreeToStore'
    <3>1. \A j \in Keys : j # k => OfKey(sims', j) \subseteq OfKey(sims, j)
      BY <2>4, <2>5 DEF OfKey
    <3> QED BY <1>1, <2>2, <3>1 DEF StoredInv, FreeToStore, Moved
  <2> QED BY <2>6, <2>7, <2>8, <2>9 DEF StoredInv
<1> QED
  BY <1>3, <1>4, <1>5, <1>6, <1>7 DEF RunStep

(* try_resume, and the end of the process.                                   *)
LEMMA ProcessStepStores ==
  ASSUME BatchAssumption, TypedInv, StoredInv,
         Boot \/ Finish \/ Interrupt \/ Die \/ Restart \/ Over \/ UNCHANGED vars
  PROVE  StoredInv'
<1> USE DEF disk
<1>1. CASE BeginCreate \/ ResumeFails
  BY <1>1 DEF BeginCreate, ResumeFails, StoredInv, NothingYet, KnownHere, FreeToStore,
     OnePerKeyInMemory, OnePerKey, OfKey, Alive
<1>2. CASE EndCreate
  <2>1. sims' = {}
    BY <1>2 DEF EndCreate, StoredInv, NothingYet
  <2>2. process' = "running"
    BY <1>2 DEF EndCreate, StartRuns
  <2> QED
    BY <2>1, <2>2 DEF StoredInv, NothingYet, KnownHere, FreeToStore, OnePerKeyInMemory,
       OnePerKey, OfKey
<1>3. CASE \E results : /\ StartRuns(results) /\ results = sims'
                        /\ results \in SUBSET Result /\ meta' = "ok"
                        /\ \A s, t \in results : s.key = t.key => s = t
  <2>1. PICK results : /\ StartRuns(results) /\ results = sims'
                       /\ results \in SUBSET Result /\ meta' = "ok"
                       /\ \A s, t \in results : s.key = t.key => s = t
    BY <1>3
  <2>2. /\ \A k \in Keys : runs'[k].at \in {"queued", "skipped"}
        /\ \A k \in Keys : runs'[k].at # "skipped" => OfKey(results, k) = {}
        /\ process' = "running"
    BY <2>1, StartRunsTypes
  <2> QED
    BY <2>1, <2>2 DEF StoredInv, NothingYet, KnownHere, FreeToStore, OnePerKeyInMemory,
       OnePerKey, OfKey
<1>4. CASE Resume
  <2>1. CASE Kept(sims) = sims
    <3>1. StartRuns(sims) /\ sims' = sims /\ meta' = "ok"
      BY <1>4, <2>1 DEF Resume, Loadable
    <3>2. sims \in SUBSET Result /\ \A s, t \in sims : s.key = t.key => s = t
      BY DEF TypedInv, TypeOK, StoredInv, OnePerKey
    <3> QED BY <1>3, <3>1, <3>2
  <2>2. CASE Kept(sims) # sims
    <3>1. /\ process' = "rewriting" /\ memory' = Kept(sims) /\ sims' = sims
          /\ meta' = meta /\ meta = "ok" /\ runs' = runs
      BY <1>4, <2>2 DEF Resume, Loadable
    <3> QED
      BY <3>1 DEF StoredInv, NothingYet, KnownHere, FreeToStore, OnePerKeyInMemory,
         OnePerKey, OfKey, Kept, Alive
  <2> QED BY <2>1, <2>2
<1>5. CASE UnlinkFailed \/ BeginRewrite
  <2>1. /\ process' = "rewriting" /\ process = "rewriting" /\ memory' = memory
        /\ runs' = runs /\ sims' \subseteq sims /\ meta' # "absent"
    BY <1>5 DEF UnlinkFailed, BeginRewrite
  <2> QED
    BY <2>1 DEF StoredInv, NothingYet, KnownHere, FreeToStore, OnePerKeyInMemory,
       OnePerKey, OfKey, Alive
<1>6. CASE EndRewrite
  <2>1. StartRuns(memory) /\ sims' = memory /\ meta' = "ok" /\ memory \in SUBSET Result
    BY <1>6 DEF EndRewrite, TypedInv, TypeOK
  <2>2. \A s, t \in memory : s.key = t.key => s = t
    BY <1>6 DEF EndRewrite, StoredInv, OnePerKeyInMemory
  <2> QED BY <1>3, <2>1, <2>2
<1>7. CASE Finish \/ Interrupt \/ Die
  <2>1. /\ sims' = sims /\ meta' = meta /\ known' = known /\ runs' = runs
        /\ memory' = memory /\ process' \notin {"creating", "rewriting"}
        /\ Alive' => Alive
    BY <1>7 DEF Finish, Interrupt, Die, Alive
  <2> QED
    BY <2>1 DEF StoredInv, NothingYet, KnownHere, FreeToStore, OnePerKeyInMemory,
       OnePerKey, OfKey
<1>8. CASE Restart
  <2>1. /\ sims' = sims /\ meta' = meta /\ process' = "new"
        /\ runs' = [k \in Keys |-> Idle(k, "queued")]
    BY <1>8 DEF Restart
  <2>2. \A k \in Keys : runs'[k].at = "queued"
    BY <2>1, IdleFacts
  <2> QED
    BY <2>1, <2>2 DEF StoredInv, NothingYet, KnownHere, FreeToStore, OnePerKeyInMemory,
       OnePerKey, Alive
<1>9. CASE Over \/ UNCHANGED vars
  BY <1>9 DEF Over, vars, StoredInv, NothingYet, KnownHere, FreeToStore,
     OnePerKeyInMemory, OnePerKey, OfKey, Alive
<1> QED BY <1>1, <1>2, <1>4, <1>5, <1>6, <1>7, <1>8, <1>9 DEF Boot

(* The invariant holds in every state of a batch.                              *)
LEMMA AlwaysStored == Spec => []IInv
<1>1. Init => IInv
  <2>1. Init => StoredInv
    BY DEF Init, StoredInv, NothingYet, KnownHere, FreeToStore, OnePerKeyInMemory,
       OnePerKey, OfKey, Alive
  <2> QED BY <2>1, InitTyped, BatchAssumption DEF IInv
<1>2. IInv /\ [Next]_vars => IInv'
  <2>1. ASSUME IInv, Next PROVE StoredInv'
    BY <2>1, RunStepStores, ProcessStepStores, BatchAssumption DEF Next, IInv
  <2>2. ASSUME IInv, UNCHANGED vars PROVE StoredInv'
    BY <2>2, ProcessStepStores, BatchAssumption DEF IInv
  <2> QED BY <2>1, <2>2, Typing, BatchAssumption DEF IInv
<1> QED BY <1>1, <1>2, PTL DEF Spec

(* The checkpoint never holds two results for one run: not after retries,     *)
(* replacements, failed writes, crashes in any file operation and resumes, in *)
(* either format.                                                             *)
THEOREM NoDuplicates == Spec => []OnePerKey
<1>1. IInv => OnePerKey
  BY DEF IInv, StoredInv
<1> QED BY <1>1, AlwaysStored, PTL

-----------------------------------------------------------------------------
(* What a step of a run does to that run.                                  *)

\* Run k goes to a place and keeps its goal, its result and its retries.
Goes(k, at) ==
    /\ runs'[k].at = at
    /\ runs'[k].goal = runs[k].goal
    /\ runs'[k].result = runs[k].result
    /\ runs'[k].retries = runs[k].retries

\* It gets a result of its own and goes to a place with it.
Gets(k, kind, at) ==
    /\ runs'[k].at = at
    /\ runs'[k].goal = runs[k].goal
    /\ runs'[k].result = NewResult(k, kind)
    /\ runs'[k].retries = runs[k].retries
    /\ executed' = [executed EXCEPT ![k] = @ + 1]

\* A failed attempt is made again, or its placeholder is to be stored.
Again(k) ==
    \/ Goes(k, "executing") /\ UNCHANGED executed
    \/ Gets(k, "infra", "save")

saver == <<memory, known, entries, index, sims>>

(* With is such a move.                                                     *)
LEMMA WithGoes ==
  ASSUME TypedInv, NEW k \in Keys, NEW at, With(k, at)
  PROVE  Goes(k, at)
<1>1. runs \in [Keys -> Run] /\ runs[k] \in Run
  BY DEF TypedInv, TypeOK
<1>2. runs'[k] = [runs[k] EXCEPT !.at = at]
  BY <1>1 DEF With
<1> QED BY <1>1, <1>2 DEF Goes, Run

\* A failed attempt is one of the ways to go on without storing anything.
LEMMA AttemptFailedAgain ==
  ASSUME TypedInv, NEW k \in Keys, AttemptFailed(k)
  PROVE  Again(k)
<1>1. runs \in [Keys -> Run] /\ runs[k] \in Run
  BY DEF TypedInv, TypeOK
<1>2. CASE runs[k].attempt < MaxRetries /\ process # "stopping"
  <2>1. runs'[k] = [runs[k] EXCEPT !.at = "executing", !.attempt = @ + 1]
    BY <1>1, <1>2 DEF AttemptFailed
  <2>2. executed' = executed
    BY <1>2 DEF AttemptFailed
  <2> QED BY <1>1, <2>1, <2>2 DEF Goes, Again, Run
<1>3. CASE ~(runs[k].attempt < MaxRetries /\ process # "stopping")
  <2>1. /\ runs'[k] = GivesUp(k)
        /\ executed' = [executed EXCEPT ![k] = @ + 1]
    BY <1>1, <1>3 DEF AttemptFailed
  <2> QED BY <1>1, <2>1 DEF Gets, Again, GivesUp, Run
<1> QED BY <1>2, <1>3

(* The attempts of a run.                                                   *)
LEMMA AttemptsDo ==
  ASSUME TypedInv, NEW k \in Keys
  PROVE  /\ Start(k) =>
              /\ runs[k].at = "queued" /\ Goes(k, "executing")
              /\ UNCHANGED <<saver, executed, stray, lock>>
         /\ ExecuteOk(k) =>
              /\ runs[k].at = "executing"
              /\ \E kind \in {"good", "hallucinated"} :
                   Gets(k, kind, IF runs[k].goal = "save" THEN "save" ELSE "check")
              /\ UNCHANGED <<saver, stray, lock>>
         /\ ExecuteFails(k) =>
              /\ runs[k].at = "executing"
              /\ \/ runs[k].goal = "save" /\ Again(k)
                 \/ runs[k].goal # "save" /\ Goes(k, "raised") /\ UNCHANGED executed
              /\ UNCHANGED <<saver, stray, lock>>
<1>1. runs \in [Keys -> Run] /\ runs[k] \in Run
  BY DEF TypedInv, TypeOK
<1>2. ASSUME Start(k)
      PROVE  /\ runs[k].at = "queued" /\ Goes(k, "executing")
             /\ UNCHANGED <<saver, executed, stray, lock>>
  BY <1>2, WithGoes DEF Start, saver, disk
<1>3. ASSUME ExecuteOk(k)
      PROVE  /\ runs[k].at = "executing"
             /\ \E kind \in {"good", "hallucinated"} :
                  Gets(k, kind, IF runs[k].goal = "save" THEN "save" ELSE "check")
             /\ UNCHANGED <<saver, stray, lock>>
  <2>1. PICK kind \in {"good", "hallucinated"} :
          runs' = [runs EXCEPT ![k].result = NewResult(k, kind),
                               ![k].at = IF runs[k].goal = "save" THEN "save" ELSE "check"]
    BY <1>3 DEF ExecuteOk
  <2>2. runs'[k] = [runs[k] EXCEPT !.result = NewResult(k, kind),
                                   !.at = IF runs[k].goal = "save" THEN "save" ELSE "check"]
    BY <1>1, <2>1
  <2>3. executed' = [executed EXCEPT ![k] = @ + 1]
    BY <1>3 DEF ExecuteOk
  <2>4. Gets(k, kind, IF runs[k].goal = "save" THEN "save" ELSE "check")
    BY <1>1, <2>2, <2>3 DEF Gets, Run
  <2> QED BY <1>3, <2>4 DEF ExecuteOk, saver, disk
<1>4. ASSUME ExecuteFails(k)
      PROVE  /\ runs[k].at = "executing"
             /\ \/ runs[k].goal = "save" /\ Again(k)
                \/ runs[k].goal # "save" /\ Goes(k, "raised") /\ UNCHANGED executed
             /\ UNCHANGED <<saver, stray, lock>>
  BY <1>4, WithGoes, AttemptFailedAgain DEF ExecuteFails, saver, disk
<1> QED BY <1>2, <1>3, <1>4

(* The check of a result and the bookkeeping of a discarded one.            *)
LEMMA ChecksDo ==
  ASSUME TypedInv, NEW k \in Keys
  PROVE  /\ Check(k) =>
              /\ runs[k].at = "check"
              /\ \/ Goes(k, "raised")
                 \/ Goes(k, "discard") /\ runs[k].result.kind = "hallucinated"
                 \/ /\ Goes(k, "replace") \/ Goes(k, "done")
                    /\ \/ runs[k].result.kind # "hallucinated"
                       \/ runs[k].retries = HallucinationRetries
                    /\ Goes(k, "replace") => runs[k].goal = "replace"
                    /\ Goes(k, "done") => runs[k].retries = 0
              /\ UNCHANGED <<saver, executed, stray, lock>>
         /\ ReadDiscarded(k) =>
              /\ runs[k].at = "discard" /\ (Goes(k, "raised") \/ Goes(k, "truncate"))
              /\ UNCHANGED <<saver, executed, stray, lock>>
         /\ TruncateDiscarded(k) =>
              /\ runs[k].at = "truncate" /\ Goes(k, "append")
              /\ UNCHANGED <<saver, executed, stray, lock>>
         /\ AppendDiscarded(k) =>
              /\ runs[k].at = "append"
              /\ runs'[k].at = "executing" /\ runs'[k].goal = "replace"
              /\ runs'[k].result = runs[k].result
              /\ runs'[k].retries = runs[k].retries + 1
              /\ UNCHANGED <<saver, executed, stray, lock>>
<1>1. /\ runs \in [Keys -> Run] /\ runs[k] \in Run
      /\ runs[k].goal = "save" => runs[k].retries = 0
  BY DEF TypedInv, TypeOK, ReplacesLater
<1>2. ASSUME Check(k)
      PROVE  /\ runs[k].at = "check"
             /\ \/ Goes(k, "raised")
                \/ Goes(k, "discard") /\ runs[k].result.kind = "hallucinated"
                \/ /\ Goes(k, "replace") \/ Goes(k, "done")
                   /\ runs[k].result.kind # "hallucinated" \/ runs[k].retries = HallucinationRetries
                   /\ Goes(k, "replace") => runs[k].goal = "replace"
                   /\ Goes(k, "done") => runs[k].retries = 0
             /\ UNCHANGED <<saver, executed, stray, lock>>
  <2>0. /\ runs[k].at = "check" /\ UNCHANGED <<saver, executed, stray, lock>>
        /\ runs[k].retries \in 0 .. HallucinationRetries
    BY <1>1, <1>2 DEF Check, saver, disk, Run
  <2>a. CASE With(k, "raised")
    <3>1. Goes(k, "raised")
      BY <1>1, <2>a, WithGoes
    <3> QED BY <2>0, <3>1
  <2> SUFFICES ASSUME ~With(k, "raised")
               PROVE  \/ Goes(k, "discard") /\ runs[k].result.kind = "hallucinated"
                      \/ /\ Goes(k, "replace") \/ Goes(k, "done")
                         /\ \/ runs[k].result.kind # "hallucinated"
                            \/ runs[k].retries = HallucinationRetries
                         /\ Goes(k, "replace") => runs[k].goal = "replace"
                         /\ Goes(k, "done") => runs[k].retries = 0
    BY <2>0, <2>a
  <2>1. CASE runs[k].result.kind = "hallucinated" /\ runs[k].retries < HallucinationRetries
    <3>1. Goes(k, "discard")
      BY <1>2, <2>1, WithGoes DEF Check
    <3> QED BY <2>0, <2>1, <3>1
  <2>2. CASE ~(runs[k].result.kind = "hallucinated" /\ runs[k].retries < HallucinationRetries)
    <3>0. runs[k].result.kind # "hallucinated" \/ runs[k].retries = HallucinationRetries
      BY <2>0, <2>2, BatchAssumption DEF BatchAssumption
    <3>1. CASE runs[k].retries > 0
      <4>1. Goes(k, "replace")
        BY <1>2, <2>2, <3>1, WithGoes DEF Check
      <4>2. runs[k].goal = "replace" /\ ~Goes(k, "done")
        BY <1>1, <3>1, <4>1 DEF Run, Goes
      <4> QED BY <2>0, <3>0, <4>1, <4>2
    <3>2. CASE ~(runs[k].retries > 0)
      <4>1. Goes(k, "done")
        BY <1>2, <2>2, <3>2, WithGoes DEF Check
      <4>2. runs[k].retries = 0 /\ ~Goes(k, "replace")
        BY <2>0, <3>2, <4>1 DEF Goes
      <4> QED BY <2>0, <3>0, <4>1, <4>2
    <3> QED BY <3>1, <3>2
  <2> QED BY <2>1, <2>2
<1>3. ASSUME ReadDiscarded(k)
      PROVE  /\ runs[k].at = "discard" /\ (Goes(k, "raised") \/ Goes(k, "truncate"))
             /\ UNCHANGED <<saver, executed, stray, lock>>
  <2>1. CASE discarded.torn
    <3>1. With(k, "raised")
      BY <1>3, <2>1 DEF ReadDiscarded, With
    <3> QED BY <1>3, <3>1, WithGoes DEF ReadDiscarded, saver, disk
  <2>2. CASE ~discarded.torn
    <3>1. runs'[k] = [runs[k] EXCEPT !.at = "truncate", !.seen = discarded.results]
      BY <1>1, <1>3, <2>2 DEF ReadDiscarded
    <3>2. Goes(k, "truncate")
      BY <1>1, <3>1 DEF Goes, Run
    <3> QED BY <1>3, <3>2 DEF ReadDiscarded, saver, disk
  <2> QED BY <2>1, <2>2
<1>4. ASSUME TruncateDiscarded(k)
      PROVE  /\ runs[k].at = "truncate" /\ Goes(k, "append")
             /\ UNCHANGED <<saver, executed, stray, lock>>
  BY <1>4, WithGoes DEF TruncateDiscarded, saver, disk
<1>5. ASSUME AppendDiscarded(k)
      PROVE  /\ runs[k].at = "append"
             /\ runs'[k].at = "executing" /\ runs'[k].goal = "replace"
             /\ runs'[k].result = runs[k].result
             /\ runs'[k].retries = runs[k].retries + 1
             /\ UNCHANGED <<saver, executed, stray, lock>>
  <2>1. runs'[k] = [runs[k] EXCEPT !.at = "executing", !.goal = "replace",
                                   !.retries = @ + 1, !.seen = {}]
    BY <1>1, <1>5 DEF AppendDiscarded
  <2> QED BY <1>1, <1>5, <2>1 DEF AppendDiscarded, saver, disk, Run
<1> QED BY <1>2, <1>3, <1>4, <1>5

(* The storing of a result.                                                 *)
LEMMA StoringDoes ==
  ASSUME TypedInv, NEW k \in Keys
  PROVE  /\ SkipDuplicate(k) =>
              /\ runs[k].at = "save" /\ Goes(k, Stored(k)) /\ Duplicate(k)
              /\ UNCHANGED <<saver, executed, stray, lock>>
         /\ BeginSave(k) =>
              /\ runs[k].at = "save" /\ Goes(k, "rename") /\ ~Duplicate(k)
              /\ UNCHANGED <<saver, executed>>
              /\ stray' = TRUE /\ lock = NoKey /\ lock' = k
         /\ BeginReplace(k) =>
              /\ runs[k].at = "replace" /\ Goes(k, "write")
              /\ UNCHANGED <<memory, known, index, executed, stray>>
              /\ lock = NoKey /\ lock' = k
              /\ IF Format = "dir"
                   THEN /\ sims' = sims \ OfKey(known, k)
                        /\ entries' = entries \ OfKey(known, k)
                   ELSE UNCHANGED <<sims, entries>>
         /\ WriteReplacement(k) =>
              /\ runs[k].at = "write" /\ Goes(k, "rename")
              /\ UNCHANGED <<saver, executed, lock>> /\ stray' = TRUE
         /\ Rename(k) =>
              /\ runs[k].at = "rename" /\ UNCHANGED <<memory, index, executed>>
              /\ stray' = FALSE
              /\ IF Format = "dir"
                   THEN /\ sims' = sims \cup {runs[k].result}
                        /\ known' = (known \ OfKey(known, k)) \cup {runs[k].result}
                        /\ entries' = entries \cup {runs[k].result}
                        /\ Goes(k, "flush") /\ lock' = lock
                   ELSE /\ sims' = (sims \ OldInJson(k)) \cup {runs[k].result}
                        /\ Goes(k, Stored(k)) /\ lock' = NoKey
                        /\ UNCHANGED <<known, entries>>
         /\ Flush(k) =>
              /\ runs[k].at = "flush" /\ Goes(k, Stored(k))
              /\ UNCHANGED <<memory, known, entries, sims, executed, stray>>
              /\ index' = entries /\ lock' = NoKey
         /\ StoreFails(k) =>
              /\ CanFail /\ runs[k].at \in {"rename", "flush"}
              /\ \/ /\ runs[k].goal = "save" /\ runs[k].result.kind # "infra"
                    /\ Again(k)
                 \/ Goes(k, "raised") /\ UNCHANGED executed
              /\ runs[k].goal = "replace" => Goes(k, "raised")
              /\ UNCHANGED saver /\ stray' = FALSE /\ lock' = NoKey
         /\ Collect(k) =>
              /\ runs[k].at = "done" /\ Goes(k, "collected")
              /\ memory' = memory \cup {runs[k].result}
              /\ UNCHANGED <<known, entries, index, sims, executed, stray, lock>>
         /\ RunRaised(k) =>
              UNCHANGED <<runs, saver, executed, stray, lock>>
<1>1. ASSUME SkipDuplicate(k)
      PROVE  /\ runs[k].at = "save" /\ Goes(k, Stored(k)) /\ Duplicate(k)
             /\ UNCHANGED <<saver, executed, stray, lock>>
  BY <1>1, WithGoes DEF SkipDuplicate, saver, disk
<1>2. ASSUME BeginSave(k)
      PROVE  /\ runs[k].at = "save" /\ Goes(k, "rename") /\ ~Duplicate(k)
             /\ UNCHANGED <<saver, executed>>
             /\ stray' = TRUE /\ lock = NoKey /\ lock' = k
  BY <1>2, WithGoes DEF BeginSave, saver
<1>3. ASSUME BeginReplace(k)
      PROVE  /\ runs[k].at = "replace" /\ Goes(k, "write")
             /\ UNCHANGED <<memory, known, index, executed, stray>>
             /\ lock = NoKey /\ lock' = k
             /\ IF Format = "dir"
                  THEN /\ sims' = sims \ OfKey(known, k)
                       /\ entries' = entries \ OfKey(known, k)
                  ELSE UNCHANGED <<sims, entries>>
  BY <1>3, WithGoes DEF BeginReplace, EntriesWithout, OldFile
<1>4. ASSUME WriteReplacement(k)
      PROVE  /\ runs[k].at = "write" /\ Goes(k, "rename")
             /\ UNCHANGED <<saver, executed, lock>> /\ stray' = TRUE
  BY <1>4, WithGoes DEF WriteReplacement, saver
<1>5. ASSUME Rename(k)
      PROVE  /\ runs[k].at = "rename" /\ UNCHANGED <<memory, index, executed>>
             /\ stray' = FALSE
             /\ IF Format = "dir"
                  THEN /\ sims' = sims \cup {runs[k].result}
                       /\ known' = (known \ OfKey(known, k)) \cup {runs[k].result}
                       /\ entries' = entries \cup {runs[k].result}
                       /\ Goes(k, "flush") /\ lock' = lock
                  ELSE /\ sims' = (sims \ OldInJson(k)) \cup {runs[k].result}
                       /\ Goes(k, Stored(k)) /\ lock' = NoKey
                       /\ UNCHANGED <<known, entries>>
  BY <1>5, WithGoes DEF Rename
<1>6. ASSUME Flush(k)
      PROVE  /\ runs[k].at = "flush" /\ Goes(k, Stored(k))
             /\ UNCHANGED <<memory, known, entries, sims, executed, stray>>
             /\ index' = entries /\ lock' = NoKey
  BY <1>6, WithGoes DEF Flush
<1>7. ASSUME StoreFails(k)
      PROVE  /\ CanFail /\ runs[k].at \in {"rename", "flush"}
             /\ \/ /\ runs[k].goal = "save" /\ runs[k].result.kind # "infra"
                   /\ Again(k)
                \/ Goes(k, "raised") /\ UNCHANGED executed
             /\ runs[k].goal = "replace" => Goes(k, "raised")
             /\ UNCHANGED saver /\ stray' = FALSE /\ lock' = NoKey
  BY <1>7, WithGoes, AttemptFailedAgain DEF StoreFails, saver, ReleasedLock
<1>8. ASSUME Collect(k)
      PROVE  /\ runs[k].at = "done" /\ Goes(k, "collected")
             /\ memory' = memory \cup {runs[k].result}
             /\ UNCHANGED <<known, entries, index, sims, executed, stray, lock>>
  BY <1>8, WithGoes DEF Collect, disk
<1>9. ASSUME RunRaised(k) PROVE UNCHANGED <<runs, saver, executed, stray, lock>>
  BY <1>9 DEF RunRaised, saver, disk
<1> QED BY <1>1, <1>2, <1>3, <1>4, <1>5, <1>6, <1>7, <1>8, <1>9

(* The threads run in a process that goes on, and a step of one concerns the  *)
(* results of its own run only.                                               *)
LEMMA RunStepOwn ==
  ASSUME BatchAssumption, TypedInv, NEW k \in Keys, RunStep(k)
  PROVE  /\ Alive /\ Alive' /\ session' = session
         /\ process' = "running" => process = "running"
         /\ \A s : s.key # k => /\ s \in sims' <=> s \in sims
                                /\ s \in known' <=> s \in known
                                /\ s \in memory' <=> s \in memory
                                /\ s \in entries' <=> s \in entries
<1>1. runs[k].result.key = k
  BY DEF TypedInv, OwnKey
<1>2. /\ Alive /\ Alive' /\ session' = session
      /\ process' = "running" => process = "running"
  BY DEF RunStep, Start, ExecuteOk, ExecuteFails, Check, ReadDiscarded,
     TruncateDiscarded, AppendDiscarded, SkipDuplicate, BeginSave, BeginReplace,
     WriteReplacement, Rename, Flush, StoreFails, Collect, RunRaised, Alive
<1> DEFINE Own == \A s : s.key # k => /\ s \in sims' <=> s \in sims
                                      /\ s \in known' <=> s \in known
                                      /\ s \in memory' <=> s \in memory
                                      /\ s \in entries' <=> s \in entries
<1>3. UNCHANGED saver => Own
  BY DEF saver
<1>4. BeginReplace(k) => Own
  BY StoringDoes DEF OfKey
<1>5. Rename(k) => Own
  <2>1. Rename(k) /\ Format = "dir" => Own
    BY <1>1, StoringDoes DEF OfKey
  <2>2. Rename(k) /\ Format # "dir" => Own
    BY <1>1, StoringDoes DEF OfKey, OldInJson
  <2> QED BY <2>1, <2>2
<1>6. Flush(k) \/ Collect(k) => Own
  BY <1>1, StoringDoes
<1> HIDE DEF Own
<1>7. Own
  BY <1>3, <1>4, <1>5, <1>6, AttemptsDo, ChecksDo, StoringDoes DEF RunStep
<1> QED BY <1>2, <1>7 DEF Own

-----------------------------------------------------------------------------
(* What is stored of a run, and what became of its result.                 *)

\* No first result is lost between its file and the index: the single file has no
\* index, and without failing writes both are written.
Lossless == Format = "json" \/ ~CanFail

Working == Alive \/ process = "returned"
Unchecked == {"check", "discard", "truncate", "append"}

\* S is what is stored of a run r: nothing before its first result is stored, its
\* result once that is stored, and while it is made again a hallucinated one at most.
Storage(r, S) ==
    /\ r.at \in {"queued", "save"} => r.goal = "save"
    /\ r.goal = "save" /\ r.at \in {"queued", "executing", "save", "rename"} => S = {}
    /\ r.goal = "save" /\ r.at \in Unchecked => r.result \in S
    /\ r.at \in {"flush", "done", "collected"} => r.result \in S
    /\ r.goal = "replace" /\ r.at \in Unchecked \cup {"executing", "replace", "write", "rename"}
         => \A s \in S : s.kind = "hallucinated"
    /\ r.at = "flush" => Format = "dir"

\* A result that is not looked at again is hallucinated only after the last retry.
Final(r) == r.result.kind = "hallucinated" => r.result.retries = HallucinationRetries

Verdict(r) ==
    /\ r.goal = "replace" => r.retries > 0
    /\ r.at = "check" => r.result.retries = r.retries
    /\ r.goal = "save" /\ r.at \in {"save", "rename", "flush"} => r.result.retries = r.retries
    /\ r.at \in {"discard", "truncate", "append"} => r.result.kind = "hallucinated"
    /\ r.at \in {"replace", "write", "done", "collected"} => Final(r)
    /\ r.goal = "replace" /\ r.at \in {"rename", "flush"} => Final(r)

\* The results in memory are those of the runs that were collected or skipped.
MemoryInv ==
    /\ \A s \in memory : s \in sims /\ runs[s.key].at \in {"skipped", "collected"}
    /\ \A k \in Keys :
         /\ runs[k].at = "collected" => runs[k].result \in memory
         /\ runs[k].at = "skipped" => OfKey(memory, k) # {}

\* What the saver knows is stored, but for the file a replacement has unlinked.
KnownInv ==
    /\ Format # "dir" => known = {}
    /\ \A s \in known : /\ runs[s.key].at # "skipped"
                        /\ s \in sims \/ runs[s.key].at \in {"write", "rename", "raised"}

DoneInv ==
    Working => /\ \A k \in Keys : Storage(runs[k], OfKey(sims, k)) /\ Verdict(runs[k])
               /\ MemoryInv /\ KnownInv

\* The stored results and those in memory belong to runs of the batch.
LEMMA StoredKeys ==
  ASSUME TypedInv
  PROVE  /\ \A s \in sims : s.key \in Keys /\ s \in OfKey(sims, s.key)
         /\ \A s \in memory : s.key \in Keys /\ s \in OfKey(memory, s.key)
         /\ \A s \in known : s.key \in Keys
BY DEF TypedInv, TypeOK, Result, OfKey

\* A new result, of any kind.
LEMMA NewResultIs ==
  ASSUME NEW k \in Keys, NEW kind
  PROVE  /\ NewResult(k, kind).kind = kind /\ NewResult(k, kind).retries = runs[k].retries
         /\ NewResult(k, kind).key = k /\ NewResult(k, kind).n = executed[k] + 1
BY DEF NewResult

\* A run in a place to which nothing applies but what is said of its result.
LEMMA Placed ==
  ASSUME TypedInv, NEW k \in Keys, NEW at, Goes(k, at), NEW S, Verdict(runs[k])
  PROVE  /\ at \in {"raised"} => Storage(runs'[k], S) /\ Verdict(runs'[k])
         /\ at = "executing" /\ runs[k].goal = "save" /\ S = {} =>
              Storage(runs'[k], S) /\ Verdict(runs'[k])
         /\ at = "done" /\ runs[k].result \in S /\ Final(runs[k]) =>
              Storage(runs'[k], S) /\ Verdict(runs'[k])
BY DEF Goes, Storage, Verdict, Final, Unchecked

(* After its result was stored a run is done with a final result, or its      *)
(* result is looked at.                                                       *)
LEMMA StoredGoesOn ==
  ASSUME BatchAssumption, TypedInv, NEW k \in Keys, Goes(k, Stored(k)), NEW S,
         runs[k].result \in S, Verdict(runs[k]),
         runs[k].goal = "save" => runs[k].result.retries = runs[k].retries,
         runs[k].goal = "replace" => Final(runs[k])
  PROVE  Storage(runs'[k], S) /\ Verdict(runs'[k])
<1>1. /\ runs[k].goal \in {"save", "replace"}
      /\ runs[k].goal = "save" => runs[k].retries = 0
      /\ runs[k].result \in Result
  BY DEF TypedInv, TypeOK, ReplacesLater, Run
<1>2. CASE runs[k].goal = "replace" \/ runs[k].result.kind = "infra" \/ HallucinationRetries = 0
  <2>1. Goes(k, "done")
    BY <1>2 DEF Stored
  <2>2. Final(runs[k])
    BY <1>1, <1>2 DEF Final
  <2> QED BY <2>1, <2>2, Placed
<1>3. CASE ~(runs[k].goal = "replace" \/ runs[k].result.kind = "infra" \/ HallucinationRetries = 0)
  <2>1. Goes(k, "check") /\ runs[k].goal = "save"
    BY <1>1, <1>3 DEF Stored
  <2> QED BY <2>1 DEF Goes, Storage, Verdict, Unchecked
<1> QED BY <1>2, <1>3

(* A step of a run keeps what is said of its result and of its storage.       *)
LEMMA StorageStep ==
  ASSUME BatchAssumption, Lossless, TypedInv, StoredInv, NEW k \in Keys, RunStep(k),
         Storage(runs[k], OfKey(sims, k)), Verdict(runs[k]),
         runs[k].at = "save" => OfKey(known, k) \subseteq sims
  PROVE  Storage(runs'[k], OfKey(sims', k)) /\ Verdict(runs'[k])
<1> DEFINE r == runs[k]
           S == OfKey(sims, k)
           T == OfKey(sims', k)
           Good == Storage(runs'[k], T) /\ Verdict(runs'[k])
<1>1. /\ r \in Run /\ r.result \in Result /\ r.result.key = k
      /\ r.goal = "save" => r.retries = 0
      /\ r.at \in {"replace", "write"} => r.goal = "replace"
      /\ r.goal \in {"save", "replace"}
      /\ r.retries \in Nat
  BY DEF TypedInv, TypeOK, OwnKey, ReplacesLater, Run
<1>2. Alive /\ OnePerKey
  BY RunStepOwn DEF StoredInv
<1>3. UNCHANGED saver => T = S
  BY DEF saver
<1>4. ASSUME Start(k) PROVE Good
  <2>1. r.at = "queued" /\ Goes(k, "executing") /\ T = S
    BY <1>3, <1>4, AttemptsDo
  <2>2. r.goal = "save" /\ S = {}
    BY <2>1 DEF Storage
  <2> QED BY <2>1, <2>2, Placed
<1>5. ASSUME Again(k), r.goal = "save", T = {} PROVE Good
  <2>1. CASE Goes(k, "executing")
    BY <1>5, <2>1, Placed
  <2>2. CASE Gets(k, "infra", "save")
    BY <1>5, <2>2, NewResultIs DEF Gets, Storage, Verdict, Unchecked
  <2> QED BY <1>5, <2>1, <2>2 DEF Again
<1>6. ASSUME ExecuteOk(k) PROVE Good
  <2>0. r.at = "executing" /\ T = S
    BY <1>3, <1>6, AttemptsDo
  <2>1. PICK kind \in {"good", "hallucinated"} :
          Gets(k, kind, IF r.goal = "save" THEN "save" ELSE "check")
    BY <1>6, AttemptsDo
  <2>2. CASE r.goal = "save"
    <3>1. S = {} /\ Gets(k, kind, "save")
      BY <2>0, <2>1, <2>2 DEF Storage
    <3> QED BY <2>0, <2>2, <3>1, NewResultIs DEF Gets, Storage, Verdict, Unchecked
  <2>3. CASE r.goal = "replace"
    <3>1. \A s \in S : s.kind = "hallucinated"
      BY <2>0, <2>3 DEF Storage
    <3>2. Gets(k, kind, "check")
      BY <2>1, <2>3
    <3> HIDE DEF S, T
    <3>3. Storage(runs'[k], T)
      BY <2>0, <2>3, <3>1, <3>2 DEF Gets, Storage
    <3>4. Verdict(runs'[k])
      BY <2>3, <3>2, NewResultIs DEF Gets, Verdict
    <3> QED BY <3>3, <3>4
  <2> QED BY <1>1, <2>2, <2>3
<1>7. ASSUME ExecuteFails(k) PROVE Good
  <2>1. r.at = "executing" /\ T = S
    BY <1>3, <1>7, AttemptsDo
  <2>2. CASE r.goal = "save" /\ Again(k)
    <3>1. S = {}
      BY <2>1, <2>2 DEF Storage
    <3> QED BY <1>5, <2>1, <2>2, <3>1
  <2>3. CASE Goes(k, "raised")
    BY <2>3, Placed
  <2> QED BY <1>7, <2>2, <2>3, AttemptsDo
<1>8. ASSUME Check(k) PROVE Good
  <2>1. r.at = "check" /\ T = S
    BY <1>3, <1>8, ChecksDo
  <2>2. r.result.retries = r.retries
    BY <2>1 DEF Verdict
  <2>3. CASE Goes(k, "discard") /\ r.result.kind = "hallucinated"
    BY <2>1, <2>3 DEF Goes, Storage, Verdict, Unchecked
  <2>4. CASE Goes(k, "replace") /\ r.goal = "replace"
             /\ (r.result.kind # "hallucinated" \/ r.retries = HallucinationRetries)
    <3>1. Final(r)
      BY <2>2, <2>4 DEF Final
    <3> QED BY <2>1, <2>4, <3>1 DEF Goes, Storage, Verdict, Unchecked, Final
  <2>5. CASE Goes(k, "done") /\ r.retries = 0
             /\ (r.result.kind # "hallucinated" \/ r.retries = HallucinationRetries)
    <3>1. Final(r)
      BY <2>2, <2>5 DEF Final
    <3>2. r.goal = "save"
      BY <1>1, <2>5 DEF Verdict
    <3> QED BY <2>1, <2>5, <3>1, <3>2, Placed DEF Storage, Unchecked
  <2>6. CASE Goes(k, "raised")
    BY <2>1, <2>6, Placed
  <2> QED BY <1>8, <2>3, <2>4, <2>5, <2>6, ChecksDo
<1>9. ASSUME ReadDiscarded(k) \/ TruncateDiscarded(k) PROVE Good
  <2>1. /\ r.at \in {"discard", "truncate"} /\ T = S
        /\ Goes(k, "raised") \/ Goes(k, "truncate") \/ Goes(k, "append")
    BY <1>3, <1>9, ChecksDo
  <2> QED BY <2>1 DEF Goes, Storage, Verdict, Unchecked
<1>10. ASSUME AppendDiscarded(k) PROVE Good
  <2>1. /\ r.at = "append" /\ T = S /\ runs'[k].at = "executing"
        /\ runs'[k].goal = "replace" /\ runs'[k].result = r.result
        /\ runs'[k].retries > 0
    BY <1>1, <1>3, <1>10, ChecksDo
  <2>2. \A s \in S : s.kind = "hallucinated"
    <3>1. CASE r.goal = "save"
      <4>1. r.result \in S /\ r.result.kind = "hallucinated"
        BY <2>1, <3>1 DEF Storage, Verdict, Unchecked
      <4>2. \A s \in S : s = r.result
        BY <1>2, <4>1 DEF OnePerKey, OfKey
      <4> QED BY <4>1, <4>2
    <3>2. CASE r.goal = "replace"
      BY <2>1, <3>2 DEF Storage, Unchecked
    <3> QED BY <1>1, <3>1, <3>2
  <2> HIDE DEF S, T
  <2> QED BY <2>1, <2>2 DEF Storage, Verdict, Unchecked
<1>11. ASSUME SkipDuplicate(k) PROVE Good
  <2>1. r.at = "save" /\ Duplicate(k)
    BY <1>11, StoringDoes
  <2>2. S = {}
    BY <2>1 DEF Storage
  <2>3. Format = "dir" /\ OfKey(known, k) # {}
    BY <2>1, <2>2, BatchAssumption DEF Duplicate, BatchAssumption
  <2> QED BY <2>1, <2>2, <2>3 DEF OfKey
<1>12. ASSUME BeginSave(k) PROVE Good
  <2>1. r.at = "save" /\ Goes(k, "rename") /\ T = S
    BY <1>3, <1>12, StoringDoes
  <2>2. r.goal = "save" /\ S = {} /\ r.result.retries = r.retries
    BY <2>1 DEF Storage, Verdict
  <2> QED BY <2>1, <2>2 DEF Goes, Storage, Verdict, Unchecked
<1>13. ASSUME BeginReplace(k) \/ WriteReplacement(k) PROVE Good
  <2>1. /\ r.at \in {"replace", "write"}
        /\ Goes(k, "write") \/ Goes(k, "rename")
        /\ T \subseteq S
    BY <1>13, StoringDoes DEF OfKey, saver
  <2>2. r.goal = "replace" /\ Final(r) /\ \A s \in S : s.kind = "hallucinated"
    BY <1>1, <2>1 DEF Storage, Verdict
  <2> HIDE DEF S, T
  <2> QED BY <2>1, <2>2 DEF Goes, Storage, Verdict, Unchecked, Final
<1>14. ASSUME Rename(k) PROVE Good
  <2>1. r.at = "rename" /\ r.result \in T
    BY <1>1, <1>14, StoringDoes DEF OfKey
  <2>2. /\ r.goal = "save" => r.result.retries = r.retries
        /\ r.goal = "replace" => Final(r)
    BY <2>1 DEF Verdict
  <2>3. CASE Format = "dir"
    <3>1. Goes(k, "flush")
      BY <1>14, <2>3, StoringDoes
    <3> HIDE DEF T
    <3> QED BY <1>1, <2>1, <2>2, <2>3, <3>1 DEF Goes, Storage, Verdict, Unchecked, Final
  <2>4. CASE Format # "dir"
    BY <1>14, <2>1, <2>2, <2>4, StoringDoes, StoredGoesOn
  <2> QED BY <2>3, <2>4
<1>15. ASSUME Flush(k) PROVE Good
  <2>1. r.at = "flush" /\ Goes(k, Stored(k)) /\ T = S
    BY <1>15, StoringDoes
  <2>2. /\ r.goal = "save" => r.result.retries = r.retries
        /\ r.goal = "replace" => Final(r)
        /\ r.result \in S
    BY <2>1 DEF Verdict, Storage
  <2> QED BY <2>1, <2>2, StoredGoesOn
<1>16. ASSUME StoreFails(k) PROVE Good
  <2>1. /\ r.at \in {"rename", "flush"} /\ T = S /\ CanFail
        /\ (r.goal = "save" /\ Again(k)) \/ Goes(k, "raised")
    BY <1>3, <1>16, StoringDoes
  <2>2. r.at = "rename"
    BY <2>1, BatchAssumption DEF Storage, Lossless, BatchAssumption
  <2>3. r.goal = "save" => S = {}
    BY <2>2 DEF Storage
  <2> QED BY <1>5, <2>1, <2>3, Placed
<1>17. ASSUME Collect(k) PROVE Good
  <2>1. r.at = "done" /\ Goes(k, "collected") /\ T = S
    BY <1>17, StoringDoes
  <2> QED BY <2>1 DEF Goes, Storage, Verdict, Unchecked, Final
<1>18. ASSUME RunRaised(k) PROVE Good
  BY <1>3, <1>18, StoringDoes
<1> QED
  BY <1>4, <1>6, <1>7, <1>8, <1>9, <1>10, <1>11, <1>12, <1>13, <1>14, <1>15, <1>16,
     <1>17, <1>18 DEF RunStep

(* What is in memory and what the saver knows, in a step of a run.            *)
LEMMA MemoryStep ==
  ASSUME BatchAssumption, Lossless, IInv, DoneInv, NEW k \in Keys, RunStep(k)
  PROVE  /\ \A j \in Keys : Storage(runs'[j], OfKey(sims', j)) /\ Verdict(runs'[j])
         /\ MemoryInv' /\ KnownInv'
<1> DEFINE r == runs[k]
<1>1. /\ TypedInv /\ StoredInv /\ Moved(k) /\ Alive /\ Working /\ TypedInv'
      /\ r.result.key = k
  BY RunStepMoves, RunStepTypes, RunStepOwn DEF IInv, Working, TypedInv, OwnKey
<1>2. \A s : s.key # k => /\ s \in sims' <=> s \in sims
                          /\ s \in known' <=> s \in known
                          /\ s \in memory' <=> s \in memory
  BY <1>1, RunStepOwn
<1>3. /\ \A j \in Keys : Storage(runs[j], OfKey(sims, j)) /\ Verdict(runs[j])
      /\ MemoryInv /\ KnownInv
  BY <1>1 DEF DoneInv
<1>4. \A j \in Keys : j # k => /\ runs'[j] = runs[j] /\ OfKey(sims', j) = OfKey(sims, j)
                               /\ OfKey(memory', j) = OfKey(memory, j)
  BY <1>1, <1>2 DEF Moved, OfKey
<1>5. r.at = "save" => OfKey(known, k) \subseteq sims
  BY <1>3 DEF KnownInv, OfKey
<1>6. Storage(runs'[k], OfKey(sims', k)) /\ Verdict(runs'[k])
  BY <1>1, <1>3, <1>5, StorageStep
<1>7. r.at # "skipped" /\ r.at # "collected"
  <2>1. runs[k] \in Run
    BY <1>1 DEF TypedInv, TypeOK
  <2> QED
    BY <1>1, AttemptsDo, ChecksDo, StoringDoes DEF RunStep, RunRaised
\* What is known or in memory of run k.
<1>8. ASSUME NEW s \in memory', s.key = k
      PROVE  s \in sims' /\ runs'[k].at = "collected" /\ s = runs'[k].result
  <2>1. s \notin memory
    BY <1>3, <1>7, <1>8 DEF MemoryInv
  <2>2. memory' = memory \/ Collect(k)
    BY <1>1, AttemptsDo, ChecksDo, StoringDoes DEF RunStep, saver
  <2>3. Collect(k) /\ s = r.result
    BY <1>1, <1>8, <2>1, <2>2, StoringDoes
  <2>4. r.at = "done" /\ Goes(k, "collected") /\ sims' = sims
    BY <1>1, <2>3, StoringDoes
  <2>5. r.result \in sims
    BY <1>3, <2>4 DEF Storage, OfKey
  <2> QED BY <2>3, <2>4, <2>5 DEF Goes
<1>9. /\ runs'[k].at = "collected" => runs'[k].result \in memory'
      /\ runs'[k].at # "skipped"
  <2> DEFINE G == /\ runs'[k].at = "collected" => runs'[k].result \in memory'
                  /\ runs'[k].at # "skipped"
  <2>1. Goes(k, Stored(k)) => G
    BY DEF Goes, Stored
  <2>2. Again(k) => G
    BY DEF Goes, Again, Gets
  <2>3. Start(k) \/ ExecuteFails(k) => G
    BY <1>1, <2>2, AttemptsDo DEF Goes
  <2>4. ExecuteOk(k) => G
    BY <1>1, AttemptsDo DEF Gets
  <2>5. Check(k) \/ ReadDiscarded(k) \/ TruncateDiscarded(k) \/ AppendDiscarded(k) => G
    BY <1>1, ChecksDo DEF Goes
  <2>6. SkipDuplicate(k) \/ Flush(k) => G
    BY <1>1, <2>1, StoringDoes
  <2>7. BeginSave(k) \/ BeginReplace(k) \/ WriteReplacement(k) => G
    BY <1>1, StoringDoes DEF Goes
  <2>8. Rename(k) => G
    <3>1. Rename(k) => Goes(k, "flush") \/ Goes(k, Stored(k))
      BY <1>1, StoringDoes
    <3> QED BY <2>1, <3>1 DEF Goes
  <2>9. StoreFails(k) => G
    <3>1. StoreFails(k) => Again(k) \/ Goes(k, "raised")
      BY <1>1, StoringDoes
    <3> QED BY <2>2, <3>1 DEF Goes
  <2>10. Collect(k) => G
    BY <1>1, StoringDoes DEF Goes
  <2>11. RunRaised(k) => G
    BY <1>1, <1>7, StoringDoes
  <2> HIDE DEF G
  <2>12. G
    BY <2>3, <2>4, <2>5, <2>6, <2>7, <2>8, <2>9, <2>10, <2>11 DEF RunStep
  <2> QED BY <2>12 DEF G
<1>10. ASSUME NEW s \in known', s.key = k
       PROVE  s \in sims' \/ runs'[k].at \in {"write", "rename", "raised"}
  <2>1. Format = "dir" /\ ~CanFail
    <3>1. Format # "dir" => known' = {}
      <4>1. Format # "dir" => known' = known
        BY <1>1, AttemptsDo, ChecksDo, StoringDoes DEF RunStep, saver
      <4> QED BY <1>3, <4>1 DEF KnownInv
    <3> QED BY <1>10, <3>1 DEF Lossless
  <2>2. CASE Rename(k)
    BY <1>1, <1>10, <2>1, <2>2, StoringDoes DEF OfKey
  <2>3. CASE BeginReplace(k) \/ WriteReplacement(k)
    BY <1>1, <2>3, StoringDoes DEF Goes
  <2>4. CASE ~Rename(k) /\ ~BeginReplace(k) /\ ~WriteReplacement(k)
    <3>1. known' = known /\ sims' = sims
      BY <1>1, <2>4, AttemptsDo, ChecksDo, StoringDoes DEF RunStep, saver
    <3>2. s \in sims \/ r.at \in {"write", "rename", "raised"}
      BY <1>3, <1>10, <3>1 DEF KnownInv
    <3>3. r.at # "write" /\ r.at # "rename" /\ (r.at = "raised" => runs' = runs)
      <4>1. ~StoreFails(k)
        BY <2>1 DEF StoreFails
      <4>2. RunRaised(k) => r.at = "raised" /\ runs' = runs
        BY DEF RunRaised
      <4> QED BY <1>1, <2>4, <4>1, <4>2, AttemptsDo, ChecksDo, StoringDoes DEF RunStep
    <3> QED BY <3>1, <3>2, <3>3
  <2> QED BY <2>2, <2>3, <2>4
<1>11. \A s \in memory' : s.key \in Keys
  BY <1>1, StoredKeys DEF TypedInv, TypeOK, Result
<1>12. MemoryInv'
  <2>1. \A s \in memory' : s \in sims' /\ runs'[s.key].at \in {"skipped", "collected"}
    BY <1>2, <1>3, <1>4, <1>8, <1>11 DEF MemoryInv
  <2>2. ASSUME NEW j \in Keys
        PROVE  /\ runs'[j].at = "collected" => runs'[j].result \in memory'
               /\ runs'[j].at = "skipped" => OfKey(memory', j) # {}
    <3>1. runs[j].result.key = j
      BY <1>1 DEF TypedInv, OwnKey
    <3> QED BY <1>2, <1>3, <1>4, <1>9, <3>1 DEF MemoryInv
  <2> QED BY <2>1, <2>2 DEF MemoryInv
<1>13. KnownInv'
  <2>1. \A s \in known' : s.key \in Keys
    BY <1>1 DEF TypedInv, TypeOK, Result
  <2>2. Format # "dir" => known' = {}
    <3>1. Format # "dir" => known' = known
      BY <1>1, AttemptsDo, ChecksDo, StoringDoes DEF RunStep, saver
    <3> QED BY <1>3, <3>1 DEF KnownInv
  <2> QED BY <1>2, <1>3, <1>4, <1>9, <1>10, <2>1, <2>2 DEF KnownInv
<1> QED BY <1>3, <1>4, <1>6, <1>12, <1>13

(* A batch starts with its runs queued, or skipped for a result in memory.     *)
LEMMA StartRunsDone ==
  ASSUME BatchAssumption, NEW results \in SUBSET Result, StartRuns(results), sims' = results
  PROVE  DoneInv'
<1>1. /\ process' = "running" /\ known' = {} /\ memory' = results
      /\ \A k \in Keys : runs'[k].at \in {"queued", "skipped"}
      /\ \A k \in Keys : runs'[k].at # "skipped" => OfKey(results, k) = {}
  BY StartRunsTypes
<1>2. ASSUME NEW k \in Keys
      PROVE  /\ runs'[k].goal = "save"
             /\ runs'[k].at = "skipped" <=> Done(results, k)
  <2>1. runs'[k] = Idle(k, IF Done(results, k) THEN "skipped" ELSE "queued")
    BY DEF StartRuns
  <2> QED BY <2>1 DEF Idle
<1>3. \A k \in Keys : Done(results, k) <=> OfKey(results, k) # {}
  BY DEF Done, OfKey
<1>4. \A k \in Keys : Storage(runs'[k], OfKey(sims', k)) /\ Verdict(runs'[k])
  BY <1>1, <1>2 DEF Storage, Verdict, Unchecked
<1>5. MemoryInv'
  <2>1. \A s \in results : s.key \in Keys /\ Done(results, s.key)
    BY DEF Result, Done
  <2> QED BY <1>1, <1>2, <1>3, <2>1 DEF MemoryInv
<1>6. KnownInv'
  BY <1>1 DEF KnownInv
<1> QED BY <1>4, <1>5, <1>6 DEF DoneInv

\* Every step keeps what is counted as done on disk.
LEMMA DoneStep ==
  ASSUME BatchAssumption, Lossless, IInv, DoneInv, [Next]_vars
  PROVE  DoneInv'
<1> USE DEF disk
<1>0. /\ TypedInv /\ sims \in SUBSET Result /\ memory \in SUBSET Result /\ NothingYet
  BY DEF IInv, TypedInv, TypeOK, StoredInv
<1>1. ASSUME NEW k \in Keys, RunStep(k) PROVE DoneInv'
  BY <1>1, MemoryStep DEF DoneInv
<1>2. CASE BeginCreate \/ ResumeFails \/ UnlinkFailed \/ BeginRewrite \/ Die \/ Restart
  <2>1. ~Working'
    BY <1>2 DEF BeginCreate, ResumeFails, UnlinkFailed, BeginRewrite, Die, Restart, Working,
                Alive
  <2> QED BY <2>1 DEF DoneInv
<1>3. CASE EndCreate
  <2>1. StartRuns({}) /\ sims' = {}
    BY <1>0, <1>3 DEF EndCreate, NothingYet
  <2> QED BY <2>1, StartRunsDone
<1>4. CASE Resume
  <2>1. CASE Kept(sims) = sims
    BY <1>0, <1>4, <2>1, StartRunsDone DEF Resume
  <2>2. CASE Kept(sims) # sims
    <3>1. ~Working'
      BY <1>4, <2>2 DEF Resume, Working, Alive
    <3> QED BY <3>1 DEF DoneInv
  <2> QED BY <2>1, <2>2
<1>5. CASE EndRewrite
  BY <1>0, <1>5, StartRunsDone DEF EndRewrite
<1>6. CASE Finish \/ Interrupt \/ Over \/ UNCHANGED vars
  <2>1. /\ UNCHANGED <<runs, sims, memory, known>>
        /\ Working' => Working
    BY <1>6 DEF Finish, Interrupt, Over, vars, Working, Alive
  <2> QED BY <2>1 DEF DoneInv, MemoryInv, KnownInv, OfKey
<1> QED BY <1>1, <1>2, <1>3, <1>4, <1>5, <1>6 DEF Next, Boot

(* What is done holds in every state.                                          *)
LEMMA AlwaysDone ==
  ASSUME Lossless
  PROVE  Spec => []DoneInv
<1>1. Init => DoneInv
  BY DEF Init, DoneInv, Working, Alive
<1>2. IInv /\ DoneInv /\ [Next]_vars => DoneInv'
  BY DoneStep, BatchAssumption
<1> QED BY <1>1, <1>2, AlwaysStored, PTL DEF Spec

(* "All completed results are already on disk", for any number of runs,       *)
(* workers, retries and sessions: of the single file whatever fails, of the    *)
(* directory as long as no write fails.                                       *)
THEOREM CompletedAreStored ==
  ASSUME Lossless
  PROVE  Spec => []CompletedOnDisk
<1>1. DoneInv => CompletedOnDisk
  BY DEF DoneInv, CompletedOnDisk, Working, Storage, MemoryInv, OfKey
<1> QED BY <1>1, AlwaysDone, PTL

(* A batch that returned has a result for every run, and on disk exactly what *)
(* it returned.                                                               *)
THEOREM ReturnsComplete ==
  ASSUME Lossless
  PROVE  Spec => []ReturnedComplete
<1> DEFINE AllEnded == process = "returned" =>
             \A k \in Keys : runs[k].at \in {"collected", "skipped"}
<1>1. Init => AllEnded
  BY DEF Init
<1>2. IInv /\ AllEnded /\ [Next]_vars => AllEnded'
  <2> SUFFICES ASSUME IInv, AllEnded, [Next]_vars, process' = "returned"
               PROVE  \A k \in Keys : runs'[k].at \in {"collected", "skipped"}
    OBVIOUS
  <2>1. ASSUME NEW k \in Keys, RunStep(k) PROVE FALSE
    BY <2>1, RunStepOwn, BatchAssumption DEF IInv, Alive
  <2>2. ~Boot
    BY DEF Boot, BeginCreate, EndCreate, Resume, ResumeFails, UnlinkFailed, BeginRewrite,
           EndRewrite, StartRuns
  <2>3. CASE Finish
    BY <2>3 DEF Finish
  <2>4. CASE Over \/ UNCHANGED vars
    BY <2>4 DEF Over, vars
  <2>5. ~Interrupt /\ ~Die /\ ~Restart
    BY DEF Interrupt, Die, Restart
  <2> QED BY <2>1, <2>2, <2>3, <2>4, <2>5 DEF Next
<1>3. IInv /\ DoneInv /\ AllEnded => ReturnedComplete
  <2> SUFFICES ASSUME IInv, DoneInv, AllEnded, process = "returned"
               PROVE  sims = memory /\ \A k \in Keys : OfKey(sims, k) # {}
    BY DEF ReturnedComplete
  <2>1. /\ \A k \in Keys : Storage(runs[k], OfKey(sims, k))
        /\ MemoryInv /\ OnePerKey /\ TypedInv
    BY DEF DoneInv, Working, IInv, StoredInv
  <2>2. ASSUME NEW k \in Keys PROVE \E s \in memory : s.key = k
    <3>1. runs[k].result.key = k
      BY <2>1 DEF TypedInv, OwnKey
    <3> QED BY <2>1, <3>1 DEF MemoryInv, OfKey
  <2>3. memory \subseteq sims
    BY <2>1 DEF MemoryInv
  <2>4. ASSUME NEW s \in sims PROVE s \in memory
    <3>1. s.key \in Keys
      BY <2>1, StoredKeys
    <3>2. PICK m \in memory : m.key = s.key
      BY <2>2, <3>1
    <3> QED BY <2>1, <2>3, <3>2 DEF OnePerKey
  <2> QED BY <2>2, <2>3, <2>4 DEF OfKey
<1>4. Spec => []AllEnded
  <2> HIDE DEF AllEnded
  <2> QED BY <1>1, <1>2, AlwaysStored, PTL DEF Spec
<1> HIDE DEF AllEnded
<1> QED BY <1>3, <1>4, AlwaysStored, AlwaysDone, PTL

(* When a batch returns, what the checkpoint, in either format, holds of a    *)
(* run this process made is hallucinated only if its retries are used up.     *)
THEOREM HallucinationsAreRetried ==
  ASSUME Lossless
  PROVE  Spec => []HallucinationsRetried
<1>1. IInv /\ DoneInv => HallucinationsRetried
  <2> SUFFICES ASSUME IInv, DoneInv, process = "returned",
                      NEW s \in sims, runs[s.key].at = "collected",
                      s.kind = "hallucinated"
               PROVE  s.retries = HallucinationRetries
    BY DEF HallucinationsRetried
  <2>1. /\ \A k \in Keys : Storage(runs[k], OfKey(sims, k)) /\ Verdict(runs[k])
        /\ OnePerKey /\ TypedInv
    BY DEF DoneInv, Working, IInv, StoredInv
  <2>2. s.key \in Keys
    BY <2>1, StoredKeys
  <2> DEFINE r == runs[s.key]
  <2>3. r.result \in sims /\ r.result.key = s.key
    BY <2>1, <2>2 DEF Storage, OfKey, TypedInv, OwnKey
  <2>4. s = r.result
    BY <2>1, <2>3 DEF OnePerKey
  <2>5. Final(r)
    BY <2>1, <2>2 DEF Verdict
  <2> QED BY <2>4, <2>5 DEF Final
<1> QED BY <1>1, AlwaysStored, AlwaysDone, PTL

-----------------------------------------------------------------------------
(* The lock, the saver's index and the index on disk.                      *)

\* Before the batch runs nobody holds the lock, and a directory that is created or
\* rewritten has no temporary file.
BootInv ==
    /\ process \in {"new", "creating", "rewriting"} => lock = NoKey
    /\ meta = "absent" => process = "new" /\ ~stray /\ index = {}
    /\ process = "creating" => ~stray /\ index = {}
    /\ Format = "dir" /\ process = "rewriting" => ~stray

Storing == {"write", "rename", "flush"}

\* The run that stores has the lock, and a temporary file is its file.
LockInv ==
    Alive => /\ \A k \in Keys : lock = k <=> runs[k].at \in Storing
             /\ Format = "dir" /\ stray => \E k \in Keys : runs[k].at = "rename"

\* No result is numbered higher than the results its run has produced.
FreshInv ==
    /\ \A s \in sims \cup memory : s.n <= executed[s.key]
    /\ \A k \in Keys : runs[k].result.n <= executed[k]

\* The saver's index is that of the stored files; a file that the index on disk does
\* not name is not the result that its run goes on with, and a file it names is
\* missing only while its run replaces it, or for ever if that failed.
IndexInv ==
    Format = "dir" /\ Alive =>
        /\ entries = sims
        /\ \A s \in sims \ index :
             runs[s.key].result = s => runs[s.key].at \in {"executing", "raised", "flush"}
        /\ \A s \in index \ sims :
             runs[s.key].goal = "replace" /\ runs[s.key].at \in Storing \cup {"raised"}

SaverInv == BootInv /\ LockInv /\ FreshInv /\ IndexInv

\* A step of a run leaves the setting up of the saver alone.
LEMMA BootRunStep ==
  ASSUME BatchAssumption, TypedInv, NEW k \in Keys, RunStep(k), BootInv
  PROVE  BootInv'
<1>1. Alive /\ Alive'
  BY RunStepOwn
<1>2. meta # "absent"
  BY <1>1 DEF BootInv, Alive
<1>3. meta' = meta \/ meta' = "ok"
  BY DEF RunStep, Start, ExecuteOk, ExecuteFails, Check, ReadDiscarded,
     TruncateDiscarded, AppendDiscarded, SkipDuplicate, BeginSave, BeginReplace,
     WriteReplacement, Rename, Flush, StoreFails, Collect, RunRaised, disk,
     MetaWhileWriting
<1> QED BY <1>1, <1>2, <1>3 DEF BootInv, Alive

\* The lock is held by the run that is storing, and by no other.
LEMMA LockRunStep ==
  ASSUME BatchAssumption, TypedInv, NEW k \in Keys, RunStep(k), LockInv
  PROVE  LockInv'
<1> DEFINE r == runs[k]
           Good == /\ lock' = k <=> runs'[k].at \in Storing
                   /\ \A j \in Keys : j # k => (lock' = j <=> lock = j)
                   /\ Format = "dir" /\ stray' =>
                        \/ runs'[k].at = "rename"
                        \/ \E j \in Keys : j # k /\ runs[j].at = "rename"
<1>1. /\ Alive /\ Alive' /\ NoKey \notin Keys /\ Moved(k)
      /\ \A j \in Keys : lock = j <=> runs[j].at \in Storing
      /\ Format = "dir" /\ stray => \E j \in Keys : runs[j].at = "rename"
  BY RunStepOwn, RunStepMoves DEF LockInv, BatchAssumption
<1>2. ASSUME lock' = lock, stray' = stray, r.at \notin Storing, runs'[k].at \notin Storing
      PROVE  Good
  BY <1>1, <1>2 DEF Storing
<1>3. \A at : Goes(k, at) /\ at \notin Storing => runs'[k].at \notin Storing
  BY DEF Goes
<1>4. Again(k) => runs'[k].at \notin Storing
  BY DEF Again, Goes, Gets, Storing
<1>5. Stored(k) \notin Storing
  BY DEF Stored, Storing
<1>6. Start(k) \/ ExecuteOk(k) \/ ExecuteFails(k) => Good
  <2>1. ExecuteOk(k) => runs'[k].at \notin Storing
    BY AttemptsDo DEF Gets, Storing
  <2>2. Start(k) \/ ExecuteFails(k) => runs'[k].at \notin Storing
    BY <1>3, <1>4, AttemptsDo DEF Storing
  <2>3. Start(k) \/ ExecuteOk(k) \/ ExecuteFails(k) =>
           lock' = lock /\ stray' = stray /\ r.at \notin Storing
    BY AttemptsDo DEF Storing
  <2> QED BY <1>2, <2>1, <2>2, <2>3
<1>7. Check(k) \/ ReadDiscarded(k) \/ TruncateDiscarded(k) \/ AppendDiscarded(k) => Good
  <2>1. Check(k) \/ ReadDiscarded(k) \/ TruncateDiscarded(k) \/ AppendDiscarded(k) =>
           runs'[k].at \notin Storing
    BY ChecksDo DEF Goes, Storing
  <2>2. Check(k) \/ ReadDiscarded(k) \/ TruncateDiscarded(k) \/ AppendDiscarded(k) =>
           lock' = lock /\ stray' = stray /\ r.at \notin Storing
    BY ChecksDo DEF Storing
  <2> QED BY <1>2, <2>1, <2>2
<1>8. SkipDuplicate(k) \/ Collect(k) => Good
  <2>1. SkipDuplicate(k) \/ Collect(k) => runs'[k].at \notin Storing
    BY <1>5, StoringDoes DEF Goes, Storing
  <2>2. SkipDuplicate(k) \/ Collect(k) => lock' = lock /\ stray' = stray /\ r.at \notin Storing
    BY StoringDoes DEF Storing
  <2> QED BY <1>2, <2>1, <2>2
<1>9. BeginSave(k) \/ BeginReplace(k) => Good
  <2>1. BeginSave(k) => runs'[k].at = "rename" /\ lock = NoKey /\ lock' = k
    BY StoringDoes DEF Goes
  <2>2. BeginReplace(k) => /\ runs'[k].at = "write" /\ lock = NoKey /\ lock' = k
                           /\ stray' = stray
    BY StoringDoes DEF Goes
  <2>3. lock = NoKey => \A j \in Keys : runs[j].at \notin Storing
    BY <1>1
  <2> QED BY <1>1, <2>1, <2>2, <2>3 DEF Storing
<1>10. WriteReplacement(k) => Good
  <2>1. WriteReplacement(k) => runs'[k].at = "rename" /\ lock' = lock /\ r.at = "write"
    BY StoringDoes DEF Goes
  <2> QED BY <1>1, <2>1 DEF Storing
<1>11. Rename(k) => Good
  <2>1. Rename(k) => r.at = "rename" /\ ~stray'
    BY StoringDoes
  <2>2. Rename(k) => \/ runs'[k].at = "flush" /\ lock' = lock
                     \/ runs'[k].at \notin Storing /\ lock' = NoKey
    BY <1>5, StoringDoes DEF Goes
  <2> QED BY <1>1, <2>1, <2>2 DEF Storing
<1>12. Flush(k) => Good
  <2>1. Flush(k) => /\ r.at = "flush" /\ stray' = stray /\ lock' = NoKey
                    /\ runs'[k].at \notin Storing
    BY <1>5, StoringDoes DEF Goes
  <2> QED BY <1>1, <2>1 DEF Storing
<1>13. StoreFails(k) => Good
  <2>1. StoreFails(k) => /\ r.at \in Storing /\ ~stray' /\ lock' = NoKey
                         /\ runs'[k].at \notin Storing
    BY <1>3, <1>4, StoringDoes DEF Storing
  <2> QED BY <1>1, <2>1
<1>14. RunRaised(k) => Good
  <2>1. RunRaised(k) => /\ runs' = runs /\ lock' = lock /\ stray' = stray /\ r.at = "raised"
    BY StoringDoes DEF RunRaised
  <2> QED BY <1>1, <2>1
<1> HIDE DEF Good
<1>15. Good
  BY <1>6, <1>7, <1>8, <1>9, <1>10, <1>11, <1>12, <1>13, <1>14 DEF RunStep
<1>16. \A j \in Keys : lock' = j <=> runs'[j].at \in Storing
  BY <1>1, <1>15 DEF Good, Moved
<1>17. Format = "dir" /\ stray' => \E j \in Keys : runs'[j].at = "rename"
  BY <1>1, <1>15 DEF Good, Moved
<1> QED BY <1>16, <1>17 DEF LockInv

(* A step of a run keeps its result or gives it a new one, and counts it.     *)
LEMMA ResultStep ==
  ASSUME BatchAssumption, TypedInv, NEW k \in Keys, RunStep(k)
  PROVE  /\ \/ executed' = executed /\ runs'[k].result = runs[k].result
            \/ /\ executed' = [executed EXCEPT ![k] = @ + 1]
               /\ runs'[k].result.n = executed[k] + 1
         /\ sims' \subseteq sims \cup {runs[k].result}
         /\ memory' \subseteq memory \cup {runs[k].result}
<1> DEFINE Good == \/ executed' = executed /\ runs'[k].result = runs[k].result
                   \/ /\ executed' = [executed EXCEPT ![k] = @ + 1]
                      /\ runs'[k].result.n = executed[k] + 1
<1>1. \A kind, at : Gets(k, kind, at) => Good
  BY NewResultIs DEF Gets
<1>2. \A at : Goes(k, at) /\ executed' = executed => Good
  BY DEF Goes
<1>3. Again(k) => Good
  BY <1>1, <1>2 DEF Again
<1>4. Start(k) \/ ExecuteOk(k) \/ ExecuteFails(k) => Good
  <2> HIDE DEF Good
  <2> QED BY <1>1, <1>2, <1>3, AttemptsDo
<1>5. Check(k) \/ ReadDiscarded(k) \/ TruncateDiscarded(k) \/ AppendDiscarded(k) => Good
  BY ChecksDo DEF Goes
<1>6. /\ SkipDuplicate(k) \/ BeginSave(k) \/ BeginReplace(k) \/ WriteReplacement(k) => Good
      /\ Rename(k) \/ Flush(k) \/ StoreFails(k) \/ Collect(k) => Good
  <2> HIDE DEF Good
  <2> QED BY <1>2, <1>3, StoringDoes
<1>7. RunRaised(k) => Good
  BY StoringDoes
<1> HIDE DEF Good
<1>8. Good
  BY <1>4, <1>5, <1>6, <1>7 DEF RunStep
<1>9. sims' \subseteq sims \cup {runs[k].result} /\ memory' \subseteq memory \cup {runs[k].result}
  BY AttemptsDo, ChecksDo, StoringDoes DEF RunStep, saver
<1> QED BY <1>8, <1>9 DEF Good

\* No result gets a number that its run has not reached.
LEMMA FreshRunStep ==
  ASSUME BatchAssumption, TypedInv, NEW k \in Keys, RunStep(k), FreshInv
  PROVE  FreshInv'
<1>1. /\ executed \in [Keys -> Nat] /\ Moved(k) /\ runs[k].result.key = k
      /\ \A s \in sims \cup memory : s.key \in Keys /\ s.n \in Nat
      /\ runs[k].result.n \in Nat
  BY RunStepMoves DEF TypedInv, TypeOK, OwnKey, Result, Run
<1>2. \/ executed' = executed /\ runs'[k].result = runs[k].result
      \/ /\ executed' = [executed EXCEPT ![k] = @ + 1]
         /\ runs'[k].result.n = executed[k] + 1
  BY ResultStep
<1>3. \A j \in Keys : executed[j] \in Nat /\ executed'[j] \in Nat /\ executed[j] <= executed'[j]
  BY <1>1, <1>2
<1>4. \A s \in sims' \cup memory' : s \in sims \cup memory \/ s = runs[k].result
  BY ResultStep
<1>5. \A s \in sims' \cup memory' : s.n <= executed'[s.key]
  BY <1>1, <1>3, <1>4 DEF FreshInv
<1>6. runs'[k].result.n <= executed'[k]
  BY <1>1, <1>2 DEF FreshInv
<1>7. \A j \in Keys : j # k => executed'[j] = executed[j] /\ runs'[j] = runs[j]
  BY <1>1, <1>2 DEF Moved
<1> QED BY <1>5, <1>6, <1>7 DEF FreshInv

\* A step of a run leaves the index behind by at most what a failed write explains.
LEMMA IndexRunStep ==
  ASSUME BatchAssumption, IInv, NEW k \in Keys, RunStep(k), FreshInv, IndexInv
  PROVE  IndexInv'
<1> DEFINE r == runs[k]
<1> SUFFICES ASSUME Format = "dir" PROVE IndexInv'
  BY DEF IndexInv
<1>1. /\ TypedInv /\ Alive /\ Alive' /\ Moved(k) /\ r.result.key = k /\ TypedInv'
      /\ executed[k] \in Nat /\ r.result.n \in Nat
      /\ \A s \in sims : s.n \in Nat
      /\ \A s \in sims \cup index : s.key \in Keys
      /\ \A s \in sims' \cup index' : s.key \in Keys
  BY RunStepOwn, RunStepMoves, RunStepTypes DEF IInv, TypedInv, TypeOK, OwnKey, Result, Run
<1>2. /\ entries = sims
      /\ \A s \in sims \ index :
           runs[s.key].result = s => runs[s.key].at \in {"executing", "raised", "flush"}
      /\ \A s \in index \ sims :
           runs[s.key].goal = "replace" /\ runs[s.key].at \in Storing \cup {"raised"}
  BY <1>1 DEF IndexInv
<1>3. \A s : s.key # k => (s \in sims' <=> s \in sims)
  BY <1>1, RunStepOwn
<1>4. entries' = sims'
  BY <1>1, <1>2, AttemptsDo, ChecksDo, StoringDoes DEF RunStep, saver
<1>5. index' = index \/ (Flush(k) /\ index' = sims')
  BY <1>1, <1>2, AttemptsDo, ChecksDo, StoringDoes DEF RunStep, saver
<1>6. ASSUME NEW s \in sims' \ index', s.key = k, runs'[k].result = s
      PROVE  runs'[k].at \in {"executing", "raised", "flush"}
  <2>0. index' = index
    BY <1>5, <1>6
  <2>1. CASE s \in sims
    <3>1. s.n <= executed[k]
      BY <1>6, <2>1 DEF FreshInv
    <3>2. r.result = s
      <4>1. runs'[k].result.n # executed[k] + 1
        BY <1>1, <1>6, <2>1, <3>1
      <4> QED BY <1>1, <1>6, <4>1, ResultStep
    <3>3. r.at \in {"executing", "raised", "flush"}
      BY <1>2, <1>6, <2>0, <2>1, <3>2
    <3>4. ~Gets(k, "infra", "save") /\ \A kind, at : ~Gets(k, kind, at)
      <4>1. \A kind, at : Gets(k, kind, at) => runs'[k].result.n = executed[k] + 1
        BY NewResultIs DEF Gets
      <4> QED BY <1>1, <1>6, <3>1, <4>1
    <3>5. ~Flush(k)
      <4>1. Flush(k) => index' = sims'
        BY <1>1, <1>2, StoringDoes
      <4> QED BY <1>6, <4>1
    <3>6. CASE ExecuteOk(k)
      BY <1>1, <3>4, <3>6, AttemptsDo
    <3>7. CASE ExecuteFails(k) \/ StoreFails(k)
      <4>1. Again(k) \/ Goes(k, "raised")
        BY <1>1, <3>7, AttemptsDo, StoringDoes
      <4> QED BY <3>4, <4>1 DEF Again, Goes
    <3>8. CASE RunRaised(k)
      BY <3>8 DEF RunRaised
    <3>9. Start(k) \/ ExecuteOk(k) \/ ExecuteFails(k) \/ StoreFails(k) \/ Flush(k) \/ RunRaised(k)
      BY <1>1, <3>3, AttemptsDo, ChecksDo, StoringDoes DEF RunStep
    <3>10. ~Start(k)
      BY <1>1, <3>3, AttemptsDo
    <3> QED BY <3>5, <3>6, <3>7, <3>8, <3>9, <3>10
  <2>2. CASE s \notin sims
    <3>1. Rename(k)
      BY <1>1, <2>2, AttemptsDo, ChecksDo, StoringDoes DEF RunStep, saver
    <3> QED BY <1>1, <3>1, StoringDoes DEF Goes
  <2> QED BY <2>1, <2>2
<1>7. ASSUME NEW s \in index' \ sims', s.key = k
      PROVE  runs'[k].goal = "replace" /\ runs'[k].at \in Storing \cup {"raised"}
  <2>0. s \in index
    BY <1>5, <1>7
  <2>1. CASE s \in sims
    <3>1. BeginReplace(k)
      BY <1>1, <1>7, <2>1, AttemptsDo, ChecksDo, StoringDoes DEF RunStep, saver
    <3>2. r.at = "replace" /\ Goes(k, "write")
      BY <1>1, <3>1, StoringDoes
    <3>3. r.goal = "replace"
      BY <1>1, <3>2 DEF TypedInv, ReplacesLater
    <3> QED BY <3>2, <3>3 DEF Goes, Storing
  <2>2. CASE s \notin sims
    <3>1. r.goal = "replace" /\ r.at \in Storing \cup {"raised"}
      BY <1>2, <1>7, <2>0, <2>2
    <3>2. WriteReplacement(k) \/ Rename(k) \/ Flush(k) \/ StoreFails(k) \/ RunRaised(k)
      BY <1>1, <3>1, AttemptsDo, ChecksDo, StoringDoes DEF RunStep, Storing
    <3>3. ~Flush(k)
      <4>1. Flush(k) => index' = sims'
        BY <1>1, <1>2, StoringDoes
      <4> QED BY <1>7, <4>1
    <3>4. CASE WriteReplacement(k) \/ Rename(k) \/ StoreFails(k)
      <4>1. Goes(k, "rename") \/ Goes(k, "flush") \/ Goes(k, "raised")
        BY <1>1, <3>1, <3>4, StoringDoes
      <4> QED BY <3>1, <4>1 DEF Goes, Storing
    <3>5. CASE RunRaised(k)
      BY <3>1, <3>5 DEF RunRaised
    <3> QED BY <3>2, <3>3, <3>4, <3>5
  <2> QED BY <2>1, <2>2
<1>8. ASSUME NEW s \in sims' \ index', runs'[s.key].result = s
      PROVE  runs'[s.key].at \in {"executing", "raised", "flush"}
  <2>1. CASE s.key = k
    BY <1>6, <1>8, <2>1
  <2>2. CASE s.key # k
    <3>1. s \in sims /\ runs'[s.key] = runs[s.key]
      BY <1>1, <1>3, <2>2 DEF Moved
    <3>2. index' = index
      BY <1>5, <1>8
    <3> QED BY <1>2, <1>8, <3>1, <3>2
  <2> QED BY <2>1, <2>2
<1>9. ASSUME NEW s \in index' \ sims'
      PROVE  runs'[s.key].goal = "replace" /\ runs'[s.key].at \in Storing \cup {"raised"}
  <2>1. CASE s.key = k
    BY <1>7, <1>9, <2>1
  <2>2. CASE s.key # k
    <3>1. s \notin sims /\ runs'[s.key] = runs[s.key]
      BY <1>1, <1>3, <2>2 DEF Moved
    <3>2. index' = index
      BY <1>5, <1>9
    <3> QED BY <1>2, <1>9, <3>1, <3>2
  <2> QED BY <2>1, <2>2
<1> QED BY <1>4, <1>8, <1>9 DEF IndexInv

(* A batch that starts finds the index of its files, and nobody stores.        *)
LEMMA StartRunsSaver ==
  ASSUME BatchAssumption, NEW results \in SUBSET Result, StartRuns(results),
         BootInv, FreshInv, sims' = results, lock = NoKey, lock' = lock,
         results \subseteq sims \cup memory, executed' = executed, executed \in [Keys -> Nat],
         meta' # "absent", Format = "dir" => index' = results /\ ~stray'
  PROVE  SaverInv'
<1>1. /\ process' = "running" /\ memory' = results /\ entries' = results
      /\ \A k \in Keys : runs'[k].at \in {"queued", "skipped"}
  BY StartRunsTypes
<1>2. \A k \in Keys : runs'[k].result = NoResult(k)
  BY DEF StartRuns, Idle
<1>3. BootInv'
  BY <1>1 DEF BootInv
<1>4. LockInv'
  BY <1>1 DEF LockInv, Storing, BatchAssumption
<1>5. FreshInv'
  <2>1. \A k \in Keys : NoResult(k).n = 0
    BY DEF NoResult
  <2>2. \A s \in sims' \cup memory' : s.n <= executed'[s.key]
    BY <1>1 DEF FreshInv
  <2>3. \A k \in Keys : executed'[k] \in Nat
    OBVIOUS
  <2> QED BY <1>2, <2>1, <2>2, <2>3 DEF FreshInv
<1>6. IndexInv'
  BY <1>1 DEF IndexInv
<1> QED BY <1>3, <1>4, <1>5, <1>6 DEF SaverInv

\* Every step keeps the saver's invariant.
LEMMA SaverStep ==
  ASSUME BatchAssumption, IInv, SaverInv, [Next]_vars
  PROVE  SaverInv'
<1> USE DEF disk
<1>0. /\ TypedInv /\ sims \in SUBSET Result /\ memory \in SUBSET Result /\ NothingYet
      /\ executed \in [Keys -> Nat]
      /\ BootInv /\ LockInv /\ FreshInv /\ IndexInv
  BY DEF IInv, TypedInv, TypeOK, StoredInv, SaverInv
<1>1. ASSUME NEW k \in Keys, RunStep(k) PROVE SaverInv'
  BY <1>0, <1>1, BootRunStep, LockRunStep, FreshRunStep, IndexRunStep DEF SaverInv
<1>2. CASE BeginCreate \/ ResumeFails
  <2>1. ~Alive' /\ UNCHANGED <<lock, sims, memory, runs, executed, stray, index>>
    BY <1>2 DEF BeginCreate, ResumeFails, Alive
  <2>2. BootInv'
    BY <1>0, <1>2, <2>1 DEF BeginCreate, ResumeFails, BootInv
  <2> QED BY <1>0, <2>1, <2>2 DEF SaverInv, LockInv, FreshInv, IndexInv
<1>3. CASE EndCreate
  <2>1. /\ StartRuns({}) /\ sims' = {} /\ lock' = lock /\ executed' = executed
        /\ lock = NoKey /\ meta' = "ok" /\ index' = {} /\ ~stray'
    BY <1>0, <1>3 DEF EndCreate, NothingYet, BootInv
  <2>2. {} \in SUBSET Result /\ {} \subseteq sims \cup memory
    OBVIOUS
  <2> QED BY <1>0, <2>1, <2>2, StartRunsSaver
<1>4. CASE Resume
  <2>1. CASE Kept(sims) = sims
    <3>1. /\ StartRuns(sims) /\ sims' = sims /\ lock' = lock /\ executed' = executed
          /\ lock = NoKey /\ meta' # "absent"
          /\ Format = "dir" => index' = sims /\ ~stray'
      BY <1>0, <1>4, <2>1 DEF Resume, Loadable, BootInv
    <3> QED BY <1>0, <3>1, StartRunsSaver
  <2>2. CASE Kept(sims) # sims
    <3>1. /\ process' = "rewriting" /\ memory' = Kept(sims)
          /\ UNCHANGED <<lock, sims, runs, executed, stray, index, meta>>
          /\ process = "new" /\ meta # "absent" /\ (Format = "dir" => ~stray)
      BY <1>4, <2>2 DEF Resume, Loadable
    <3>2. BootInv' /\ ~Alive'
      BY <1>0, <3>1 DEF BootInv, Alive
    <3> QED BY <1>0, <3>1, <3>2 DEF SaverInv, LockInv, FreshInv, IndexInv, Kept
  <2> QED BY <2>1, <2>2
<1>5. CASE UnlinkFailed \/ BeginRewrite
  <2>1. /\ process' = process /\ process = "rewriting" /\ meta' # "absent"
        /\ UNCHANGED <<lock, memory, runs, executed, stray>> /\ sims' \subseteq sims
    BY <1>5 DEF UnlinkFailed, BeginRewrite
  <2>2. BootInv' /\ ~Alive'
    BY <1>0, <2>1 DEF BootInv, Alive
  <2> QED BY <1>0, <2>1, <2>2 DEF SaverInv, LockInv, FreshInv, IndexInv
<1>6. CASE EndRewrite
  <2>1. /\ StartRuns(memory) /\ sims' = memory /\ lock' = lock /\ executed' = executed
        /\ lock = NoKey /\ meta' # "absent"
        /\ Format = "dir" => index' = memory /\ ~stray'
    BY <1>0, <1>6 DEF EndRewrite, BootInv
  <2> QED BY <1>0, <2>1, StartRunsSaver
<1>7. CASE Finish \/ Interrupt \/ Die \/ Over \/ UNCHANGED vars
  <2>1. /\ UNCHANGED <<lock, sims, memory, runs, executed, stray, index, entries, meta>>
        /\ Alive' => Alive
        /\ process' = process \/ process' \notin {"new", "creating", "rewriting"}
        /\ meta = "absent" => process' = process
    BY <1>0, <1>7 DEF Finish, Interrupt, Die, Over, vars, Alive, BootInv
  <2>2. BootInv'
    BY <1>0, <2>1 DEF BootInv
  <2> QED BY <1>0, <2>1, <2>2 DEF SaverInv, LockInv, FreshInv, IndexInv
<1>8. CASE Restart
  <2>1. /\ process' = "new" /\ lock' = NoKey /\ memory' = {} /\ meta # "absent"
        /\ runs' = [k \in Keys |-> Idle(k, "queued")]
        /\ UNCHANGED <<sims, executed, stray, index, meta>>
    BY <1>0, <1>8 DEF Restart, BootInv
  <2>2. \A k \in Keys : runs'[k].result.n = 0
    BY <2>1 DEF Idle, NoResult
  <2>3. BootInv' /\ ~Alive'
    BY <1>0, <2>1 DEF BootInv, Alive
  <2> QED BY <1>0, <2>1, <2>2, <2>3 DEF SaverInv, LockInv, FreshInv, IndexInv
<1> QED BY <1>1, <1>2, <1>3, <1>4, <1>5, <1>6, <1>7, <1>8 DEF Next, Boot

\* The saver's invariant holds throughout.
LEMMA AlwaysInSync == Spec => []SaverInv
<1>1. Init => SaverInv
  <2> SUFFICES ASSUME Init PROVE SaverInv
    OBVIOUS
  <2>1. BootInv /\ ~Alive
    BY DEF Init, BootInv, Alive
  <2>2. FreshInv
    BY DEF Init, FreshInv, Idle, NoResult
  <2> QED BY <2>1, <2>2 DEF SaverInv, LockInv, IndexInv
<1>2. IInv /\ SaverInv /\ [Next]_vars => SaverInv'
  BY SaverStep, BatchAssumption
<1> QED BY <1>1, <1>2, AlwaysStored, PTL DEF Spec

(* While nobody is storing a result, the saver's index is that of the stored   *)
(* files, no temporary file lies about, and the index on disk differs only      *)
(* after a failed write: for any number of runs, workers, retries and sessions, *)
(* whatever fails and whenever a process was killed.                            *)
THEOREM IndexStaysInSync ==
  ASSUME Format = "dir"
  PROVE  Spec => []IndexInSync
<1>1. TypedInv /\ SaverInv => IndexInSync
  <2> SUFFICES ASSUME TypedInv, SaverInv, Alive, lock = NoKey PROVE IndexInSync
    BY DEF IndexInSync
  <2>1. \A k \in Keys : runs[k].at \notin Storing
    BY BatchAssumption DEF SaverInv, LockInv, BatchAssumption
  <2>2. ~stray
    BY <2>1 DEF SaverInv, LockInv, Storing
  <2>3. /\ entries = sims
        /\ \A s \in sims \ index :
             runs[s.key].result = s => runs[s.key].at \in {"executing", "raised", "flush"}
        /\ \A s \in index \ sims : runs[s.key].at \in Storing \cup {"raised"}
    BY DEF SaverInv, IndexInv
  <2>4. \A s \in sims \cup index : s.key \in Keys
    BY DEF TypedInv, TypeOK, Result
  <2>5. \A s \in sims \cup index : runs[s.key].at \notin Storing
    BY <2>1, <2>4
  <2> QED BY <2>2, <2>3, <2>5 DEF IndexInSync, Storing
<1>2. IInv => TypedInv
  BY DEF IInv
<1> QED BY <1>1, <1>2, AlwaysStored, AlwaysInSync, PTL

-----------------------------------------------------------------------------
(* What a resume finds.                                                    *)

\* The cases in which every checkpoint can be loaded: the single file, if the process
\* does not die while it is created or rewritten, and the directory, if no write
\* fails and the process dies in no file operation.
Careful ==
    \/ Format = "json" /\ CrashIn \subseteq {"store"}
    \/ ~CanFail /\ CrashIn = {}

\* results.json is torn only while it is created or rewritten, and a directory that
\* nobody is storing to has an index of its files.
LoadableInv ==
    /\ process # "unloadable"
    /\ meta = "torn" => process \in {"creating", "rewriting"}
    /\ Format = "dir" /\ process \notin {"creating", "rewriting"} =>
         /\ lock = NoKey => ~stray /\ index = sims
         /\ ~Alive => lock = NoKey

\* A step of a run leaves files that Results.load accepts.
LEMMA LoadableRunStep ==
  ASSUME BatchAssumption, Careful, IInv, SaverInv, NEW k \in Keys, RunStep(k), LoadableInv
  PROVE  LoadableInv'
<1>1. /\ TypedInv /\ TypedInv' /\ Alive /\ Alive' /\ LockInv /\ IndexInv /\ LockInv'
      /\ NoKey \notin Keys
  BY RunStepOwn, RunStepTypes, LockRunStep DEF IInv, SaverInv, BatchAssumption
<1>2. meta' = meta \/ meta' = "ok"
  BY DEF RunStep, Start, ExecuteOk, ExecuteFails, Check, ReadDiscarded,
     TruncateDiscarded, AppendDiscarded, SkipDuplicate, BeginSave, BeginReplace,
     WriteReplacement, Rename, Flush, StoreFails, Collect, RunRaised, disk,
     MetaWhileWriting
<1>3. ASSUME Format = "dir", lock' = NoKey PROVE ~stray' /\ index' = sims'
  <2>1. ~stray'
    <3>1. \A j \in Keys : runs'[j].at \notin Storing
      BY <1>1, <1>3 DEF LockInv
    <3> QED BY <1>1, <1>3, <3>1 DEF LockInv, Storing
  <2>2. CASE Flush(k)
    BY <1>1, <1>3, <2>1, <2>2, StoringDoes DEF IndexInv
  <2>3. CASE ~Flush(k)
    <3>1. ~StoreFails(k) /\ ~BeginSave(k) /\ ~BeginReplace(k)
      <4>1. ~CanFail
        BY <1>3 DEF Careful
      <4> QED BY <1>1, <1>3, <4>1, StoringDoes
    <3>2. ~Rename(k) /\ ~WriteReplacement(k)
      <4>1. lock' = lock /\ runs[k].at \in Storing => FALSE
        BY <1>1, <1>3 DEF LockInv
      <4> QED BY <1>1, <1>3, <4>1, StoringDoes DEF Storing
    <3>3. UNCHANGED <<lock, index, sims>>
      BY <1>1, <2>3, <3>1, <3>2, AttemptsDo, ChecksDo, StoringDoes DEF RunStep, saver
    <3> QED BY <1>1, <1>3, <2>1, <3>3 DEF LoadableInv, Alive
  <2> QED BY <2>1, <2>2, <2>3
<1> QED BY <1>1, <1>2, <1>3 DEF LoadableInv, Alive

\* Every step leaves files that Results.load accepts, where Careful holds.
LEMMA LoadableStep ==
  ASSUME BatchAssumption, Careful, IInv, SaverInv, [Next]_vars, LoadableInv
  PROVE  LoadableInv'
<1> USE DEF disk
<1>0. BootInv /\ NothingYet /\ meta \in {"absent", "torn", "ok"} /\ Format \in {"json", "dir"}
      /\ lock \in Keys \cup {NoKey} /\ TypedInv
  BY DEF IInv, SaverInv, StoredInv, TypedInv, TypeOK, BatchAssumption
<1>1. ASSUME NEW k \in Keys, RunStep(k) PROVE LoadableInv'
  BY <1>1, LoadableRunStep
<1>2. CASE BeginCreate
  BY <1>2 DEF BeginCreate, LoadableInv
<1>3. CASE EndCreate
  <2>1. /\ process' = "running" /\ meta' = "ok" /\ sims' = {} /\ index' = {} /\ ~stray'
    BY <1>0, <1>3 DEF EndCreate, StartRuns, NothingYet, BootInv
  <2> QED BY <2>1 DEF LoadableInv, Alive
<1>4. CASE Resume \/ ResumeFails
  <2>1. process = "new" /\ meta = "ok" /\ Loadable /\ lock = NoKey
    <3>1. process = "new" /\ meta # "absent" /\ lock = NoKey
      BY <1>0, <1>4 DEF Resume, ResumeFails, BootInv
    <3>2. meta = "ok"
      BY <1>0, <3>1 DEF LoadableInv
    <3> QED BY <3>1, <3>2 DEF LoadableInv, Loadable
  <2>2. Resume
    BY <1>4, <2>1 DEF ResumeFails
  <2>3. /\ UNCHANGED <<meta, index, sims, stray, lock>>
        /\ process' \in {"running", "rewriting"}
    BY <2>2 DEF Resume, StartRuns
  <2> QED BY <2>1, <2>3 DEF LoadableInv, Loadable, Alive
<1>5. CASE UnlinkFailed \/ BeginRewrite
  <2>1. process' = "rewriting"
    BY <1>5 DEF UnlinkFailed, BeginRewrite
  <2> QED BY <2>1 DEF LoadableInv
<1>6. CASE EndRewrite
  <2>1. /\ process' = "running" /\ meta' = "ok"
        /\ Format = "dir" => index' = sims' /\ ~stray'
    BY <1>0, <1>6 DEF EndRewrite, StartRuns, BootInv
  <2> QED BY <2>1 DEF LoadableInv, Alive
<1>7. CASE Finish
  <2>1. /\ Alive /\ UNCHANGED <<meta, index, sims, stray, lock>>
        /\ process' \in {"returned", "raised"}
        /\ \A k \in Keys : runs[k].at \in Ended
    BY <1>7 DEF Finish, Alive, Ended
  <2>2. lock = NoKey
    BY <1>0, <2>1 DEF SaverInv, LockInv, Ended, Storing
  <2> QED BY <2>1, <2>2 DEF LoadableInv, Alive
<1>8. CASE Die
  <2>1. /\ UNCHANGED <<meta, index, sims, stray, lock>> /\ process' = "dead"
        /\ Operation \in CrashIn \cup {"none"}
    BY <1>8 DEF Die
  <2>2. process \notin {"creating", "rewriting"}
    BY <2>1 DEF Operation, Careful
  <2>3. Format = "dir" => lock = NoKey
    <3>1. Format = "dir" => CrashIn = {}
      BY DEF Careful
    <3> QED BY <2>1, <2>2, <3>1 DEF Operation
  <2> QED BY <2>1, <2>2, <2>3 DEF LoadableInv, Alive
<1>9. CASE Interrupt
  BY <1>9 DEF Interrupt, LoadableInv, Alive
<1>10. CASE Restart
  <2>1. /\ process' = "new" /\ lock' = NoKey /\ UNCHANGED <<meta, index, sims, stray>>
        /\ process \in {"dead", "returned", "raised"}
    BY <1>10 DEF Restart
  <2> QED BY <2>1 DEF LoadableInv, Alive
<1>11. CASE Over \/ UNCHANGED vars
  BY <1>11 DEF Over, vars, LoadableInv, Alive
<1> QED BY <1>1, <1>2, <1>3, <1>4, <1>5, <1>6, <1>7, <1>8, <1>9, <1>10, <1>11 DEF Next, Boot

(* "Use --auto-resume to continue later": in these cases a batch that was cut  *)
(* off can go on, for any number of runs, workers, retries and sessions.        *)
THEOREM CanResume ==
  ASSUME Careful
  PROVE  Spec => []Resumable
<1>1. Init => LoadableInv
  BY DEF Init, LoadableInv
<1>2. IInv /\ SaverInv /\ LoadableInv /\ [Next]_vars => LoadableInv'
  BY LoadableStep, BatchAssumption
<1>3. LoadableInv => Resumable
  BY DEF LoadableInv, Resumable
<1> QED BY <1>1, <1>2, <1>3, AlwaysStored, AlwaysInSync, PTL DEF Spec

-----------------------------------------------------------------------------
(* The checkpoint implements the abstract store.                           *)

\* The kind of what is stored for a run.
KindOf(S, k) == IF OfKey(S, k) = {} THEN "none" ELSE (CHOOSE s \in OfKey(S, k) : TRUE).kind

\* A resume has the results in memory that it keeps, and the directory holds exactly
\* these when results.json is written anew.
RewriteInv ==
    process = "rewriting" =>
        /\ meta # "torn" => memory = Kept(sims)
        /\ meta = "torn" /\ Format = "dir" => sims = memory

\* Until try_resume has written its results back, all it keeps is in memory.
LEMMA RewriteStep ==
  ASSUME BatchAssumption, IInv, RewriteInv, [Next]_vars
  PROVE  RewriteInv'
<1> USE DEF disk
<1>1. ASSUME NEW k \in Keys, RunStep(k) PROVE RewriteInv'
  BY <1>1, RunStepOwn DEF IInv, RewriteInv, Alive
<1>2. CASE Resume
  BY <1>2 DEF Resume, RewriteInv, StartRuns, Loadable
<1>3. CASE UnlinkFailed
  BY <1>3 DEF UnlinkFailed, RewriteInv, Kept
<1>4. CASE BeginRewrite
  BY <1>4 DEF BeginRewrite, RewriteInv
<1>5. CASE BeginCreate \/ EndCreate \/ ResumeFails \/ EndRewrite \/ Finish \/ Interrupt
             \/ Die \/ Restart
  <2>1. process' # "rewriting"
    BY <1>5 DEF BeginCreate, EndCreate, ResumeFails, EndRewrite, Finish, Interrupt, Die,
                Restart, StartRuns
  <2> QED BY <2>1 DEF RewriteInv
<1>6. CASE Over \/ UNCHANGED vars
  BY <1>6 DEF Over, vars, RewriteInv
<1> QED BY <1>1, <1>2, <1>3, <1>4, <1>5, <1>6 DEF Next, Boot

(* What is stored of a run whose only result is known.                      *)
LEMMA OnlyKind ==
  ASSUME NEW S, \A s, t \in S : s.key = t.key => s = t, NEW s \in S
  PROVE  KindOf(S, s.key) = s.kind
<1>1. OfKey(S, s.key) = {s}
  BY DEF OfKey
<1>2. (CHOOSE t \in {s} : TRUE) = s
  OBVIOUS
<1> QED BY <1>1, <1>2 DEF KindOf

(* It depends on the results of the run alone.                              *)
LEMMA SameKind ==
  ASSUME NEW S, NEW T, NEW k, OfKey(S, k) = OfKey(T, k)
  PROVE  KindOf(S, k) = KindOf(T, k)
BY DEF KindOf

(* A set without some results that have gone from it drops exactly their runs. *)
LEMMA KindsDropped ==
  ASSUME NEW S, NEW T, T \subseteq S, \A s, t \in S : s.key = t.key => s = t,
         \A s \in S : s.key \in Keys,
         \A s \in S \ T : s.kind \in {"infra", "hallucinated"}
  PROVE  \E dropped \in SUBSET Keys :
            /\ \A k \in dropped : KindOf(S, k) \in {"infra", "hallucinated"}
            /\ \A k \in Keys : KindOf(T, k) = IF k \in dropped THEN "none" ELSE KindOf(S, k)
<1> DEFINE D == {k \in Keys : \E s \in S \ T : s.key = k}
<1>1. ASSUME NEW k \in D PROVE KindOf(S, k) \in {"infra", "hallucinated"}
  <2>1. PICK s \in S \ T : s.key = k
    OBVIOUS
  <2>2. KindOf(S, k) = s.kind
    BY <2>1, OnlyKind
  <2> QED BY <2>1, <2>2
<1>2. ASSUME NEW k \in Keys PROVE KindOf(T, k) = IF k \in D THEN "none" ELSE KindOf(S, k)
  <2>1. CASE k \in D
    <3>1. OfKey(T, k) = {}
      BY <2>1 DEF OfKey
    <3> QED BY <2>1, <3>1 DEF KindOf
  <2>2. CASE k \notin D
    <3>1. OfKey(T, k) = OfKey(S, k)
      BY <2>2 DEF OfKey
    <3> QED BY <2>2, <3>1 DEF KindOf
  <2> QED BY <2>1, <2>2
<1> HIDE DEF D
<1>3. D \in SUBSET Keys
  BY DEF D
<1> QED BY <1>1, <1>2, <1>3

\* What the store holds (the refinement mapping).
StoredNow == [k \in Keys |-> KindOf(Content, k)]

\* The steps of the result store, without its names.
LEMMA Mapping == Store!Next <=>
    \/ \E k \in Keys, kind \in {"good", "hallucinated", "infra"} :
         \/ StoredNow[k] = "none" /\ StoredNow' = [StoredNow EXCEPT ![k] = kind]
         \/ StoredNow[k] = "hallucinated" /\ StoredNow' = [StoredNow EXCEPT ![k] = kind]
    \/ \E dropped \in SUBSET Keys :
         /\ \A k \in dropped : StoredNow[k] \in {"infra", "hallucinated"}
         /\ StoredNow' = [k \in Keys |-> IF k \in dropped THEN "none" ELSE StoredNow[k]]
BY DEF Store!Next, Store!Put, Store!Replace, Store!Drop, Store!Kinds, StoredNow, KindOf

\* The single file is not rewritten in place by a process that dies there.
WholeRewrite == Format = "dir" \/ "rewrite" \notin CrashIn

(* What remains of the checkpoint after results of failed or hallucinated runs *)
(* are gone.                                                                   *)
LEMMA ContentDropped ==
  ASSUME IInv, Content' \subseteq Content, Content \subseteq sims,
         \A s \in Content \ Content' : s.kind \in {"infra", "hallucinated"}
  PROVE  Store!Next
<1>1. /\ \A s, t \in Content : s.key = t.key => s = t
      /\ \A s \in Content : s.key \in Keys
  BY DEF IInv, TypedInv, TypeOK, StoredInv, OnePerKey, Result
<1>2. StoredNow = [k \in Keys |-> KindOf(Content, k)]
      /\ StoredNow' = [k \in Keys |-> KindOf(Content', k)]
  BY DEF StoredNow, KindOf, OfKey
<1>3. \E dropped \in SUBSET Keys :
         /\ \A k \in dropped : StoredNow[k] \in {"infra", "hallucinated"}
         /\ StoredNow' = [k \in Keys |-> IF k \in dropped THEN "none" ELSE StoredNow[k]]
  <2> DEFINE S == Content
             T == Content'
  <2>1. /\ T \subseteq S /\ \A s, t \in S : s.key = t.key => s = t
        /\ \A s \in S : s.key \in Keys
        /\ \A s \in S \ T : s.kind \in {"infra", "hallucinated"}
    BY <1>1
  <2> HIDE DEF S, T
  <2>2. PICK dropped \in SUBSET Keys :
         /\ \A k \in dropped : KindOf(S, k) \in {"infra", "hallucinated"}
         /\ \A k \in Keys : KindOf(T, k) = IF k \in dropped THEN "none" ELSE KindOf(S, k)
    BY <2>1, KindsDropped
  <2>3. /\ StoredNow = [k \in Keys |-> KindOf(S, k)]
        /\ StoredNow' = [k \in Keys |-> KindOf(T, k)]
    BY <1>2 DEF S, T
  <2>4. \A k \in dropped : StoredNow[k] \in {"infra", "hallucinated"}
    BY <2>2, <2>3
  <2>5. StoredNow' = [k \in Keys |-> IF k \in dropped THEN "none" ELSE StoredNow[k]]
    BY <2>2, <2>3
  <2> QED BY <2>4, <2>5
<1> QED BY <1>3, Mapping

(* A stored result takes the place of nothing or of a hallucinated one.        *)
LEMMA RenameKeeps ==
  ASSUME BatchAssumption, Lossless, IInv, DoneInv, IInv', NEW k \in Keys, Rename(k)
  PROVE  Store!Next
<1> DEFINE r == runs[k]
<1>1. /\ TypedInv /\ Alive /\ Alive' /\ OnePerKey /\ OnePerKey' /\ r.result.key = k
      /\ r.result.kind \in {"good", "hallucinated", "infra"} /\ FreeToStore
      /\ Storage(r, OfKey(sims, k)) /\ r.goal \in {"save", "replace"}
      /\ \A s : s.key # k => (s \in sims' <=> s \in sims)
  <2>1. TypedInv /\ RunStep(k)
    BY DEF IInv, RunStep
  <2>2. Alive /\ Alive' /\ \A s : s.key # k => (s \in sims' <=> s \in sims)
    BY <2>1, RunStepOwn
  <2> QED BY <2>1, <2>2 DEF IInv, TypedInv, TypeOK, OwnKey, StoredInv, Result, ResultKinds, Run,
                            DoneInv, Working
<1>2. Content = sims /\ Content' = sims'
  BY <1>1 DEF Content, Alive
<1>3. r.at = "rename" /\ r.result \in sims'
  BY <1>1, StoringDoes
<1>4. KindOf(sims', k) = r.result.kind
  <2> DEFINE S == sims'
  <2>1. \A s, t \in S : s.key = t.key => s = t
    BY <1>1 DEF OnePerKey
  <2> HIDE DEF S
  <2>2. r.result \in S
    BY <1>3 DEF S
  <2>3. KindOf(S, r.result.key) = r.result.kind
    BY <2>1, <2>2, OnlyKind
  <2> QED BY <1>1, <2>3 DEF S
<1>5. KindOf(sims, k) \in {"none", "hallucinated"}
  <2>1. CASE OfKey(sims, k) = {}
    BY <2>1 DEF KindOf
  <2>2. CASE OfKey(sims, k) # {}
    <3>1. r.goal = "replace"
      BY <1>1, <1>3, <2>2 DEF FreeToStore
    <3>2. \A s \in OfKey(sims, k) : s.kind = "hallucinated"
      BY <1>1, <1>3, <3>1 DEF Storage
    <3>3. PICK s \in OfKey(sims, k) : TRUE
      BY <2>2
    <3>4. s \in sims /\ s.key = k
      BY DEF OfKey
    <3>5. KindOf(sims, s.key) = s.kind
      BY <1>1, <3>4, OnlyKind DEF OnePerKey
    <3> QED BY <3>2, <3>4, <3>5
  <2> QED BY <2>1, <2>2
<1>6. \A j \in Keys : j # k => KindOf(sims', j) = KindOf(sims, j)
  <2>1. \A j \in Keys : j # k => OfKey(sims', j) = OfKey(sims, j)
    BY <1>1 DEF OfKey
  <2> QED BY <2>1, SameKind
<1>7. /\ StoredNow = [j \in Keys |-> KindOf(sims, j)]
      /\ StoredNow' = [j \in Keys |-> KindOf(sims', j)]
  BY <1>2 DEF StoredNow, KindOf, OfKey
<1>8. /\ StoredNow[k] = "none" \/ StoredNow[k] = "hallucinated"
      /\ StoredNow' = [StoredNow EXCEPT ![k] = r.result.kind]
  BY <1>4, <1>5, <1>6, <1>7
<1> QED BY <1>1, <1>8, Mapping

\* Every step of the batch is one of the result store or leaves what is stored alone.
LEMMA KeepsStep ==
  ASSUME BatchAssumption, Lossless, WholeRewrite, IInv, IInv', DoneInv, RewriteInv, [Next]_vars
  PROVE  Store!Next \/ StoredNow' = StoredNow
<1> USE DEF disk
<1>0. /\ TypedInv /\ KnownHere /\ sims \in SUBSET Result /\ memory \in SUBSET Result
  BY DEF IInv, TypedInv, TypeOK, StoredInv
<1>1. Content' = Content => StoredNow' = StoredNow
  BY DEF StoredNow, KindOf, OfKey
<1>2. ASSUME NEW k \in Keys, RunStep(k) PROVE Store!Next \/ StoredNow' = StoredNow
  <2>1. Alive /\ Alive' /\ Content = sims /\ Content' = sims'
    BY <1>0, <1>2, RunStepOwn DEF Content, Alive
  <2>2. CASE Rename(k)
    BY <2>2, RenameKeeps
  <2>3. CASE BeginReplace(k)
    <3>1. runs[k].at = "replace" /\ sims' \subseteq sims /\ \A s \in sims \ sims' : s.key = k
      BY <1>0, <2>3, StoringDoes DEF OfKey
    <3>2. runs[k].goal = "replace" /\ Storage(runs[k], OfKey(sims, k))
      BY <1>0, <2>1, <3>1 DEF TypedInv, ReplacesLater, DoneInv, Working
    <3>3. \A s \in sims \ sims' : s.kind = "hallucinated"
      BY <3>1, <3>2 DEF Storage, OfKey
    <3> QED BY <2>1, <3>1, <3>3, ContentDropped
  <2>4. CASE ~Rename(k) /\ ~BeginReplace(k)
    <3>1. sims' = sims
      BY <1>0, <1>2, <2>4, AttemptsDo, ChecksDo, StoringDoes DEF RunStep, saver
    <3> QED BY <1>1, <2>1, <3>1
  <2> QED BY <2>2, <2>3, <2>4
<1>3. CASE BeginCreate \/ EndCreate \/ ResumeFails \/ Finish \/ Interrupt \/ Restart
  <2>1. process # "rewriting" /\ process' # "rewriting" /\ sims' = sims
    BY <1>3 DEF BeginCreate, EndCreate, ResumeFails, Finish, Interrupt, Restart, StartRuns
  <2> QED BY <1>1, <2>1 DEF Content
<1>4. CASE Resume
  <2>1. process # "rewriting" /\ meta' = "ok" /\ sims' = sims
    BY <1>4 DEF Resume, Loadable
  <2> QED BY <1>1, <2>1 DEF Content
<1>5. CASE UnlinkFailed
  <2>1. PICK s \in sims \ memory : sims' = sims \ {s}
    BY <1>5 DEF UnlinkFailed
  <2>2. /\ process = "rewriting" /\ meta = "ok" /\ process' = process /\ meta' = meta
    BY <1>5 DEF UnlinkFailed
  <2>3. memory = Kept(sims) /\ Content = sims /\ Content' = sims'
    BY <2>2 DEF RewriteInv, Content
  <2>4. s.kind = "infra"
    BY <2>3 DEF Kept
  <2>5. Content' \subseteq Content /\ \A t \in Content \ Content' : t.kind = "infra"
    BY <2>1, <2>3, <2>4
  <2> QED BY <2>3, <2>5, ContentDropped
<1>6. CASE BeginRewrite
  <2>1. /\ process = "rewriting" /\ meta = "ok" /\ process' = process /\ meta' = "torn"
        /\ memory' = memory
    BY <1>6 DEF BeginRewrite
  <2>2. Content = sims /\ Content' = memory /\ memory = Kept(sims)
    BY <2>1 DEF RewriteInv, Content
  <2>3. Content' \subseteq Content /\ \A t \in Content \ Content' : t.kind = "infra"
    BY <2>2 DEF Kept
  <2> QED BY <2>2, <2>3, ContentDropped
<1>7. CASE EndRewrite
  <2>1. /\ process = "rewriting" /\ meta = "torn" /\ process' = "running" /\ sims' = memory
    BY <1>7 DEF EndRewrite, StartRuns
  <2> QED BY <1>1, <2>1 DEF Content
<1>8. CASE Die
  <2>1. /\ process' = "dead" /\ sims' = sims /\ Operation \in CrashIn \cup {"none"}
    BY <1>8 DEF Die
  <2>2. process = "rewriting" => Format = "dir"
    BY <2>1 DEF Operation, WholeRewrite
  <2>3. Content = sims
    BY <2>2 DEF Content, RewriteInv
  <2> QED BY <1>1, <2>1, <2>3 DEF Content
<1>9. CASE Over \/ UNCHANGED vars
  BY <1>1, <1>9 DEF Over, vars, Content
<1> QED BY <1>2, <1>3, <1>4, <1>5, <1>6, <1>7, <1>8, <1>9 DEF Next, Boot

(* The checkpoint implements a store with one result per run in which good     *)
(* results stay: for any number of runs, workers, retries and sessions and a    *)
(* process that dies anywhere, in the directory as long as no write fails, in    *)
(* the single file as long as the process does not die while it rewrites it.    *)
THEOREM StoreKeeps ==
  ASSUME Lossless, WholeRewrite
  PROVE  Spec => KeepsGoodResults
<1>1. Init => Store!Init /\ RewriteInv
  <2> SUFFICES ASSUME Init PROVE Store!Init /\ RewriteInv
    OBVIOUS
  <2>1. RewriteInv /\ Content = {}
    BY DEF Init, RewriteInv, Content
  <2>2. \A k \in Keys : OfKey(Content, k) = {}
    BY <2>1 DEF OfKey
  <2>3. Store!Init
    BY <2>2 DEF Store!Init
  <2> QED BY <2>1, <2>3
<1>2. IInv /\ RewriteInv /\ [Next]_vars => RewriteInv'
  BY RewriteStep, BatchAssumption
<1>3. IInv /\ IInv' /\ DoneInv /\ RewriteInv /\ [Next]_vars => [Store!Next]_(StoredNow)
  BY KeepsStep, BatchAssumption
<1>4. StoredNow = [k \in Keys |->
                     IF OfKey(Content, k) = {} THEN "none"
                     ELSE (CHOOSE s \in OfKey(Content, k) : TRUE).kind]
  BY DEF StoredNow, KindOf
<1>5. IInv /\ IInv' /\ DoneInv /\ RewriteInv /\ [Next]_vars
        => [Store!Next]_([k \in Keys |->
                     IF OfKey(Content, k) = {} THEN "none"
                     ELSE (CHOOSE s \in OfKey(Content, k) : TRUE).kind])
  BY <1>3 DEF StoredNow, KindOf
<1> QED BY <1>1, <1>2, <1>5, AlwaysStored, AlwaysDone, PTL
        DEF Spec, KeepsGoodResults, Store!Spec
=============================================================================
