-------------------------- MODULE ObservedRunProofs --------------------------
(***************************************************************************)
(* Proofs about ObservedRun: which command lines start tau2, what an       *)
(* interrupted observer leaves in its files, what a command tells about    *)
(* its end, that a tool that ran was observed, and that the counts in the  *)
(* observer's final state are those of its files.                          *)
(***************************************************************************)
EXTENDS ObservedRun, TLAPS, FiniteSetTheorems

-----------------------------------------------------------------------------
(* What Decide answers.                                                    *)

\* Among at most eight checks there is a first one.
LEMMA FirstOfEight ==
    ASSUME NEW S, S \subseteq 1 .. 8, S # {}
    PROVE  \E i \in S : \A j \in S : i <= j
<1>1. CASE 1 \in S
  BY <1>1
<1>2. CASE 1 \notin S /\ 2 \in S
  BY <1>2
<1>3. CASE S \subseteq 3 .. 8 /\ 3 \in S
  BY <1>3
<1>4. CASE S \subseteq 4 .. 8 /\ 4 \in S
  BY <1>4
<1>5. CASE S \subseteq 5 .. 8 /\ 5 \in S
  BY <1>5
<1>6. CASE S \subseteq 6 .. 8 /\ 6 \in S
  BY <1>6
<1>7. CASE S \subseteq 7 .. 8 /\ 7 \in S
  BY <1>7
<1>8. CASE S \subseteq {8}
  <2>1. PICK i \in S : TRUE
    OBVIOUS
  <2>2. i <= i /\ \A j \in S : j = i
    BY <1>8
  <2> QED BY <2>2
<1> QED BY <1>1, <1>2, <1>3, <1>4, <1>5, <1>6, <1>7, <1>8

\* Decide says "ready" exactly if no check applies.
LEMMA ReadyIffNothingApplies ==
    ASSUME NEW l, NEW a,
           DOMAIN Checks(l, a) \subseteq 1 .. 8,
           \A i \in DOMAIN Checks(l, a) : Checks(l, a)[i].status # "ready"
    PROVE  Decide(l, a) = "ready" <=> \A i \in DOMAIN Checks(l, a) : ~Checks(l, a)[i].applies
<1> DEFINE checks == Checks(l, a)
           failing == {i \in DOMAIN checks : checks[i].applies}
<1>1. CASE failing = {}
  <2>1. Decide(l, a) = "ready"
    BY <1>1 DEF Decide
  <2> QED BY <1>1, <2>1
<1>2. CASE failing # {}
  <2>1. \E i \in failing : \A j \in failing : i <= j
    <3> HIDE DEF checks
    <3>1. failing \subseteq 1 .. 8
      BY DEF checks
    <3> HIDE DEF failing
    <3> QED BY <1>2, <3>1, FirstOfEight
  <2>2. (CHOOSE i \in failing : \A j \in failing : i <= j) \in failing
    BY <2>1
  <2>3. Decide(l, a) = checks[CHOOSE i \in failing : \A j \in failing : i <= j].status
    BY <1>2 DEF Decide
  <2> QED BY <1>2, <2>2, <2>3
<1> QED BY <1>1, <1>2

\* The checks of the two launchers that select tasks, one by one.
LEMMA ChecksOfRun ==
    ASSUME NEW l \in {"model", "traced"}, NEW a
    PROVE  /\ DOMAIN Checks(l, a) = 1 .. 8
           /\ {Checks(l, a)[1], Checks(l, a)[2]} = {MissingAck(a), MissingModel(a)}
           /\ Checks(l, a)[3] = Check(a.domain = "other" /\ ~a.override,
                                      "refused_non_mock_domain")
           /\ Checks(l, a)[4] = Check(~a.steps, "failed")
           /\ Checks(l, a)[5] = Check(a.concurrency # 1, "failed")
           /\ Checks(l, a)[6] = Check(a.num_tasks = "zero", "failed")
           /\ Checks(l, a)[7] = Check(InvalidTask(a), "refused_invalid_task_id")
           /\ Checks(l, a)[8] = MissingKey(a)
<1>1. CASE l = "model"
  BY <1>1 DEF Checks, RunChecks
<1>2. CASE l = "traced"
  BY <1>2 DEF Checks, RunChecks
<1> QED BY <1>1, <1>2

\* What it takes for a launcher to run tau2 (Allowed, of any arguments).
Permits(l, a) ==
    /\ a.model /\ a.ack /\ a.key /\ a.steps
    /\ l # "variant" =>
         /\ a.domain = "mock" \/ a.override
         /\ a.concurrency = 1 /\ a.num_tasks # "zero" /\ ~InvalidTask(a)

\* Each launcher is ready for exactly the command lines it may run: no check is
\* missing, none is too many, and their order does not matter.
LEMMA ReadyIffPermitted ==
    ASSUME NEW l \in Launchers, NEW a \in Args
    PROVE  Decide(l, a) = "ready" <=> Permits(l, a)
<1>1. CASE l \in {"model", "traced"}
  <2> DEFINE c(i) == Checks(l, a)[i]
  <2>0. /\ c(3) = Check(a.domain = "other" /\ ~a.override, "refused_non_mock_domain")
        /\ c(4) = Check(~a.steps, "failed")
        /\ c(5) = Check(a.concurrency # 1, "failed")
        /\ c(6) = Check(a.num_tasks = "zero", "failed")
        /\ c(7) = Check(InvalidTask(a), "refused_invalid_task_id")
        /\ c(8) = MissingKey(a)
    BY <1>1, ChecksOfRun
  <2>1. \A i \in 1 .. 8 : c(i).status # "ready"
    <3>1. c(1).status # "ready" /\ c(2).status # "ready"
      <4>1. MissingAck(a).status # "ready" /\ MissingModel(a).status # "ready"
        BY DEF MissingAck, MissingModel, Check
      <4>2. c(1) \in {MissingAck(a), MissingModel(a)} /\ c(2) \in {MissingAck(a), MissingModel(a)}
        BY <1>1, ChecksOfRun
      <4> QED BY <4>1, <4>2
    <3>2. /\ c(3).status # "ready" /\ c(4).status # "ready" /\ c(5).status # "ready"
          /\ c(6).status # "ready" /\ c(7).status # "ready" /\ c(8).status # "ready"
      <4>1. \A p, s : Check(p, s).status = s
        BY DEF Check
      <4>2. MissingKey(a).status = "refused_missing_provider_env"
        BY <4>1 DEF MissingKey
      <4> HIDE DEF c
      <4>3. /\ c(3).status = "refused_non_mock_domain" /\ c(4).status = "failed"
            /\ c(5).status = "failed" /\ c(6).status = "failed"
            /\ c(7).status = "refused_invalid_task_id"
            /\ c(8).status = "refused_missing_provider_env"
        BY <2>0, <4>1, <4>2
      <4> QED BY <4>3
    <3> HIDE DEF c
    <3> QED BY <3>1, <3>2
  <2>2. (\A i \in 1 .. 8 : ~c(i).applies) <=> Permits(l, a)
    <3>1. (~c(1).applies /\ ~c(2).applies) <=> a.ack /\ a.model
      <4>1. (MissingAck(a).applies <=> ~a.ack) /\ (MissingModel(a).applies <=> ~a.model)
        BY DEF MissingAck, MissingModel, Check
      <4>2. {c(1), c(2)} = {MissingAck(a), MissingModel(a)}
        BY <1>1, ChecksOfRun
      <4> HIDE DEF c
      <4> QED BY <4>1, <4>2
    <3>2. /\ c(3).applies <=> (a.domain = "other" /\ ~a.override)
          /\ c(4).applies <=> ~a.steps
          /\ c(5).applies <=> a.concurrency # 1
          /\ c(6).applies <=> a.num_tasks = "zero"
          /\ c(7).applies <=> InvalidTask(a)
          /\ c(8).applies <=> ~a.key
      <4>1. /\ MissingKey(a).applies <=> ~a.key
            /\ Check(~a.steps, "failed").applies <=> ~a.steps
        BY DEF Check, MissingKey
      <4>2. /\ Check(a.domain = "other" /\ ~a.override, "refused_non_mock_domain").applies
                  <=> (a.domain = "other" /\ ~a.override)
            /\ Check(a.concurrency # 1, "failed").applies <=> a.concurrency # 1
            /\ Check(a.num_tasks = "zero", "failed").applies <=> a.num_tasks = "zero"
            /\ Check(InvalidTask(a), "refused_invalid_task_id").applies <=> InvalidTask(a)
        BY DEF Check, InvalidTask
      <4> HIDE DEF c
      <4> QED BY <2>0, <4>1, <4>2
    <3>3. a.domain # "other" <=> a.domain = "mock"
      BY DEF Args
    <3> HIDE DEF c
    <3>4. (\A i \in 1 .. 8 : ~c(i).applies) <=>
            /\ ~c(1).applies /\ ~c(2).applies /\ ~c(3).applies /\ ~c(4).applies
            /\ ~c(5).applies /\ ~c(6).applies /\ ~c(7).applies /\ ~c(8).applies
      OBVIOUS
    <3> QED BY <1>1, <3>1, <3>2, <3>3, <3>4 DEF Permits
  <2>3. DOMAIN Checks(l, a) = 1 .. 8
    BY <1>1, ChecksOfRun
  <2> QED BY <2>1, <2>2, <2>3, ReadyIffNothingApplies
<1>2. CASE l = "variant"
  <2> DEFINE c(i) == Checks(l, a)[i]
  <2>1. /\ DOMAIN Checks(l, a) = 1 .. 4
        /\ c(1) = MissingModel(a) /\ c(2) = MissingAck(a)
        /\ c(3) = Check(~a.steps, "failed") /\ c(4) = MissingKey(a)
    BY <1>2 DEF Checks
  <2>2. \A i \in 1 .. 4 : c(i).status # "ready"
    BY <2>1 DEF MissingAck, MissingModel, MissingKey, Check
  <2>3. (\A i \in 1 .. 4 : ~c(i).applies) <=> Permits(l, a)
    <3>1. /\ c(1).applies <=> ~a.model
          /\ c(2).applies <=> ~a.ack
          /\ c(3).applies <=> ~a.steps
          /\ c(4).applies <=> ~a.key
      <4>1. /\ MissingModel(a).applies <=> ~a.model
            /\ MissingAck(a).applies <=> ~a.ack
            /\ MissingKey(a).applies <=> ~a.key
        BY DEF MissingAck, MissingModel, MissingKey, Check
      <4>2. Check(~a.steps, "failed").applies <=> ~a.steps
        BY DEF Check
      <4> HIDE DEF c
      <4> QED BY <2>1, <4>1, <4>2
    <3> HIDE DEF c
    <3> QED BY <1>2, <3>1 DEF Permits
  <2> QED BY <2>1, <2>2, <2>3, ReadyIffNothingApplies
<1> QED BY <1>1, <1>2 DEF Launchers

-----------------------------------------------------------------------------
(* Which commands start tau2.                                              *)

\* The inductive part: where a launcher is tells whether it has decided, and the
\* smoke never comes to where tau2 is started.
Decided ==
    /\ launcher \in Launchers \cup {"smoke"} /\ args \in Args
    /\ launcher = "smoke" => pc # "decide" /\ pc # "wait"
    /\ pc = "wait" => child # "none"
    /\ child # "none" => Permits(launcher, args)
    /\ launcher # "smoke" /\ pc # "decide" /\ Permits(launcher, args) => child # "none"

\* After its start the process does not vanish.
LEMMA ChildStays ==
    ASSUME ChildStep
    PROVE  child # "none" /\ child' # "none" /\ UNCHANGED <<launcher, args, pc>>
<1>1. ASSUME NEW t \in Threads, Simulation(t)
      PROVE  child # "none" /\ child' # "none" /\ UNCHANGED <<launcher, args, pc>>
  BY <1>1 DEF Simulation, Dispatch, ReadCount, StoreCount, WriteLine, LineFails, Respond,
              UseTool, InStep, EndCall, command, process
<1>2. CASE Tau2Ends
  BY <1>2 DEF Tau2Ends, command
<1>3. CASE CloseStep
  <2>1. child' # "none"
    BY <1>3, Zenon DEF CloseStep, After, ClosingSteps
  <2> QED BY <1>3, <2>1 DEF CloseStep, ClosingSteps, command
<1>4. CASE CloseFails
  BY <1>4 DEF CloseFails, ClosingSteps, command
<1>5. CASE KillChild
  BY <1>5 DEF KillChild, Killed, ClosingSteps
<1> QED BY <1>1, <1>2, <1>3, <1>4, <1>5 DEF ChildStep

\* "It refuses to run tau2 unless all of the following are true"
\* (docs/tau2_model_baseline.md), for every launcher and every combination of
\* arguments, and whatever tau2 and the observer do.
THEOREM RunsOnlyAsAllowed == Spec => []RunsAsAllowed
<1>1. Init => Decided
  <2> SUFFICES ASSUME Init PROVE Decided
    OBVIOUS
  <2>1. GoodArgs \in Args
    BY DEF GoodArgs, Args
  <2> QED BY <2>1 DEF Init, Decided, Launchers
<1>2. Decided /\ [Next]_vars => Decided'
  <2> SUFFICES ASSUME Decided, [Next]_vars PROVE Decided'
    OBVIOUS
  <2>1. CASE Launch
    <3>1. launcher \in Launchers /\ args \in Args
      BY <2>1 DEF Launch, Decided
    <3>2. Decide(launcher, args) = "ready" <=> Permits(launcher, args)
      BY <3>1, ReadyIffPermitted
    <3> HIDE DEF Decided
    <3>3. UNCHANGED <<launcher, args>>
      BY <2>1 DEF Launch, Goto
    <3>4. CASE Permits(launcher, args)
      <4>1. child' = "running" /\ pc' = "wait"
        BY <2>1, <3>2, <3>4 DEF Launch, Goto
      <4> QED BY <3>1, <3>3, <3>4, <4>1 DEF Decided, Permits, Launchers
    <3>5. CASE ~Permits(launcher, args)
      <4>1. child' = child /\ pc' = "reconsider"
        BY <2>1, <3>2, <3>5 DEF Launch, Goto
      <4> QED BY <3>1, <3>3, <3>5, <4>1 DEF Decided, Permits, Launchers
    <3> QED BY <3>4, <3>5
  <2>2. CASE Reconsider \/ Refuse \/ Completed \/ Update \/ WriteSummary \/ PrintStatus
    <3>1. UNCHANGED <<launcher, args, child>> /\ pc # "decide"
      BY <2>2 DEF Reconsider, Refuse, Completed, Update, WriteSummary, PrintStatus, Goto, process
    <3>2. pc' \in {"refuse", "summary", "update", "ended", "print"}
      BY <2>2 DEF Reconsider, Refuse, Completed, Update, WriteSummary, PrintStatus, Goto
    <3> QED BY <3>1, <3>2 DEF Decided, Permits
  <2>3. CASE Timeout
    <3>1. UNCHANGED <<launcher, args>> /\ pc = "wait" /\ pc' = "ended" /\ child' = "killed"
      BY <2>3 DEF Timeout, Killed
    <3> QED BY <3>1 DEF Decided, Permits
  <2>4. CASE Observe \/ ObserveFails \/ Validate \/ CloseSmoke \/ WriteSmokeFinal
               \/ WriteSmokeSummary \/ SmokeFails
    <3>1. UNCHANGED <<launcher, args, child>> /\ pc # "decide"
      BY <2>4 DEF Observe, ObserveFails, Validate, CloseSmoke, WriteSmokeFinal,
                  WriteSmokeSummary, SmokeFails, Goto, process
    <3>2. pc' \in {"observe", "close", "final", "summary", "print", "ended"}
      BY <2>4 DEF Observe, ObserveFails, Validate, CloseSmoke, WriteSmokeFinal,
                  WriteSmokeSummary, SmokeFails, Goto
    <3> QED BY <3>1, <3>2 DEF Decided, Permits
  <2>5. CASE ChildStep
    <3> QED BY <2>5, ChildStays DEF Decided, Permits
  <2>6. CASE UNCHANGED vars
    BY <2>6 DEF vars, command, process, Decided, Permits
  <2> QED BY <2>1, <2>2, <2>3, <2>4, <2>5, <2>6 DEF Next, LauncherStep, Terminating
<1>3. Decided => RunsAsAllowed
  BY DEF Decided, RunsAsAllowed, Allowed, Permits
<1> QED BY <1>1, <1>2, <1>3, PTL DEF Spec

-----------------------------------------------------------------------------
(* What an interrupted observer leaves.                                    *)

\* The kinds of the lines of a row that come before its line of this kind.
Before(kind) ==
    IF kind = "snapshot" THEN {"ledger"}
    ELSE IF kind = "candidate" THEN {"ledger", "snapshot"}
    ELSE IF kind = "diff" THEN {"ledger", "snapshot", "candidate"}
    ELSE IF kind = "diff event" THEN {"ledger", "snapshot", "candidate", "diff"} ELSE {}

\* What must be on disk when a line is written or left in a buffer.
Preceded(line, lines) == \A kind \in Before(line[1]) : <<kind, line[2]>> \in lines

\* What a dispatch needs on disk for the step it is at.
Ready(d, lines) ==
    d.at \in DOMAIN Steps =>
        \A kind \in Before(Steps[d.at]) : <<kind, <<d.call, d.level>>>> \in lines

IsDispatch(d) ==
    /\ d = [call |-> d.call, level |-> d.level, at |-> d.at, seen |-> d.seen]
    /\ d.at \in 0 .. Over

Dispatches(f) == f = [t \in Threads |-> f[t]] /\ \A t \in Threads : IsDispatch(f[t])

\* The inductive invariant: every line, those in the buffers included, comes after
\* what it refers to, and so will the next line of each dispatch.
RowsOrdered ==
    /\ Dispatches(dispatch)
    /\ \A line \in disk \cup buffer : Preceded(line, disk)
    /\ \A t \in Threads : Ready(dispatch[t], disk)

\* The nine steps of one observation, one by one.
LEMMA StepsFacts ==
    /\ DOMAIN Steps = 1 .. 9
    /\ Steps[1] = "read" /\ Steps[2] = "store" /\ Steps[3] = "read" /\ Steps[4] = "store"
    /\ Steps[5] = "ledger" /\ Steps[6] = "snapshot" /\ Steps[7] = "candidate"
    /\ Steps[8] = "diff" /\ Steps[9] = "diff event"
BY DEF Steps

\* What a line of each kind refers to.
LEMMA BeforeFacts ==
    /\ Before("read") = {} /\ Before("store") = {} /\ Before("ledger") = {}
    /\ Before("score") = {}
    /\ Before("snapshot") = {"ledger"} /\ Before("candidate") = {"ledger", "snapshot"}
    /\ Before("diff") = {"ledger", "snapshot", "candidate"}
    /\ Before("diff event") = {"ledger", "snapshot", "candidate", "diff"}
BY DEF Before

\* A step of the observer brings the next one what it needs.
LEMMA NextIsPreceded ==
    ASSUME NEW i \in 1 .. 8
    PROVE  Before(Steps[i + 1]) \subseteq Before(Steps[i]) \cup {Steps[i]}
<1>1. CASE i \in 1 .. 4
  <2>1. i + 1 \in {2, 3, 4, 5}
    BY <1>1
  <2>2. Before(Steps[i + 1]) = {}
    BY <2>1, StepsFacts, BeforeFacts
  <2> QED BY <2>2
<1>2. CASE i = 5
  <2>1. i + 1 = 6
    BY <1>2
  <2>2. Steps[i] = "ledger" /\ Steps[i + 1] = "snapshot"
    BY <1>2, <2>1, StepsFacts
  <2> QED BY <2>2, BeforeFacts
<1>3. CASE i = 6
  <2>1. i + 1 = 7
    BY <1>3
  <2>2. Steps[i] = "snapshot" /\ Steps[i + 1] = "candidate"
    BY <1>3, <2>1, StepsFacts
  <2> QED BY <2>2, BeforeFacts
<1>4. CASE i = 7
  <2>1. i + 1 = 8
    BY <1>4
  <2>2. Steps[i] = "candidate" /\ Steps[i + 1] = "diff"
    BY <1>4, <2>1, StepsFacts
  <2> QED BY <2>2, BeforeFacts
<1>5. CASE i = 8
  <2>1. i + 1 = 9
    BY <1>5
  <2>2. Steps[i] = "diff" /\ Steps[i + 1] = "diff event"
    BY <1>5, <2>1, StepsFacts
  <2> QED BY <2>2, BeforeFacts
<1> QED BY <1>1, <1>2, <1>3, <1>4, <1>5

\* Files only grow, so what is preceded stays so.
LEMMA MoreLines ==
    ASSUME NEW line, NEW S, NEW T, S \subseteq T, Preceded(line, S)
    PROVE  Preceded(line, T)
BY DEF Preceded

\* The lines of an item of the smoke are in the same order.
Five(kinds) ==
    /\ kinds[1] = "ledger" /\ kinds[2] = "snapshot" /\ kinds[3] = "candidate"
    /\ kinds[4] = "diff" /\ kinds[5] = "diff event"

\* The five lines of an observation come after what they refer to.
LEMMA FiveOrdered ==
    ASSUME NEW kinds, Five(kinds), NEW k \in 1 .. 5, NEW kind, kind = kinds[k],
           NEW b \in Before(kind)
    PROVE  \E j \in 1 .. k - 1 : kinds[j] = b
<1>1. CASE k = 1
  <2>1. kind = "ledger"
    BY <1>1 DEF Five
  <2> QED BY <2>1, BeforeFacts
<1>2. CASE k = 2
  <2>1. kind = "snapshot"
    BY <1>2 DEF Five
  <2>2. b \in {"ledger"}
    BY <2>1, BeforeFacts
  <2>3. \A j \in {1} : j \in 1 .. 1
    OBVIOUS
  <2>4. k - 1 = 1
    BY <1>2
  <2> QED BY <2>2, <2>3, <2>4 DEF Five
<1>3. CASE k = 3
  <2>1. kind = "candidate"
    BY <1>3 DEF Five
  <2>2. b \in {"ledger", "snapshot"}
    BY <2>1, BeforeFacts
  <2>3. \A j \in {1, 2} : j \in 1 .. 2
    OBVIOUS
  <2>4. k - 1 = 2
    BY <1>3
  <2> QED BY <2>2, <2>3, <2>4 DEF Five
<1>4. CASE k = 4
  <2>1. kind = "diff"
    BY <1>4 DEF Five
  <2>2. b \in {"ledger", "snapshot", "candidate"}
    BY <2>1, BeforeFacts
  <2>3. \A j \in {1, 2, 3} : j \in 1 .. 3
    OBVIOUS
  <2>4. k - 1 = 3
    BY <1>4
  <2> QED BY <2>2, <2>3, <2>4 DEF Five
<1>5. CASE k = 5
  <2>1. kind = "diff event"
    BY <1>5 DEF Five
  <2>2. b \in {"ledger", "snapshot", "candidate", "diff"}
    BY <2>1, BeforeFacts
  <2>3. \A j \in {1, 2, 3, 4} : j \in 1 .. 4
    OBVIOUS
  <2>4. k - 1 = 4
    BY <1>5
  <2> QED BY <2>2, <2>3, <2>4 DEF Five
<1>6. k = 1 \/ k = 2 \/ k = 3 \/ k = 4 \/ k = 5
  OBVIOUS
<1> QED BY <1>1, <1>2, <1>3, <1>4, <1>5, <1>6, Zenon

\* The same for the lines of every case.
LEMMA KindsOrdered ==
    ASSUME NEW i, NEW k \in 1 .. Len(KindsOf(i)), NEW b \in Before(KindsOf(i)[k])
    PROVE  \E j \in 1 .. k - 1 : KindsOf(i)[j] = b
<1>1. CASE KindsOf(i) = <<"ledger", "snapshot", "candidate", "diff", "diff event">>
  <2> DEFINE kinds == <<"ledger", "snapshot", "candidate", "diff", "diff event">>
  <2>1. Len(kinds) = 5 /\ Five(kinds)
    BY DEF Five
  <2>2. KindsOf(i) = kinds
    BY <1>1
  <2> HIDE DEF kinds
  <2>3. k \in 1 .. 5
    BY <2>1, <2>2
  <2>4. PICK kind : kind = kinds[k]
    OBVIOUS
  <2>5. b \in Before(kind)
    BY <2>2, <2>4
  <2>6. Five(kinds)
    BY <2>1
  <2>7. \E j \in 1 .. k - 1 : kinds[j] = b
    BY <2>3, <2>4, <2>5, <2>6, FiveOrdered
  <2> QED BY <2>2, <2>7
<1>2. CASE KindsOf(i) = <<"ledger", "snapshot", "score">>
  <2> DEFINE kinds == <<"ledger", "snapshot", "score">>
  <2>1. /\ Len(kinds) = 3
        /\ kinds[1] = "ledger" /\ kinds[2] = "snapshot" /\ kinds[3] = "score"
    OBVIOUS
  <2>2. KindsOf(i) = kinds
    BY <1>2
  <2> HIDE DEF kinds
  <2>3. k \in 1 .. 3 /\ b \in Before(kinds[k])
    BY <2>1, <2>2
  <2>4. k # 1 /\ k # 3
    BY <2>1, <2>3, BeforeFacts
  <2>5. k = 2
    BY <2>3, <2>4
  <2>6. b \in Before("snapshot")
    BY <2>1, <2>3, <2>5
  <2>7. b = kinds[1]
    BY <2>1, <2>6, BeforeFacts
  <2>8. 1 \in 1 .. k - 1
    BY <2>5
  <2> QED BY <2>2, <2>7, <2>8
<1>3. CASE KindsOf(i) = <<"ledger", "snapshot", "candidate", "diff", "diff event", "score">>
  <2> DEFINE kinds == <<"ledger", "snapshot", "candidate", "diff", "diff event", "score">>
  <2>1. Len(kinds) = 6 /\ Five(kinds) /\ kinds[6] = "score"
    BY DEF Five
  <2>2. KindsOf(i) = kinds
    BY <1>3
  <2> HIDE DEF kinds
  <2>3. k \in 1 .. 6 /\ b \in Before(kinds[k])
    BY <2>1, <2>2
  <2>4. k # 6
    BY <2>1, <2>3, BeforeFacts
  <2>5. k \in 1 .. 5
    BY <2>3, <2>4
  <2> QED BY <2>1, <2>2, <2>3, <2>5, FiveOrdered
<1> QED BY <1>1, <1>2, <1>3 DEF KindsOf

\* What an action has to leave behind for RowsOrdered.
LEMMA OrderedAgain ==
    ASSUME RowsOrdered, UNCHANGED args, Dispatches(dispatch'),
           disk \subseteq disk',
           \A line \in disk' \cup buffer' : line \in disk \cup buffer \/ Preceded(line, disk'),
           \A t \in Threads : dispatch'[t] = dispatch[t] \/ Ready(dispatch'[t], disk')
    PROVE  RowsOrdered'
<1>1. Threads' = Threads
  BY DEF Threads
<1>2. \A line \in disk' \cup buffer' : Preceded(line, disk')
  BY DEF RowsOrdered, Preceded
<1>3. \A t \in Threads : Ready(dispatch'[t], disk')
  BY DEF RowsOrdered, Ready
<1>4. Dispatches(dispatch)'
  BY <1>1 DEF Dispatches, IsDispatch
<1> QED BY <1>1, <1>2, <1>3, <1>4 DEF RowsOrdered, Preceded, Ready, Steps

\* A dispatch that starts, or is over, or counts a warning needs nothing.
LEMMA StartIsReady ==
    ASSUME NEW d, d.at \in 0 .. 5 \/ d.at = Over, NEW S
    PROVE  Ready(d, S)
<1>1. CASE d.at \in {0, Over}
  <2>1. d.at \notin 1 .. 9
    BY <1>1 DEF Over
  <2> QED BY <2>1, StepsFacts DEF Ready
<1>2. CASE d.at \in 1 .. 5
  <2>1. d.at = 1 \/ d.at = 2 \/ d.at = 3 \/ d.at = 4 \/ d.at = 5
    BY <1>2
  <2>2. Steps[d.at] \in {"read", "store", "ledger"}
    BY <2>1, StepsFacts
  <2>3. Before(Steps[d.at]) = {}
    BY <2>2, BeforeFacts
  <2> QED BY <2>3 DEF Ready
<1>3. d.at \in {0, Over} \/ d.at \in 1 .. 5
  OBVIOUS
<1> QED BY <1>1, <1>2, <1>3

\* A dispatch with some fields changed is one.
LEMMA FieldsMakeDispatch ==
    ASSUME NEW f, f.at \in 0 .. Over, f = [i \in {"call", "level", "at", "seen"} |-> f[i]]
    PROVE  IsDispatch(f)
<1>1. f = [call |-> f.call, level |-> f.level, at |-> f.at, seen |-> f.seen]
  OBVIOUS
<1> QED BY <1>1 DEF IsDispatch

\* Moving a dispatch on and noting what it read leaves it a dispatch.
LEMMA ReadMakesDispatch ==
    ASSUME NEW d, IsDispatch(d), NEW a \in 0 .. Over, NEW s
    PROVE  LET f == [d EXCEPT !.at = a, !.seen = s] IN IsDispatch(f) /\ f.at = a
<1> DEFINE f == [d EXCEPT !.at = a, !.seen = s]
<1>1. DOMAIN d = {"call", "level", "at", "seen"}
  BY DEF IsDispatch
<1>2. f = [i \in {"call", "level", "at", "seen"} |-> f[i]] /\ f.at = a
  BY <1>1
<1> HIDE DEF f
<1>3. IsDispatch(f) /\ f.at = a
  BY <1>2, FieldsMakeDispatch
<1> QED BY <1>3 DEF f

\* Where the warnings are counted.
LEMMA CountingSteps ==
    ASSUME NEW i \in 1 .. 9, Steps[i] \in {"read", "store"}
    PROVE  i \in 1 .. 4
<1>1. i \in 1 .. 4 \/ i = 5 \/ i = 6 \/ i = 7 \/ i = 8 \/ i = 9
  OBVIOUS
<1>2. i # 5 /\ i # 6 /\ i # 7 /\ i # 8 /\ i # 9
  BY StepsFacts
<1> QED BY <1>1, <1>2

\* The line a dispatch has come to is preceded by what it needs.
LEMMA LineIsPreceded ==
    ASSUME NEW d, NEW S, Ready(d, S), d.at \in DOMAIN Steps
    PROVE  Preceded(<<Steps[d.at], <<d.call, d.level>>>>, S)
<1> DEFINE row == <<d.call, d.level>>
           kind == Steps[d.at]
<1>1. \A k \in Before(kind) : <<k, row>> \in S
  BY DEF Ready
<1> HIDE DEF row, kind
<1>2. <<kind, row>>[1] = kind /\ <<kind, row>>[2] = row
  OBVIOUS
<1>3. Preceded(<<kind, row>>, S)
  BY <1>1, <1>2 DEF Preceded
<1> QED BY <1>3 DEF row, kind

\* A dispatch whose line was written is ready for the next.
LEMMA NextIsReady ==
    ASSUME NEW d, IsDispatch(d), NEW e, NEW S, NEW T,
           d.at \in DOMAIN Steps, Ready(d, S), S \subseteq T,
           e.call = d.call, e.level = d.level, e.at = d.at + 1,
           <<Steps[d.at], <<d.call, d.level>>>> \in T
    PROVE  Ready(e, T)
<1> SUFFICES ASSUME e.at \in DOMAIN Steps, NEW kind \in Before(Steps[e.at])
             PROVE  <<kind, <<e.call, e.level>>>> \in T
  BY DEF Ready
<1>1. d.at \in 1 .. 8
  <2>1. d.at \in 1 .. 9 /\ d.at + 1 \in 1 .. 9
    BY StepsFacts
  <2> QED BY <2>1
<1>2. Before(Steps[d.at + 1]) \subseteq Before(Steps[d.at]) \cup {Steps[d.at]}
  BY <1>1, NextIsPreceded
<1>3. kind \in Before(Steps[d.at]) \cup {Steps[d.at]}
  BY <1>2
<1>4. CASE kind \in Before(Steps[d.at])
  BY <1>4 DEF Ready
<1>5. CASE kind = Steps[d.at]
  BY <1>5
<1> QED BY <1>3, <1>4, <1>5

\* The order is kept by every step.
LEMMA AlwaysOrdered == Spec => []RowsOrdered
<1>1. Init => RowsOrdered
  <2> SUFFICES ASSUME Init PROVE RowsOrdered
    OBVIOUS
  <2>1. IsDispatch(Idle) /\ Idle.at = 0
    BY DEF Idle, IsDispatch, Over
  <2>2. Dispatches(dispatch) /\ \A t \in Threads : dispatch[t].at = 0
    BY <2>1 DEF Init, Dispatches
  <2>3. disk \cup buffer = {} /\ 0 \notin 1 .. 9
    BY DEF Init
  <2> QED BY <2>2, <2>3, StepsFacts DEF RowsOrdered, Ready
<1>2. RowsOrdered /\ [Next]_vars => RowsOrdered'
  <2> SUFFICES ASSUME RowsOrdered, [Next]_vars PROVE RowsOrdered'
    OBVIOUS
  <2>1. Dispatches(dispatch)
    BY DEF RowsOrdered
  <2>2. \A t \in Threads : Ready(dispatch[t], disk)
    BY DEF RowsOrdered
  <2>3. IsDispatch(Idle) /\ \A S : Ready(Idle, S)
    BY StartIsReady DEF Idle, IsDispatch, Over
  \* The tau2 process.
  <2>4. ASSUME NEW t \in Threads, Simulation(t) PROVE RowsOrdered'
    <3> DEFINE d == dispatch[t]
    <3>1. IsDispatch(d) /\ Ready(d, disk)
      BY <2>1, <2>2 DEF Dispatches
    <3>2. ASSUME NEW e, IsDispatch(e), dispatch' = [dispatch EXCEPT ![t] = e],
                 UNCHANGED args, disk \subseteq disk', Ready(e, disk'),
                 \A line \in disk' \cup buffer' :
                    line \in disk \cup buffer \/ Preceded(line, disk')
          PROVE  RowsOrdered'
      <4>1. Dispatches(dispatch')
        BY <2>1, <3>2 DEF Dispatches
      <4>2. \A u \in Threads : dispatch'[u] = dispatch[u] \/ Ready(dispatch'[u], disk')
        BY <2>1, <3>2 DEF Dispatches
      <4> QED BY <3>2, <4>1, <4>2, OrderedAgain
    <3>3. CASE Dispatch(t)
      <4>1. PICK hinted \in BOOLEAN, path \in {"response", "direct"} :
              dispatch' = [dispatch EXCEPT ![t] =
                [call |-> Len(calls) + 1, at |-> StartAt(hinted), seen |-> 0,
                 level |-> IF path = "response" THEN "environment" ELSE "toolkit"]]
        BY <3>3 DEF Dispatch
      <4> DEFINE e == [call |-> Len(calls) + 1, at |-> StartAt(hinted), seen |-> 0,
                       level |-> IF path = "response" THEN "environment" ELSE "toolkit"]
      <4>2. IsDispatch(e) /\ (e.at = 1 \/ e.at = Over)
        BY DEF IsDispatch, StartAt, Over
      <4>3. dispatch' = [dispatch EXCEPT ![t] = e] /\ UNCHANGED <<args, disk, buffer>>
        BY <3>3, <4>1 DEF Dispatch, command, observer
      <4> HIDE DEF e
      <4>4. Ready(e, disk')
        BY <4>2, StartIsReady
      <4> QED BY <3>2, <4>2, <4>3, <4>4
    <3>4. CASE ReadCount(t)
      <4> DEFINE e == [d EXCEPT !.at = @ + 1, !.seen = warning_counts]
      <4>1. d.at \in 1 .. 9 /\ Steps[d.at] = "read"
        BY <3>4, StepsFacts DEF ReadCount, InStep
      <4>2. d.at \in 1 .. 4
        BY <4>1, CountingSteps
      <4>3. IsDispatch(e) /\ e.at = d.at + 1
        <5>1. d.at + 1 \in 0 .. Over
          BY <4>1 DEF Over
        <5> QED BY <3>1, <5>1, ReadMakesDispatch
      <4>4. dispatch' = [dispatch EXCEPT ![t] = e] /\ UNCHANGED <<args, disk, buffer>>
        BY <3>4 DEF ReadCount, command, observer
      <4>5. e.at \in 0 .. 5
        BY <4>2, <4>3
      <4> HIDE DEF e
      <4>6. Ready(e, disk')
        BY <4>5, StartIsReady
      <4> QED BY <3>2, <4>3, <4>4, <4>6
    <3>5. CASE StoreCount(t)
      <4> DEFINE e == [d EXCEPT !.at = @ + 1]
      <4>1. d.at \in 1 .. 9 /\ Steps[d.at] = "store"
        BY <3>5, StepsFacts DEF StoreCount, InStep
      <4>2. d.at \in 1 .. 4
        BY <4>1, CountingSteps
      <4>3. IsDispatch(e) /\ e.at = d.at + 1
        BY <3>1, <4>1 DEF IsDispatch, Over
      <4>4. dispatch' = [dispatch EXCEPT ![t] = e] /\ UNCHANGED <<args, disk, buffer>>
        BY <3>5 DEF StoreCount, command
      <4>5. e.at \in 0 .. 5
        BY <4>2, <4>3
      <4> HIDE DEF e
      <4>6. Ready(e, disk')
        BY <4>5, StartIsReady
      <4> QED BY <3>2, <4>3, <4>4, <4>6
    <3>6. CASE WriteLine(t)
      <4> DEFINE e == [d EXCEPT !.at = @ + 1]
      <4>1. d.at \in 1 .. 9
        BY <3>6, StepsFacts DEF WriteLine, InStep
      <4>2. IsDispatch(e) /\ e.at = d.at + 1 /\ e.call = d.call /\ e.level = d.level
        BY <3>1, <4>1 DEF IsDispatch, Over
      <4>3. /\ dispatch' = [dispatch EXCEPT ![t] = e] /\ UNCHANGED args
            /\ disk' = disk \cup HeldWith(Line(t)[1]) \cup {Line(t)}
            /\ buffer' = buffer \ HeldWith(Line(t)[1])
        BY <3>6 DEF WriteLine, command
      <4>4. HeldWith(Line(t)[1]) \subseteq buffer
        BY DEF HeldWith
      <4>5. Line(t) = <<Steps[d.at], <<d.call, d.level>>>>
        BY DEF Line
      <4> HIDE DEF e, d
      <4>6. Ready(e, disk')
        <5>1. d.at \in DOMAIN Steps /\ disk \subseteq disk'
          BY <4>1, <4>3, StepsFacts
        <5>2. <<Steps[d.at], <<d.call, d.level>>>> \in disk'
          BY <4>3, <4>5
        <5> QED BY <3>1, <4>2, <5>1, <5>2, NextIsReady
      <4>7. Preceded(Line(t), disk')
        <5>1. Preceded(Line(t), disk)
          BY <3>1, <4>1, <4>5, StepsFacts, LineIsPreceded
        <5> QED BY <4>3, <5>1, MoreLines
      <4> QED BY <3>2, <4>2, <4>3, <4>4, <4>6, <4>7
    <3>7. CASE LineFails(t)
      <4>1. d.at \in 1 .. 9
        BY <3>7, StepsFacts DEF LineFails, InStep
      <4>2. /\ dispatch' = [dispatch EXCEPT ![t] = Idle] /\ UNCHANGED <<args, disk>>
            /\ buffer' = buffer \cup {Line(t)}
        BY <3>7 DEF LineFails, EndCall, command
      <4>3. Line(t) = <<Steps[d.at], <<d.call, d.level>>>>
        BY DEF Line
      <4> HIDE DEF d
      <4>4. Preceded(Line(t), disk)
        BY <3>1, <4>1, <4>3, StepsFacts, LineIsPreceded
      <4> QED BY <2>3, <3>2, <4>2, <4>4
    <3>8. CASE Respond(t)
      <4>1. CASE EndCall(t, "refused")
        <5>1. dispatch' = [dispatch EXCEPT ![t] = Idle] /\ UNCHANGED <<args, disk, buffer>>
          BY <3>8, <4>1 DEF Respond, EndCall, command, observer
        <5> QED BY <2>3, <3>2, <5>1
      <4>2. CASE dispatch' = [dispatch EXCEPT ![t].level = "toolkit", ![t].seen = 0,
                                ![t].at = StartAt(calls[dispatch[t].call].hinted)]
        <5> DEFINE e == [d EXCEPT !.level = "toolkit", !.seen = 0,
                           !.at = StartAt(calls[dispatch[t].call].hinted)]
        <5>1. StartAt(calls[dispatch[t].call].hinted) \in {1, Over}
          BY DEF StartAt
        <5>2. IsDispatch(e) /\ (e.at = 1 \/ e.at = Over)
          <6>1. StartAt(calls[dispatch[t].call].hinted) \in 0 .. Over
            BY <5>1 DEF Over
          <6>2. PICK a \in 0 .. Over : a = StartAt(calls[dispatch[t].call].hinted)
            BY <6>1
          <6>3. e = [d EXCEPT !.level = "toolkit", !.seen = 0, !.at = a]
            BY <6>2, Zenon
          <6> HIDE DEF e, d
          <6>4. DOMAIN d = {"call", "level", "at", "seen"}
            BY <3>1 DEF IsDispatch
          <6>5. e = [i \in {"call", "level", "at", "seen"} |-> e[i]] /\ e.at = a
            BY <6>3, <6>4
          <6>6. IsDispatch(e)
            BY <6>5, FieldsMakeDispatch
          <6> QED BY <5>1, <6>2, <6>5, <6>6
        <5>3. dispatch' = [dispatch EXCEPT ![t] = e] /\ UNCHANGED <<args, disk, buffer>>
          BY <3>8, <4>2 DEF Respond, command, observer
        <5> HIDE DEF e
        <5>4. Ready(e, disk')
          BY <5>2, StartIsReady
        <5> QED BY <3>2, <5>2, <5>3, <5>4
      <4> QED BY <3>8, <4>1, <4>2 DEF Respond
    <3>9. CASE UseTool(t)
      <4>1. dispatch' = [dispatch EXCEPT ![t] = Idle] /\ UNCHANGED <<args, disk, buffer>>
        BY <3>9 DEF UseTool, EndCall, command, observer
      <4> QED BY <2>3, <3>2, <4>1
    <3> QED BY <2>4, <3>3, <3>4, <3>5, <3>6, <3>7, <3>8, <3>9 DEF Simulation
  <2>5. CASE Tau2Ends
    BY <2>5, <2>1, OrderedAgain DEF Tau2Ends, command, observer
  <2>6. CASE CloseStep
    <3>1. UNCHANGED <<args, dispatch>> /\ disk \subseteq disk' /\ buffer' \subseteq buffer
          /\ disk' \subseteq disk \cup buffer
      BY <2>6 DEF CloseStep, command
    <3> QED BY <2>1, <3>1, OrderedAgain
  <2>7. CASE CloseFails
    <3>1. UNCHANGED <<args, dispatch>> /\ disk \subseteq disk' /\ buffer' \subseteq buffer
          /\ disk' \subseteq disk \cup buffer
      BY <2>7 DEF CloseFails, command
    <3> QED BY <2>1, <3>1, OrderedAgain
  <2>8. ASSUME Killed PROVE RowsOrdered'
    <3>1. UNCHANGED <<args, disk>> /\ buffer' = {} /\ dispatch' = [t \in Threads |-> Idle]
      <4>1. DOMAIN dispatch = Threads
        BY <2>1 DEF Dispatches
      <4> QED BY <2>8, <4>1 DEF Killed
    <3>2. Dispatches(dispatch')
          /\ \A t \in Threads : Ready(dispatch'[t], disk')
      BY <2>3, <3>1 DEF Dispatches
    <3> QED BY <3>1, <3>2, OrderedAgain
  <2>9. ChildStep => RowsOrdered'
    BY <2>4, <2>5, <2>6, <2>7, <2>8 DEF ChildStep, KillChild
  \* The smoke.
  <2>10. ASSUME NEW i, NEW n \in 0 .. Len(KindsOf(i)), NEW line \in LinesOf(i, n),
                NEW S, LinesOf(i, n) \subseteq S
         PROVE  Preceded(line, S)
    <3>1. PICK k \in 1 .. n : line = <<KindsOf(i)[k], RowOf(i)>>
      BY <2>10 DEF LinesOf
    <3> SUFFICES ASSUME NEW b \in Before(KindsOf(i)[k]) PROVE <<b, RowOf(i)>> \in S
      BY <3>1 DEF Preceded
    <3>2. PICK j \in 1 .. k - 1 : KindsOf(i)[j] = b
      BY KindsOrdered
    <3>3. j \in 1 .. n
      OBVIOUS
    <3> QED BY <2>10, <3>2, <3>3 DEF LinesOf
  <2>11. CASE Observe
    <3> DEFINE i == items + 1
    <3>1. /\ UNCHANGED <<args, dispatch, buffer>>
          /\ disk' = disk \cup LinesOf(i, Len(KindsOf(i)))
      BY <2>11 DEF Observe, Goto
    <3> HIDE DEF i
    <3>2. Len(KindsOf(i)) \in 0 .. Len(KindsOf(i))
      BY DEF KindsOf
    <3>3. \A line \in LinesOf(i, Len(KindsOf(i))) : Preceded(line, disk')
      BY <2>10, <3>1, <3>2
    <3> QED BY <2>1, <3>1, <3>3, OrderedAgain
  <2>12. CASE ObserveFails
    <3> DEFINE i == items + 1
    <3>1. UNCHANGED <<args, dispatch>>
      BY <2>12 DEF ObserveFails, Goto
    <3>2. PICK k \in 1 .. Len(KindsOf(i)) :
            /\ disk' = disk \cup LinesOf(i, k - 1)
            /\ buffer' = {<<KindsOf(i)[k], RowOf(i)>>}
      BY <2>12 DEF ObserveFails
    <3> HIDE DEF i
    <3>3. k - 1 \in 0 .. Len(KindsOf(i))
      BY DEF KindsOf
    <3>4. \A line \in LinesOf(i, k - 1) : Preceded(line, disk')
      BY <2>10, <3>2, <3>3
    <3>5. ASSUME NEW b \in Before(KindsOf(i)[k]) PROVE <<b, RowOf(i)>> \in disk'
      <4>1. PICK j \in 1 .. k - 1 : KindsOf(i)[j] = b
        BY KindsOrdered, <3>5
      <4> QED BY <3>2, <4>1 DEF LinesOf
    <3>6. Preceded(<<KindsOf(i)[k], RowOf(i)>>, disk')
      BY <3>5 DEF Preceded
    <3> QED BY <2>1, <3>1, <3>2, <3>4, <3>6, OrderedAgain
  <2>13. CASE CloseSmoke
    <3>1. UNCHANGED <<args, dispatch>> /\ disk' = disk \cup buffer /\ buffer' = {}
      BY <2>13 DEF CloseSmoke, Goto
    <3> QED BY <2>1, <3>1, OrderedAgain
  \* Everything else leaves the observer alone.
  <2>14. CASE UNCHANGED <<args, dispatch, disk, buffer>>
    BY <2>1, <2>14, OrderedAgain
  <2>15. Launch \/ Reconsider \/ Refuse \/ Completed \/ Update \/ WriteSummary \/ PrintStatus
           => UNCHANGED <<args, dispatch, disk, buffer>>
    BY DEF Launch, Reconsider, Refuse, Completed, Update, WriteSummary, PrintStatus, Goto,
           Quiet, observer
  <2>16. Validate \/ WriteSmokeFinal \/ WriteSmokeSummary \/ SmokeFails
           => UNCHANGED <<args, dispatch, disk, buffer>>
    BY DEF Validate, WriteSmokeFinal, WriteSmokeSummary, SmokeFails, Goto, Quiet, observer
  <2>17. Timeout => RowsOrdered'
    BY <2>8 DEF Timeout
  <2>18. UNCHANGED vars => UNCHANGED <<args, dispatch, disk, buffer>>
    BY DEF vars, command, observer
  <2> QED BY <2>9, <2>11, <2>12, <2>13, <2>14, <2>15, <2>16, <2>17, <2>18
          DEF Next, LauncherStep, Terminating
<1> QED BY <1>1, <1>2, PTL DEF Spec

\* In the files a diff has its candidate and its ledger and a candidate its ledger,
\* whatever failed and whenever the process was killed.
THEOREM RowsAreComplete == Spec => []RowsComplete
<1>1. RowsOrdered => RowsComplete
  <2> SUFFICES ASSUME RowsOrdered PROVE RowsComplete
    OBVIOUS
  <2>1. ASSUME NEW kind, NEW b \in Before(kind), NEW r \in RowsOnDisk(kind)
        PROVE  r \in RowsOnDisk(b)
    <3>1. PICK line \in disk : line[1] = kind /\ line[2] = r
      BY DEF RowsOnDisk
    <3>2. <<b, r>> \in disk
      BY <3>1, <2>1 DEF RowsOrdered, Preceded
    <3>3. <<b, r>>[1] = b /\ <<b, r>>[2] = r
      OBVIOUS
    <3> QED BY <3>2, <3>3 DEF RowsOnDisk
  <2>2. /\ "diff" \in Before("diff event") /\ "candidate" \in Before("diff")
        /\ {"ledger", "snapshot"} \subseteq Before("candidate")
    BY DEF Before
  <2> QED BY <2>1, <2>2 DEF RowsComplete
<1> QED BY <1>1, AlwaysOrdered, PTL

-----------------------------------------------------------------------------
(* What the observer says of the fixtures of its smoke.                    *)

\* What is said of a call is said of its case.
LEMMA SaidOfCall ==
    ASSUME NEW case, NEW i \in DOMAIN case.calls
    PROVE  /\ CallWarnings(case, case.calls[i]) \subseteq Warnings(case)
           /\ PreWrite(case, case.calls[i]) # {}
                => "requires_future_control_to_block" \in Codes(Warnings(case))
<1>1. case.calls[i] \in Calls(case)
  BY DEF Calls
<1>2. CallWarnings(case, case.calls[i]) \subseteq UNION {CallWarnings(case, c) : c \in Calls(case)}
  BY <1>1
<1>3. CallWarnings(case, case.calls[i]) \subseteq Warnings(case)
  BY <1>2 DEF Warnings
<1>4. ASSUME PreWrite(case, case.calls[i]) # {}
      PROVE  "requires_future_control_to_block" \in Codes(Warnings(case))
  <2> DEFINE w == Warning("requires_future_control_to_block", "requires_future_control",
                          "info", {})
  <2>1. w \in Warnings(case)
    BY <1>1, <1>4 DEF Warnings, When
  <2>2. w.code = "requires_future_control_to_block"
    BY DEF Warning
  <2> HIDE DEF w
  <2> QED BY <2>1, <2>2 DEF Codes
<1> QED BY <1>3, <1>4

\* The codes a call earns before it is made.
LEMMA CodesOfCall ==
    ASSUME NEW case, NEW i \in DOMAIN case.calls
    PROVE  LET call == case.calls[i]
               codes == Codes(Warnings(case))
           IN  /\ MissingEntities(case, call) # {} => "required_entity_missing" \in codes
               /\ \A p \in Mismatches(case, call) : MismatchCode(p) \in codes
               /\ Unsupported(case, call) => "selected_option_unsupported" \in codes
               /\ MissingReads(case) # {} => "write_before_prerequisite_read" \in codes
               /\ MissingEntities(case, call) # {} \/ Mismatches(case, call) # {}
                    => "requires_future_control_to_block" \in codes
<1> DEFINE call == case.calls[i]
           said == CallWarnings(case, call)
<1>1. said \subseteq Warnings(case)
  BY SaidOfCall
<1>2. PreWrite(case, call) \subseteq said
  BY DEF CallWarnings
<1>3. \A c, p, s, a : Warning(c, p, s, a).code = c
  BY DEF Warning
<1>4. ASSUME NEW c, NEW p, NEW s, NEW a, Warning(c, p, s, a) \in said
      PROVE  c \in Codes(Warnings(case))
  <2>1. Warning(c, p, s, a) \in Warnings(case)
    BY <1>1, <1>4
  <2> HIDE DEF said, call
  <2> QED BY <1>3, <2>1 DEF Codes
<1>5. ASSUME MissingEntities(case, call) # {}
      PROVE  Warning("required_entity_missing", "pre_write_detectable", "high",
                     MissingEntities(case, call)) \in PreWrite(case, call)
  BY <1>5 DEF PreWrite, When
<1>6. ASSUME NEW p \in Mismatches(case, call)
      PROVE  \E s : Warning(MismatchCode(p), "pre_write_detectable", s, {p})
                      \in PreWrite(case, call)
  BY DEF PreWrite
<1>7. ASSUME Unsupported(case, call)
      PROVE  Warning("selected_option_unsupported", "pre_write_detectable", "medium",
                     {call.option}) \in PreWrite(case, call)
  BY <1>7 DEF PreWrite, When
<1>8. ASSUME MissingReads(case) # {}
      PROVE  Warning("write_before_prerequisite_read", "runtime_observable", "high",
                     MissingReads(case)) \in said
  BY <1>8 DEF CallWarnings, When
<1>9. MissingEntities(case, call) # {} \/ Mismatches(case, call) # {}
        => "requires_future_control_to_block" \in Codes(Warnings(case))
  BY <1>5, <1>6, SaidOfCall
<1> HIDE DEF said, call
<1>10. /\ MissingEntities(case, call) # {} => "required_entity_missing" \in Codes(Warnings(case))
       /\ Unsupported(case, call) => "selected_option_unsupported" \in Codes(Warnings(case))
       /\ MissingReads(case) # {} => "write_before_prerequisite_read" \in Codes(Warnings(case))
  BY <1>2, <1>4, <1>5, <1>7, <1>8
<1>11. \A p \in Mismatches(case, call) : MismatchCode(p) \in Codes(Warnings(case))
  BY <1>2, <1>4, <1>6
<1> QED BY <1>9, <1>10, <1>11 DEF call

\* The codes a case earns.
LEMMA CodesOfCase ==
    ASSUME NEW case
    PROVE  LET codes == Codes(Warnings(case))
           IN  /\ case.expectedWrite /\ case.calls = <<>> => "no_write_observed" \in codes
               /\ ~case.matches => "post_write_state_mismatch" \in codes
               /\ case.ambiguous => "scoring_evaluation_ambiguity" \in codes
<1>1. \A c, p, s, a : Warning(c, p, s, a).code = c
  BY DEF Warning
<1>2. ASSUME NEW c, NEW p, NEW s, NEW a, Warning(c, p, s, a) \in Warnings(case)
      PROVE  c \in Codes(Warnings(case))
  BY <1>1, <1>2 DEF Codes
<1>3. case.expectedWrite /\ case.calls = <<>> =>
        Warning("no_write_observed", "runtime_observable", "high", {}) \in Warnings(case)
  BY DEF Warnings, When
<1>4. ~case.matches =>
        Warning("post_write_state_mismatch", "post_write_only", "medium", {}) \in Warnings(case)
  BY DEF Warnings, When
<1>5. case.ambiguous =>
        Warning("scoring_evaluation_ambiguity", "post_write_only", "low", {}) \in Warnings(case)
  BY DEF Warnings, When
<1> QED BY <1>2, <1>3, <1>4, <1>5

\* The first fixture gives no cause for a warning.
LEMMA CreateTaskIsClean == Warnings(CreateTask) = {}
<1> DEFINE call == WriteCall({<<"task", "call_user">>}, {},
                   [title |-> "Call user", assignee |-> "assistant"], "assistant")
<1>1. Calls(CreateTask) = {call}
  <2>1. CreateTask.calls = <<call>>
    BY DEF CreateTask
  <2>2. DOMAIN <<call>> = {1} /\ <<call>>[1] = call
    OBVIOUS
  <2> HIDE DEF call
  <2> QED BY <2>1, <2>2 DEF Calls
<1>2. PreWrite(CreateTask, call) = {}
  <2>1. MissingEntities(CreateTask, call) = {}
    BY DEF MissingEntities, ArgumentEntities, CreateTask, WriteCall, Named
  <2>2. Mismatches(CreateTask, call) = {}
    BY DEF Mismatches, GetPath, CreateTask, WriteCall
  <2>3. ~Unsupported(CreateTask, call)
    BY DEF Unsupported, CreateTask, WriteCall
  <2> HIDE DEF call
  <2> QED BY <2>1, <2>2, <2>3 DEF PreWrite, When
<1>3. MissingReads(CreateTask) = {}
  BY DEF MissingReads, CreateTask
<1>4. CreateTask.calls # <<>> /\ CreateTask.matches /\ ~CreateTask.ambiguous
  BY DEF CreateTask
<1> HIDE DEF call
<1> QED BY <1>1, <1>2, <1>3, <1>4 DEF Warnings, CallWarnings, When

\* Without warnings the score is full.
LEMMA ScoreOfNothing == ReadinessScore({}) = 100
<1> DEFINE p(w) == Penalty[w.severity]
<1>1. MapThenSumSet(p, {}) = 0
  BY DEF MapThenSumSet, MapThenFoldSet
<1> QED BY <1>1 DEF ReadinessScore

\* The entity that the second fixture leaves out is missed.
LEMMA KevinIsMissed ==
    /\ Expected(MissingKevin)
    /\ "required_entity_missing" \in Codes(Warnings(MissingKevin))
<1> DEFINE call == WriteCall(Named({"Daniel"}), {},
                   [payment_method |-> "credit_card", total_price |-> "500"],
                   "option_daniel_only")
           codes == Codes(Warnings(MissingKevin))
<1>1. 1 \in DOMAIN MissingKevin.calls /\ MissingKevin.calls[1] = call
  BY DEF MissingKevin
<1>2. MissingEntities(MissingKevin, call) # {}
  <2>1. <<"name", "Kevin">> \in MissingKevin.entities
    BY DEF MissingKevin, Named
  <2>2. <<"name", "Kevin">> \notin ArgumentEntities(call)
    BY DEF ArgumentEntities, WriteCall, Named
  <2> QED BY <2>1, <2>2 DEF MissingEntities
<1>3. {"payment_method", "total_price"} \subseteq Mismatches(MissingKevin, call)
  BY DEF Mismatches, GetPath, MissingKevin, Booking, WriteCall
<1>4. Unsupported(MissingKevin, call)
  BY DEF Unsupported, MissingKevin, WriteCall, None
<1>5. MismatchCode("payment_method") = "payment_mismatch"
      /\ MismatchCode("total_price") = "price_mismatch"
  BY DEF MismatchCode
<1>6. MissingKevin.codes = {"required_entity_missing", "payment_mismatch", "price_mismatch",
                "selected_option_unsupported", "requires_future_control_to_block"}
  BY DEF MissingKevin
<1> HIDE DEF call
<1> QED BY <1>1, <1>2, <1>3, <1>4, <1>5, <1>6, CodesOfCall DEF Expected

\* The wrong payment of the third fixture is seen.
LEMMA WrongPaymentIsSeen ==
    /\ Expected(WrongPayment)
    /\ "payment_mismatch" \in Codes(Warnings(WrongPayment))
<1> DEFINE call == WriteCall(Named({"Kevin", "Daniel"}), {},
                     [payment_method |-> "credit_card", total_price |-> "600"],
                     "option_with_kevin_and_daniel")
<1>1. 1 \in DOMAIN WrongPayment.calls /\ WrongPayment.calls[1] = call
  BY DEF WrongPayment, MissingKevin
<1>2. "payment_method" \in Mismatches(WrongPayment, call)
  BY DEF Mismatches, GetPath, WrongPayment, MissingKevin, Booking, WriteCall
<1>3. MissingReads(WrongPayment) # {}
  BY DEF MissingReads, WrongPayment, MissingKevin, BookingReads
<1>4. MismatchCode("payment_method") = "payment_mismatch"
  BY DEF MismatchCode
<1>5. WrongPayment.codes = {"payment_mismatch", "write_before_prerequisite_read",
                            "requires_future_control_to_block"}
  BY DEF WrongPayment, MissingKevin
<1> HIDE DEF call
<1> QED BY <1>1, <1>2, <1>3, <1>4, <1>5, CodesOfCall DEF Expected

\* The other three fixtures get no warning that validate_results objects to.
LEMMA OthersAsExpected == Expected(CreateTask) /\ Expected(NoWrite) /\ Expected(DbMismatch)
<1>1. CreateTask.codes = {}
  BY DEF CreateTask
<1>2. /\ NoWrite.codes = {"no_write_observed", "post_write_state_mismatch"}
      /\ NoWrite.expectedWrite /\ NoWrite.calls = <<>> /\ ~NoWrite.matches
  BY DEF NoWrite
<1>3. /\ DbMismatch.codes = {"post_write_state_mismatch", "scoring_evaluation_ambiguity"}
      /\ ~DbMismatch.matches /\ DbMismatch.ambiguous
  BY DEF DbMismatch, NoWrite
<1>4. Expected(NoWrite)
  BY <1>2, CodesOfCase DEF Expected
<1>5. Expected(DbMismatch)
  BY <1>3, CodesOfCase DEF Expected
<1> QED BY <1>1, <1>4, <1>5 DEF Expected

\* The fixtures get the warnings validate_results asks for: what is left to go
\* wrong in a smoke is what it wrote.
LEMMA FixturesAnswered ==
    ASSUME NEW L, L # {}, NEW D, D # {}
    PROVE  ResultsValid(5, L, D)
<1>1. Len(FixtureCases) = 5 /\ \A i \in 1 .. 5 : Expected(FixtureCases[i])
  <2>1. /\ Len(FixtureCases) = 5
        /\ FixtureCases[1] = MissingKevin /\ FixtureCases[2] = WrongPayment
        /\ FixtureCases[3] = CreateTask /\ FixtureCases[4] = NoWrite
        /\ FixtureCases[5] = DbMismatch
    BY DEF FixtureCases
  <2> QED BY <2>1, KevinIsMissed, WrongPaymentIsSeen, OthersAsExpected
<1>2. \A i \in {1, 2} : Codes(Warnings(FixtureCases[i])) \cap RelevantToTask8 # {}
  <2>1. FixtureCases[1] = MissingKevin /\ FixtureCases[2] = WrongPayment
    BY DEF FixtureCases
  <2>2. {"required_entity_missing", "payment_mismatch"} \subseteq RelevantToTask8
    BY DEF RelevantToTask8
  <2> QED BY <2>1, <2>2, KevinIsMissed, WrongPaymentIsSeen
<1>3. ReadinessScore(Warnings(CreateTask)) >= 90 /\ Warnings(CreateTask) = {}
  BY CreateTaskIsClean, ScoreOfNothing
<1> QED BY <1>1, <1>2, <1>3 DEF ResultsValid

-----------------------------------------------------------------------------
(* What a command tells about its end.                                     *)

Labels == {"decide", "reconsider", "refuse", "wait", "update", "summary", "print", "ended",
           "observe", "close", "final"}
Finished == {"none", "exited", "killed"}
Summarized == pc = "print" \/ (pc = "ended" /\ files["summary"] \notin {Absent, Partial})

\* Where the command and its process can be at the same time.
Placed ==
    /\ launcher \in Launchers \cup {"smoke"} /\ pc \in Labels
    /\ DOMAIN files = {"final", "summary", "observer"}
    /\ items \in 0 .. Runtime
    /\ launcher = "smoke" =>
         child = "none" /\ pc \in {"observe", "close", "final", "summary", "print", "ended"}
    /\ launcher # "smoke" => pc \notin {"observe", "close", "final"}
    /\ pc \in {"decide", "reconsider", "refuse"} => child = "none"
    /\ pc \in {"update", "summary", "print", "ended"} => child \in Finished
    /\ pc = "update" => child # "none"

\* The summary is written once, with the last status; then comes the exit code.
SummaryHonest ==
    /\ pc \notin {"print", "ended"} => files["summary"] = Absent
    /\ Summarized => files["summary"] = status
    /\ pc = "ended" /\ Summarized => exit = ExitCode(launcher, status)

\* Before its summary a launcher has settled its final state.
FinalSettled ==
    (launcher \in {"model", "traced"} \/ (launcher = "variant" /\ child = "none"))
        /\ (pc = "summary" \/ Summarized) => files["final"] = status

\* What the tau2 process says in its files and by its return code is what it came
\* to, and the launcher's status is that; it goes by the return code.
ProcessHonest ==
    launcher # "smoke" =>
      /\ childStatus \in {"passed", "failed"}
      /\ child \in {"none", "running", "hook map", "observer final"} => files["observer"] = Absent
      /\ ~broken /\ child # "killed" => files["observer"] \in {Absent, childStatus}
      /\ ~broken /\ child \in ClosingSteps \cup {"exited"} => (rc = 0 <=> childStatus = "passed")
      /\ ~broken /\ launcher = "variant" /\ child \in {"summary", "exited"} =>
           files["final"] = childStatus
      /\ ~broken /\ child = "exited" /\ (pc \in {"update", "summary"} \/ Summarized) =>
           status = childStatus
      /\ child \in {"exited", "killed"} /\ (pc \in {"update", "summary"} \/ Summarized) =>
           (status = "passed" <=> rc = 0)

\* A smoke that wrote everything has passed.
SmokeHonest ==
    launcher = "smoke" =>
      /\ pc = "observe" /\ items = Runtime =>
           {<<"ledger", RowOf(Runtime)>>, <<"diff", RowOf(Runtime)>>} \subseteq disk
      /\ ~broken /\ (pc \in {"close", "final", "summary"} \/ Summarized) => status = "passed"
      /\ pc = "summary" \/ Summarized => files["observer"] = status

Honest == Placed /\ SummaryHonest /\ FinalSettled /\ ProcessHonest /\ SmokeHonest

\* The kinds of lines that a runtime dispatch of the smoke leaves.
LEMMA RuntimeLines ==
    /\ Runtime = 6
    /\ {<<"ledger", RowOf(Runtime)>>, <<"diff", RowOf(Runtime)>>}
         \subseteq LinesOf(Runtime, Len(KindsOf(Runtime)))
    /\ RowOf(Runtime)[2] = "runtime"
<1>1. Runtime = 6
  BY DEF Runtime, FixtureCases
<1>2. /\ Len(KindsOf(Runtime)) = 5
      /\ KindsOf(Runtime)[1] = "ledger" /\ KindsOf(Runtime)[4] = "diff"
  BY DEF KindsOf
<1>3. RowOf(Runtime)[2] = "runtime"
  BY DEF RowOf
<1> QED BY <1>1, <1>2, <1>3 DEF LinesOf

\* A step of the tau2 process that leaves its files alone.
LEMMA HonestSimulation ==
    ASSUME Honest, NEW t \in Threads, Simulation(t)
    PROVE  Honest'
<1>1. /\ UNCHANGED <<launcher, pc, status, exit, child, rc, childStatus, files, items>>
      /\ child = "running"
      /\ broken => broken'
  BY DEF Simulation, Dispatch, ReadCount, StoreCount, WriteLine, LineFails, Respond,
         UseTool, InStep, command, process, results
<1>2. launcher # "smoke" /\ pc \notin {"decide", "reconsider", "refuse", "update", "summary",
                                    "print", "ended"}
  BY <1>1 DEF Honest, Placed, Finished
<1>3. Placed'
  BY <1>1 DEF Honest, Placed
<1>4. SummaryHonest' /\ FinalSettled'
  BY <1>1, <1>2 DEF Honest, SummaryHonest, FinalSettled, Summarized
<1>5. ProcessHonest' /\ SmokeHonest'
  BY <1>1, <1>2 DEF Honest, ProcessHonest, SmokeHonest, Summarized, ClosingSteps
<1> QED BY <1>3, <1>4, <1>5 DEF Honest

\* The tau2 process at its end.
LEMMA HonestClosing ==
    ASSUME Honest, Tau2Ends \/ CloseStep \/ CloseFails \/ KillChild
    PROVE  Honest'
<1>1. /\ UNCHANGED <<launcher, pc, status, exit, items>>
      /\ child \notin Finished
      /\ broken => broken'
  <2>1. CASE Tau2Ends
    <3>1. UNCHANGED <<launcher, pc, status, exit, items>> /\ child = "running"
      BY <2>1 DEF Tau2Ends, command
    <3>2. broken' = broken \/ broken' = TRUE
      BY <2>1 DEF Tau2Ends
    <3> QED BY <3>1, <3>2 DEF Finished
  <2>2. CASE CloseStep
    BY <2>2 DEF CloseStep, command, ClosingSteps, Finished
  <2>3. CASE CloseFails
    BY <2>3 DEF CloseFails, command, ClosingSteps, Finished
  <2>4. CASE KillChild
    BY <2>4 DEF KillChild, Killed, ClosingSteps, Finished
  <2> QED BY <2>1, <2>2, <2>3, <2>4
<1>2. launcher # "smoke" /\ pc \notin {"decide", "reconsider", "refuse", "update", "summary",
                                    "print", "ended"}
  BY <1>1 DEF Honest, Placed, Finished
<1>3. DOMAIN files' = DOMAIN files /\ files'["summary"] = files["summary"]
  BY DEF Tau2Ends, CloseStep, CloseFails, KillChild, Killed, FileIn, WritesStatus, Honest, Placed
<1>4. Placed'
  BY <1>1, <1>2, <1>3 DEF Honest, Placed
<1>5. SummaryHonest' /\ FinalSettled' /\ SmokeHonest'
  BY <1>1, <1>2, <1>3 DEF Honest, SummaryHonest, FinalSettled, SmokeHonest, Summarized
<1>6. ProcessHonest'
  <2>1. CASE Tau2Ends
    <3>1. /\ child = "running" /\ files' = files
          /\ childStatus' \in {"passed", "failed"}
          /\ ~broken' => (rc' = 0 <=> childStatus' = "passed")
      <4>1. child = "running" /\ files' = files /\ childStatus' \in {"passed", "failed"}
        BY <2>1 DEF Tau2Ends
      <4>2. \/ childStatus' = "passed" /\ rc' = 0
            \/ childStatus' = "failed" /\ rc' = 1
            \/ broken' = TRUE
        BY <2>1 DEF Tau2Ends
      <4> QED BY <4>1, <4>2
    <3>2. /\ child' \in {"hook map", "exited"}
          /\ launcher = "variant" => child' = "hook map"
      BY <2>1 DEF Tau2Ends
    <3>3. files["observer"] = Absent
      BY <1>2, <3>1 DEF Honest, ProcessHonest
    <3> QED BY <1>1, <1>2, <3>1, <3>2, <3>3 DEF ProcessHonest, Summarized
  <2>2. CASE CloseStep
    <3>1. UNCHANGED <<rc, childStatus, broken>> /\ child \in ClosingSteps
      BY <2>2 DEF CloseStep
    <3>2. CASE child = "hook map"
      <4>1. child' \in {"observer final", "final"} /\ files' = files
        BY <2>2, <3>2 DEF CloseStep, After, WritesStatus
      <4> QED BY <1>1, <1>2, <3>1, <3>2, <4>1 DEF Honest, ProcessHonest, ClosingSteps, Summarized
    <3>3. CASE child = "observer final"
      <4>1. child' = "observer close" /\ files'["observer"] = childStatus
        BY <2>2, <3>3, Zenon DEF CloseStep, After, WritesStatus, FileIn, Honest, Placed
      <4> QED BY <1>1, <1>2, <3>1, <3>3, <4>1 DEF Honest, ProcessHonest, ClosingSteps, Summarized
    <3>4. CASE child = "observer close"
      <4>1. child' = "final" /\ files' = files
        BY <2>2, <3>4, Zenon DEF CloseStep, After, WritesStatus
      <4> QED BY <1>1, <1>2, <3>1, <3>4, <4>1 DEF Honest, ProcessHonest, ClosingSteps, Summarized
    <3>5. CASE child = "final"
      <4>1. child' = "summary" /\ files'["final"] = childStatus
            /\ files'["observer"] = files["observer"]
        BY <2>2, <3>5, Zenon DEF CloseStep, After, WritesStatus, FileIn, Honest, Placed
      <4> QED BY <1>1, <1>2, <3>1, <3>5, <4>1 DEF Honest, ProcessHonest, ClosingSteps, Summarized
    <3>6. CASE child = "summary"
      <4>1. child' = "exited" /\ files' = files
        BY <2>2, <3>6, Zenon DEF CloseStep, After, WritesStatus
      <4> QED BY <1>1, <1>2, <3>1, <3>6, <4>1 DEF Honest, ProcessHonest, ClosingSteps, Summarized
    <3> QED BY <3>1, <3>2, <3>3, <3>4, <3>5, <3>6 DEF ClosingSteps
  <2>3. CASE CloseFails
    BY <1>1, <1>2, <2>3 DEF CloseFails, Honest, ProcessHonest, Summarized
  <2>4. CASE KillChild
    BY <1>1, <1>2, <2>4 DEF KillChild, Killed, Honest, ProcessHonest, ClosingSteps, Summarized
  <2> QED BY <2>1, <2>2, <2>3, <2>4
<1> QED BY <1>4, <1>5, <1>6 DEF Honest

\* The launcher.
LEMMA HonestLauncher ==
    ASSUME Honest,
           Launch \/ Reconsider \/ Refuse \/ Completed \/ Timeout \/ Update \/ WriteSummary
             \/ PrintStatus
    PROVE  Honest'
<1>1. CASE Launch
  <2>1. UNCHANGED <<launcher, rc, childStatus, files, items, broken, exit>> /\ pc = "decide"
    BY <1>1 DEF Launch, Goto, Quiet
  <2>2. \/ child' = "running" /\ pc' = "wait"
        \/ child' = child /\ pc' = "reconsider"
    BY <1>1 DEF Launch, Goto
  <2> QED BY <2>1, <2>2
          DEF Honest, Placed, SummaryHonest, FinalSettled, ProcessHonest, SmokeHonest,
              Summarized, Labels, ClosingSteps
<1>2. CASE Reconsider
  <2>1. UNCHANGED <<launcher, child, rc, childStatus, files, items, broken, exit>>
        /\ pc = "reconsider" /\ pc' = "refuse"
    BY <1>2 DEF Reconsider, Goto, Quiet, process
  <2> QED BY <2>1 DEF Honest, Placed, SummaryHonest, FinalSettled, ProcessHonest, SmokeHonest,
                      Summarized, Labels, ClosingSteps
<1>3. CASE Refuse
  <2>1. UNCHANGED <<launcher, status, child, rc, childStatus, items, broken, exit>>
        /\ pc = "refuse" /\ pc' = "summary" /\ files' = [files EXCEPT !["final"] = status]
    BY <1>3 DEF Refuse, Goto, Quiet, process
  <2> QED BY <2>1 DEF Honest, Placed, SummaryHonest, FinalSettled, ProcessHonest, SmokeHonest,
                      Summarized, Labels, ClosingSteps, Finished
<1>4. CASE Completed
  <2>1. UNCHANGED <<launcher, child, rc, childStatus, files, items, broken, exit>>
        /\ pc = "wait" /\ pc' = "update" /\ child \in {"exited", "killed"}
        /\ status' = IF rc = 0 THEN "passed" ELSE "failed"
    BY <1>4 DEF Completed, Goto, Quiet, process
  <2> QED BY <2>1 DEF Honest, Placed, SummaryHonest, FinalSettled, ProcessHonest, SmokeHonest,
                      Summarized, Labels, ClosingSteps, Finished
<1>5. CASE Timeout
  <2>1. UNCHANGED <<launcher, status, childStatus, items, broken>>
        /\ pc = "wait" /\ pc' = "ended" /\ child' = "killed"
        /\ DOMAIN files' = DOMAIN files /\ files'["summary"] = files["summary"]
    BY <1>5 DEF Timeout, Killed, FileIn, WritesStatus, Honest, Placed
  <2> QED BY <2>1 DEF Honest, Placed, SummaryHonest, FinalSettled, ProcessHonest, SmokeHonest,
                      Summarized, Labels, ClosingSteps, Finished
<1>6. CASE Update
  <2>1. UNCHANGED <<launcher, status, child, rc, childStatus, items, broken>> /\ pc = "update"
    BY <1>6 DEF Update, Goto, Quiet, process
  <2>2. CASE pc' = "ended"
    <3>1. UNCHANGED files
      BY <1>6, <2>2 DEF Update, Goto
    <3> QED BY <2>1, <2>2, <3>1
            DEF Honest, Placed, SummaryHonest, FinalSettled, ProcessHonest, SmokeHonest,
                Summarized, Labels, ClosingSteps, Finished
  <2>3. CASE pc' # "ended"
    <3>1. pc' = "summary" /\ files' = IF launcher = "variant" THEN files
                                      ELSE [files EXCEPT !["final"] = status]
      BY <1>6, <2>3 DEF Update, Goto
    <3> QED BY <2>1, <3>1
            DEF Honest, Placed, SummaryHonest, FinalSettled, ProcessHonest, SmokeHonest,
                Summarized, Labels, ClosingSteps, Finished
  <2> QED BY <2>2, <2>3
<1>7. CASE WriteSummary
  <2>1. UNCHANGED <<launcher, status, child, rc, childStatus, items, broken, exit>>
        /\ pc = "summary" /\ pc' = "print" /\ launcher # "smoke"
        /\ files' = [files EXCEPT !["summary"] = status]
    BY <1>7 DEF WriteSummary, Goto, Quiet, process
  <2> QED BY <2>1 DEF Honest, Placed, SummaryHonest, FinalSettled, ProcessHonest, SmokeHonest,
                      Summarized, Labels, ClosingSteps, Finished
<1>8. CASE PrintStatus
  <2>1. UNCHANGED <<launcher, status, child, rc, childStatus, items, broken, files, disk>>
        /\ pc = "print" /\ pc' = "ended" /\ exit' = ExitCode(launcher, status)
    BY <1>8 DEF PrintStatus, Goto, Quiet, process, observer
  <2> QED BY <2>1 DEF Honest, Placed, SummaryHonest, FinalSettled, ProcessHonest, SmokeHonest,
                      Summarized, Labels, ClosingSteps, Finished
<1> QED BY <1>1, <1>2, <1>3, <1>4, <1>5, <1>6, <1>7, <1>8

\* The smoke.
LEMMA HonestSmoke ==
    ASSUME Honest,
           Observe \/ ObserveFails \/ Validate \/ CloseSmoke \/ WriteSmokeFinal
             \/ WriteSmokeSummary \/ SmokeFails
    PROVE  Honest'
<1>1. launcher = "smoke" /\ UNCHANGED <<launcher, child>>
  BY DEF Observe, ObserveFails, Validate, CloseSmoke, WriteSmokeFinal, WriteSmokeSummary,
         SmokeFails, Goto, process, Honest, Placed
<1> SUFFICES Placed' /\ SummaryHonest' /\ SmokeHonest'
  BY <1>1 DEF Honest, FinalSettled, ProcessHonest, Launchers
<1>2. CASE Observe
  <2>1. UNCHANGED <<launcher, child, status, files, broken, exit>> /\ pc = "observe"
        /\ pc' = "observe" /\ items' = items + 1 /\ items < Runtime
        /\ disk' = disk \cup LinesOf(items', Len(KindsOf(items')))
    BY <1>2 DEF Observe, Goto, process, results
  <2>2. items' = Runtime =>
          {<<"ledger", RowOf(Runtime)>>, <<"diff", RowOf(Runtime)>>} \subseteq disk'
    BY <2>1, RuntimeLines
  <2>3. items' \in 0 .. Runtime
    BY <2>1, RuntimeLines DEF Honest, Placed
  <2> QED BY <1>1, <2>1, <2>2, <2>3
          DEF Honest, Placed, SummaryHonest, SmokeHonest, Summarized
<1>3. CASE ObserveFails
  <2>1. UNCHANGED <<launcher, child, files, items, exit>> /\ pc = "observe"
        /\ pc' = "close" /\ broken'
    BY <1>3 DEF ObserveFails, Goto, process
  <2> QED BY <1>1, <2>1 DEF Honest, Placed, SummaryHonest, SmokeHonest, Summarized, Labels
<1>4. CASE Validate
  <2>1. UNCHANGED <<launcher, child, files, items, exit, broken>> /\ pc = "observe"
        /\ pc' = "close" /\ items = Runtime
        /\ status' = IF ResultsValid(items - 1, {r \in RowsOnDisk("ledger") : r[2] = "runtime"},
                                     {r \in RowsOnDisk("diff") : r[2] = "runtime"})
                       THEN "passed" ELSE "failed"
    BY <1>4 DEF Validate, Goto, process, Quiet
  <2>2. {<<"ledger", RowOf(Runtime)>>, <<"diff", RowOf(Runtime)>>} \subseteq disk
    BY <1>1, <2>1 DEF Honest, SmokeHonest
  <2>3. /\ RowOf(Runtime) \in {r \in RowsOnDisk("ledger") : r[2] = "runtime"}
        /\ RowOf(Runtime) \in {r \in RowsOnDisk("diff") : r[2] = "runtime"}
    <3>1. \A k, r : <<k, r>>[1] = k /\ <<k, r>>[2] = r
      OBVIOUS
    <3> QED BY <2>2, <3>1, RuntimeLines DEF RowsOnDisk
  <2>4. items - 1 = 5
    BY <2>1, RuntimeLines
  <2>5. status' = "passed"
    BY <2>1, <2>3, <2>4, FixturesAnswered
  <2> QED BY <1>1, <2>1, <2>5 DEF Honest, Placed, SummaryHonest, SmokeHonest, Summarized, Labels
<1>5. CASE CloseSmoke
  <2>1. UNCHANGED <<launcher, child, status, files, items, exit, broken>> /\ pc = "close"
        /\ pc' = "final"
    BY <1>5 DEF CloseSmoke, Goto, process, results
  <2> QED BY <1>1, <2>1 DEF Honest, Placed, SummaryHonest, SmokeHonest, Summarized, Labels
<1>6. CASE WriteSmokeFinal
  <2>1. UNCHANGED <<launcher, child, status, items, exit, broken>> /\ pc = "final"
        /\ pc' = "summary" /\ files' = [files EXCEPT !["observer"] = status]
    BY <1>6 DEF WriteSmokeFinal, Goto, process
  <2> QED BY <1>1, <2>1 DEF Honest, Placed, SummaryHonest, SmokeHonest, Summarized, Labels, Finished
<1>7. CASE WriteSmokeSummary
  <2>1. UNCHANGED <<launcher, child, status, items, exit, broken>> /\ pc = "summary"
        /\ pc' = "print" /\ files' = [files EXCEPT !["summary"] = status]
    BY <1>7 DEF WriteSmokeSummary, Goto, process, Quiet
  <2> QED BY <1>1, <2>1 DEF Honest, Placed, SummaryHonest, SmokeHonest, Summarized, Labels, Finished
<1>8. CASE SmokeFails
  <2>1. UNCHANGED <<launcher, child, status, items>> /\ pc \in {"close", "final", "summary"}
        /\ pc' = "ended" /\ broken'
        /\ files' = IF pc = "final" THEN [files EXCEPT !["observer"] = Partial]
                    ELSE IF pc = "summary" THEN [files EXCEPT !["summary"] = Partial] ELSE files
    BY <1>8 DEF SmokeFails, Goto, process
  <2>2. files'["summary"] \in {Absent, Partial} /\ DOMAIN files' = DOMAIN files
    BY <2>1 DEF Honest, Placed, SummaryHonest
  <2> QED BY <1>1, <2>1, <2>2
          DEF Honest, Placed, SummaryHonest, SmokeHonest, Summarized, Labels, Finished
<1> QED BY <1>2, <1>3, <1>4, <1>5, <1>6, <1>7, <1>8

\* This is so in every state.
LEMMA AlwaysHonest == Spec => []Honest
<1>1. Init => Honest
  <2> SUFFICES ASSUME Init PROVE Honest
    OBVIOUS
  <2>1. 0 # Runtime /\ 0 \in 0 .. Runtime
    BY RuntimeLines
  <2>2. Placed
    BY <2>1 DEF Init, Placed, Labels, Finished
  <2>3. SummaryHonest /\ FinalSettled /\ ProcessHonest /\ SmokeHonest
    BY <2>1 DEF Init, SummaryHonest, FinalSettled, ProcessHonest, SmokeHonest, Summarized,
                ClosingSteps
  <2> QED BY <2>2, <2>3 DEF Honest
<1>2. Honest /\ [Next]_vars => Honest'
  <2> SUFFICES ASSUME Honest, [Next]_vars PROVE Honest'
    OBVIOUS
  <2>1. CASE UNCHANGED vars
    BY <2>1 DEF vars, command, process, results, observer, Honest, Placed, SummaryHonest,
                FinalSettled, ProcessHonest, SmokeHonest, Summarized
  <2>2. CASE ChildStep
    BY <2>2, HonestSimulation, HonestClosing DEF ChildStep
  <2>3. CASE LauncherStep
    BY <2>3, HonestLauncher, HonestSmoke DEF LauncherStep
  <2> QED BY <2>1, <2>2, <2>3 DEF Next, Terminating
<1> QED BY <1>1, <1>2, PTL DEF Spec

\* A launcher that wrote its summary has passed exactly if tau2 returned 0, and has
\* the same status in its final state and in what it returns, but that the final
\* state of variant is the word of its tau2 process; that process and its observer
\* say the same unless a write failed or it was killed; and a smoke whose writes
\* succeed passes.
THEOREM EndsAreHonest == Spec => []StatusesAgree
<1>1. Honest => StatusesAgree
  <2> SUFFICES ASSUME Honest, pc = "ended", files["summary"] \notin {Absent, Partial}
               PROVE  /\ files["summary"] = status
                      /\ (launcher \in {"model", "traced"}
                            \/ (launcher = "variant" /\ child = "none")) => files["final"] = status
                      /\ child # "none" => (status = "passed" <=> rc = 0)
                      /\ exit = 0 => status # "failed"
                      /\ status = "passed" => exit = 0
                      /\ (~broken /\ child # "killed") =>
                           /\ launcher # "smoke" => files["final"] = status
                           /\ files["observer"] \in {Absent, status}
                      /\ launcher = "smoke" =>
                           files["observer"] = status /\ (~broken => status = "passed")
    BY DEF StatusesAgree
  <2>1. Summarized
    BY DEF Summarized
  <2>2. files["summary"] = status /\ exit = ExitCode(launcher, status)
    BY <2>1 DEF Honest, SummaryHonest
  <2>3. (exit = 0 => status # "failed") /\ (status = "passed" => exit = 0)
    BY <2>2 DEF ExitCode
  <2>4. child \in Finished /\ launcher \in Launchers \cup {"smoke"}
    BY DEF Honest, Placed
  <2>5. (launcher \in {"model", "traced"} \/ (launcher = "variant" /\ child = "none"))
           => files["final"] = status
    BY <2>1 DEF Honest, FinalSettled
  <2>6. launcher = "smoke" => files["observer"] = status /\ (~broken => status = "passed")
    BY <2>1 DEF Honest, SmokeHonest
  <2>7. ASSUME launcher # "smoke", ~broken, child # "killed"
        PROVE  files["final"] = status /\ files["observer"] \in {Absent, status}
    BY <2>1, <2>4, <2>5, <2>7 DEF Honest, ProcessHonest, Finished, Launchers
  <2>8. child # "none" => (status = "passed" <=> rc = 0)
    BY <2>1, <2>4 DEF Honest, Placed, ProcessHonest, Finished
  <2> QED BY <2>2, <2>3, <2>5, <2>6, <2>7, <2>8
<1> QED BY <1>1, AlwaysHonest, PTL

-----------------------------------------------------------------------------
(* A tool that ran was observed.                                           *)

Wrappers == {"environment", "toolkit"}
CallRecords == [hinted : BOOLEAN, path : {"response", "direct"},
                end : {"open", "lost", "refused", "ran"}]

\* The last line that a wrapper's observation of a call leaves.
Last(c, level) == <<"diff event", <<c, level>>>>

\* A dispatch in progress belongs to an open call, and the wrappers that the call
\* has passed have observed it.
Serves(d, cs, lines) ==
    LET call == cs[d.call]
    IN  /\ d.call \in DOMAIN cs /\ call.end = "open" /\ d.at \in 1 .. Over
        /\ d.level = "environment" => call.path = "response"
        /\ ~call.hinted => d.at = Over
        /\ call.hinted /\ d.at = Over => Last(d.call, d.level) \in lines
        /\ call.hinted /\ call.path = "response" /\ d.level = "toolkit" =>
             Last(d.call, "environment") \in lines

\* A line of a wrapper is about a call that came through it and is to be observed.
IsAbout(line, cs) ==
    line[2][2] \in Wrappers =>
        /\ line[2][1] \in DOMAIN cs /\ cs[line[2][1]].hinted
        /\ line[2][2] = "environment" => cs[line[2][1]].path = "response"

Settled(c, cs, lines, b) ==
    /\ cs[c].end = "lost" => b /\ cs[c].hinted
    /\ cs[c].end = "ran" /\ cs[c].hinted =>
         \A level \in WrappersOf(cs[c].path) : Last(c, level) \in lines

Busy(d) == d.level \in Wrappers

\* The inductive invariant.
Accounted ==
    /\ calls \in Seq(CallRecords)
    /\ \A t \in Threads : Busy(dispatch[t]) \/ dispatch[t] = Idle
    /\ \A t \in Threads : Busy(dispatch[t]) => Serves(dispatch[t], calls, disk)
    /\ \A t, u \in Threads :
         Busy(dispatch[t]) /\ Busy(dispatch[u]) /\ dispatch[t].call = dispatch[u].call => t = u
    /\ \A line \in disk \cup buffer : IsAbout(line, calls)
    /\ \A c \in DOMAIN calls : Settled(c, calls, disk, broken)

\* A thread without a dispatch is not busy.
LEMMA IdleIsNotBusy == ~Busy(Idle)
BY DEF Idle, Busy, Wrappers

\* What was written stays true of a call that others go on with.
LEMMA ServesAgain ==
    ASSUME NEW d, NEW cs, NEW es, NEW S, NEW T, Serves(d, cs, S), S \subseteq T,
           d.call \in DOMAIN es, es[d.call] = cs[d.call]
    PROVE  Serves(d, es, T)
BY DEF Serves

\* What a line is about does not change when more calls are made.
LEMMA AboutAgain ==
    ASSUME NEW line, NEW cs, NEW es, IsAbout(line, cs), DOMAIN cs \subseteq DOMAIN es,
           \A c \in DOMAIN cs : es[c].hinted = cs[c].hinted /\ es[c].path = cs[c].path
    PROVE  IsAbout(line, es)
BY DEF IsAbout

\* A settled call stays settled when rows are added.
LEMMA SettledAgain ==
    ASSUME NEW c, NEW cs, NEW es, NEW S, NEW T, NEW b, NEW q, Settled(c, cs, S, b), S \subseteq T,
           es[c] = cs[c], b => q
    PROVE  Settled(c, es, T, q)
BY DEF Settled

\* What one thread has to leave behind for Accounted, when it goes on with call k.
LEMMA AccountedAgain ==
    ASSUME Accounted, Dispatches(dispatch), UNCHANGED args,
           NEW t \in Threads, NEW e, dispatch' = [dispatch EXCEPT ![t] = e],
           NEW k, Busy(dispatch[t]) => dispatch[t].call = k,
           ~Busy(dispatch[t]) => k \notin DOMAIN calls,
           e = Idle \/ (Busy(e) /\ e.call = k /\ Serves(e, calls', disk')),
           calls' \in Seq(CallRecords), DOMAIN calls \subseteq DOMAIN calls',
           \A c \in DOMAIN calls :
             calls'[c].hinted = calls[c].hinted /\ calls'[c].path = calls[c].path,
           \A c \in DOMAIN calls' : c # k => c \in DOMAIN calls /\ calls'[c] = calls[c],
           k \in DOMAIN calls' => Settled(k, calls', disk', broken'),
           disk \subseteq disk', broken => broken',
           \A line \in disk' \cup buffer' : line \in disk \cup buffer \/ IsAbout(line, calls')
    PROVE  Accounted'
<1>1. Threads' = Threads
  BY DEF Threads
<1>2. dispatch'[t] = e /\ \A u \in Threads : u # t => dispatch'[u] = dispatch[u]
  BY DEF Dispatches
<1>3. \A u \in Threads : u # t /\ Busy(dispatch[u]) =>
        dispatch[u].call # k /\ dispatch[u].call \in DOMAIN calls
  BY DEF Accounted, Serves
<1>4. \A u \in Threads : Busy(dispatch'[u]) \/ dispatch'[u] = Idle
  BY <1>2 DEF Accounted
<1>5. ASSUME NEW u \in Threads, Busy(dispatch'[u])
      PROVE  Serves(dispatch'[u], calls', disk')
  <2>1. CASE u = t
    BY <1>2, <1>5, <2>1, IdleIsNotBusy
  <2>2. CASE u # t
    <3>1. Busy(dispatch[u]) /\ Serves(dispatch[u], calls, disk)
      BY <1>2, <1>5, <2>2 DEF Accounted
    <3>2. dispatch[u].call \in DOMAIN calls' /\ calls'[dispatch[u].call] = calls[dispatch[u].call]
      BY <1>3, <2>2, <3>1
    <3>3. Serves(dispatch[u], calls', disk')
      BY <3>1, <3>2, ServesAgain
    <3> QED BY <1>2, <2>2, <3>3
  <2> QED BY <2>1, <2>2
<1>6. \A u, v \in Threads :
        Busy(dispatch'[u]) /\ Busy(dispatch'[v]) /\ dispatch'[u].call = dispatch'[v].call => u = v
  BY <1>2, <1>3, IdleIsNotBusy DEF Accounted
<1>7. \A line \in disk' \cup buffer' : IsAbout(line, calls')
  BY AboutAgain DEF Accounted
<1>8. \A c \in DOMAIN calls' : Settled(c, calls', disk', broken')
  BY SettledAgain DEF Accounted
<1>9. (\A u \in Threads : Busy(dispatch[u]) \/ dispatch[u] = Idle)'
  BY <1>1, <1>4 DEF Busy, Idle, Wrappers
<1>10. (\A u \in Threads : Busy(dispatch[u]) => Serves(dispatch[u], calls, disk))'
  BY <1>1, <1>5 DEF Busy, Serves, Last, Over, Wrappers
<1>11. (\A u, v \in Threads :
          Busy(dispatch[u]) /\ Busy(dispatch[v]) /\ dispatch[u].call = dispatch[v].call => u = v)'
  BY <1>1, <1>6 DEF Busy, Wrappers
<1>12. (\A line \in disk \cup buffer : IsAbout(line, calls))'
  BY <1>7 DEF IsAbout, Wrappers
<1>13. (\A c \in DOMAIN calls : Settled(c, calls, disk, broken))'
  BY <1>8 DEF Settled, Last, WrappersOf
<1> QED BY <1>9, <1>10, <1>11, <1>12, <1>13 DEF Accounted, CallRecords

\* ... and what everybody else has to leave behind.
LEMMA AccountedWithout ==
    ASSUME Accounted, UNCHANGED <<args, calls>>, disk \subseteq disk', broken => broken',
           \/ UNCHANGED dispatch
           \/ \A t \in Threads : dispatch'[t] = Idle,
           \A line \in disk' \cup buffer' :
             line \in disk \cup buffer \/ line[2][2] \notin Wrappers
    PROVE  Accounted'
<1>1. Threads' = Threads
  BY DEF Threads
<1>2. \A u \in Threads : dispatch'[u] = dispatch[u] \/ dispatch'[u] = Idle
  OBVIOUS
<1>3. \A u \in Threads : Busy(dispatch'[u]) => dispatch'[u] = dispatch[u]
  BY <1>2, IdleIsNotBusy
<1>4. \A u \in Threads : Busy(dispatch'[u]) \/ dispatch'[u] = Idle
  BY <1>2 DEF Accounted
<1>5. \A u \in Threads : Busy(dispatch'[u]) => Serves(dispatch'[u], calls', disk')
  BY <1>3, ServesAgain DEF Accounted, Serves
<1>6. \A u, v \in Threads :
        Busy(dispatch'[u]) /\ Busy(dispatch'[v]) /\ dispatch'[u].call = dispatch'[v].call => u = v
  BY <1>3 DEF Accounted
<1>7. \A line \in disk' \cup buffer' : IsAbout(line, calls')
  BY DEF Accounted, IsAbout
<1>8. \A c \in DOMAIN calls' : Settled(c, calls', disk', broken')
  BY SettledAgain DEF Accounted
<1>9. (\A u \in Threads : Busy(dispatch[u]) \/ dispatch[u] = Idle)'
  BY <1>1, <1>4 DEF Busy, Idle, Wrappers
<1>10. (\A u \in Threads : Busy(dispatch[u]) => Serves(dispatch[u], calls, disk))'
  BY <1>1, <1>5 DEF Busy, Serves, Last, Over, Wrappers
<1>11. (\A u, v \in Threads :
          Busy(dispatch[u]) /\ Busy(dispatch[v]) /\ dispatch[u].call = dispatch[v].call => u = v)'
  BY <1>1, <1>6 DEF Busy, Wrappers
<1>12. (\A line \in disk \cup buffer : IsAbout(line, calls))'
  BY <1>7 DEF IsAbout, Wrappers
<1>13. (\A c \in DOMAIN calls : Settled(c, calls, disk, broken))'
  BY <1>8 DEF Settled, Last, WrappersOf
<1>14. calls' \in Seq(CallRecords)
  BY DEF Accounted
<1> QED BY <1>9, <1>10, <1>11, <1>12, <1>13, <1>14 DEF Accounted, CallRecords

\* A call that ends keeps what it was.
LEMMA CallEnds ==
    ASSUME NEW cs \in Seq(CallRecords), NEW k \in DOMAIN cs,
           NEW end \in {"open", "lost", "refused", "ran"},
           NEW es, es = [cs EXCEPT ![k].end = end]
    PROVE  /\ es \in Seq(CallRecords) /\ DOMAIN es = DOMAIN cs
           /\ es[k].end = end
           /\ \A c \in DOMAIN cs : es[c].hinted = cs[c].hinted /\ es[c].path = cs[c].path
           /\ \A c \in DOMAIN cs : c # k => es[c] = cs[c]
<1> DEFINE e == [cs[k] EXCEPT !.end = end]
<1>1. cs[k] \in CallRecords
  OBVIOUS
<1>2. e \in CallRecords /\ e.end = end /\ e.hinted = cs[k].hinted /\ e.path = cs[k].path
  BY <1>1 DEF CallRecords
<1>3. es = [cs EXCEPT ![k] = e]
  OBVIOUS
<1> HIDE DEF e
<1>4. es \in Seq(CallRecords) /\ DOMAIN es = DOMAIN cs
  BY <1>2, <1>3
<1>5. es[k] = e /\ \A c \in DOMAIN cs : c # k => es[c] = cs[c]
  BY <1>3
<1>6. \A c \in DOMAIN cs : es[c].hinted = cs[c].hinted /\ es[c].path = cs[c].path
  BY <1>2, <1>5
<1> QED BY <1>2, <1>4, <1>5, <1>6

\* A dispatch in progress, seen from its thread.
LEMMA BusyFacts ==
    ASSUME Accounted, Dispatches(dispatch), NEW t \in Threads, dispatch[t].at # 0
    PROVE  /\ Busy(dispatch[t]) /\ IsDispatch(dispatch[t])
           /\ Serves(dispatch[t], calls, disk)
           /\ dispatch[t].call \in DOMAIN calls /\ calls[dispatch[t].call].end = "open"
           /\ dispatch[t].at \in 1 .. Over
<1>1. Idle.at = 0
  BY DEF Idle
<1>2. Busy(dispatch[t])
  BY <1>1 DEF Accounted
<1> QED BY <1>2 DEF Accounted, Serves, Dispatches

\* A dispatch that goes on with its call unchanged.
LEMMA GoesOn ==
    ASSUME Accounted, Dispatches(dispatch), UNCHANGED <<args, calls, broken>>,
           NEW t \in Threads, dispatch[t].at # 0,
           NEW e, dispatch' = [dispatch EXCEPT ![t] = e],
           e.call = dispatch[t].call, Busy(e), Serves(e, calls, disk'),
           disk \subseteq disk',
           \A line \in disk' \cup buffer' : line \in disk \cup buffer \/ IsAbout(line, calls)
    PROVE  Accounted'
<1> DEFINE k == dispatch[t].call
<1>1. Busy(dispatch[t]) /\ k \in DOMAIN calls
  BY BusyFacts
<1>2. Settled(k, calls', disk', broken')
  BY <1>1, SettledAgain DEF Accounted
<1>3. calls' \in Seq(CallRecords)
  BY DEF Accounted
<1>4. Serves(e, calls', disk')
  OBVIOUS
<1> HIDE DEF k
<1>5. /\ Busy(dispatch[t]) => dispatch[t].call = k
      /\ ~Busy(dispatch[t]) => k \notin DOMAIN calls
      /\ e.call = k
  BY <1>1 DEF k
<1>6. /\ DOMAIN calls \subseteq DOMAIN calls'
      /\ \A c \in DOMAIN calls :
           calls'[c].hinted = calls[c].hinted /\ calls'[c].path = calls[c].path
      /\ \A c \in DOMAIN calls' : c # k => c \in DOMAIN calls /\ calls'[c] = calls[c]
      /\ broken => broken'
      /\ \A line \in disk' \cup buffer' : line \in disk \cup buffer \/ IsAbout(line, calls')
  OBVIOUS
<1> QED BY <1>2, <1>3, <1>4, <1>5, <1>6, AccountedAgain

\* A dispatch that ends its call.
LEMMA Finishes ==
    ASSUME Accounted, Dispatches(dispatch), UNCHANGED <<args, disk>>,
           NEW t \in Threads, dispatch[t].at # 0,
           NEW end \in {"lost", "refused", "ran"}, EndCall(t, end), broken => broken',
           end = "lost" => broken' /\ calls[dispatch[t].call].hinted,
           end = "ran" /\ calls[dispatch[t].call].hinted =>
             \A level \in WrappersOf(calls[dispatch[t].call].path) :
                Last(dispatch[t].call, level) \in disk,
           \A line \in disk \cup buffer' : line \in disk \cup buffer \/ IsAbout(line, calls)
    PROVE  Accounted'
<1> DEFINE k == dispatch[t].call
<1>1. Busy(dispatch[t]) /\ k \in DOMAIN calls
  BY BusyFacts
<1>2. calls' = [calls EXCEPT ![k].end = end] /\ dispatch' = [dispatch EXCEPT ![t] = Idle]
  BY DEF EndCall
<1>3. calls \in Seq(CallRecords)
  BY DEF Accounted
<1>4. /\ calls' \in Seq(CallRecords) /\ DOMAIN calls' = DOMAIN calls
      /\ calls'[k].end = end
      /\ \A c \in DOMAIN calls :
           calls'[c].hinted = calls[c].hinted /\ calls'[c].path = calls[c].path
      /\ \A c \in DOMAIN calls : c # k => calls'[c] = calls[c]
  <2>1. k \in DOMAIN calls /\ end \in {"open", "lost", "refused", "ran"}
    BY <1>1
  <2> HIDE DEF k
  <2> QED BY <1>2, <1>3, <2>1, CallEnds
<1>5. Settled(k, calls', disk', broken')
  BY <1>1, <1>4 DEF Settled
<1>6. \A line \in disk' \cup buffer' : line \in disk \cup buffer \/ IsAbout(line, calls')
  BY <1>4, AboutAgain
<1>7. /\ Busy(dispatch[t]) => dispatch[t].call = k
      /\ ~Busy(dispatch[t]) => k \notin DOMAIN calls
  BY <1>1
<1> HIDE DEF k
<1> QED BY <1>2, <1>4, <1>5, <1>6, <1>7, AccountedAgain

\* The line a dispatch has come to is about its call.
LEMMA LineIsAbout ==
    ASSUME NEW d, NEW S, NEW kind, Serves(d, calls, S), Busy(d), d.at # Over
    PROVE  IsAbout(<<kind, <<d.call, d.level>>>>, calls)
<1> DEFINE row == <<d.call, d.level>>
<1>1. row[1] = d.call /\ row[2] = d.level
  OBVIOUS
<1> HIDE DEF row
<1>2. <<kind, row>>[2] = row
  OBVIOUS
<1>3. IsAbout(<<kind, row>>, calls)
  BY <1>1, <1>2 DEF IsAbout, Serves
<1> QED BY <1>3 DEF row

\* A dispatch that has done its step goes on serving its call.
LEMMA ServesNext ==
    ASSUME NEW d, NEW e, NEW S, NEW T, Serves(d, calls, S), d.at \in 1 .. 9,
           e.call = d.call, e.level = d.level, e.at = d.at + 1, S \subseteq T,
           d.at = 9 => Last(d.call, d.level) \in T
    PROVE  Serves(e, calls, T)
<1>1. e.at \in 1 .. Over /\ d.at # Over /\ (e.at = Over => d.at = 9)
  BY DEF Over
<1> QED BY <1>1 DEF Serves

\* The steps of a simulation.
LEMMA AccountedSimulation ==
    ASSUME Accounted, Dispatches(dispatch), NEW t \in Threads, Simulation(t)
    PROVE  Accounted'
<1> DEFINE d == dispatch[t]
<1>0. IsDispatch(d) /\ 0 \notin 1 .. 9 /\ Over # 0 /\ Over \notin 1 .. 9
  BY DEF Dispatches, Over
<1>1. CASE Dispatch(t)
  <2>1. PICK hinted \in BOOLEAN, path \in {"response", "direct"} :
          /\ calls' = Append(calls, [hinted |-> hinted, path |-> path, end |-> "open"])
          /\ dispatch' = [dispatch EXCEPT ![t] =
               [call |-> Len(calls) + 1, at |-> StartAt(hinted), seen |-> 0,
                level |-> IF path = "response" THEN "environment" ELSE "toolkit"]]
    BY <1>1 DEF Dispatch
  <2> DEFINE call == [hinted |-> hinted, path |-> path, end |-> "open"]
             k == Len(calls) + 1
             e == [call |-> k, at |-> StartAt(hinted), seen |-> 0,
                   level |-> IF path = "response" THEN "environment" ELSE "toolkit"]
  <2>2. UNCHANGED <<args, disk, buffer, broken>> /\ d = Idle
    BY <1>1 DEF Dispatch, command, observer, results
  <2>3. call \in CallRecords /\ call.hinted = hinted /\ call.path = path /\ call.end = "open"
    BY DEF CallRecords
  <2>4. /\ e.call = k /\ e.at = StartAt(hinted)
        /\ e.level = IF path = "response" THEN "environment" ELSE "toolkit"
    OBVIOUS
  <2> HIDE DEF call, e
  <2>5. calls \in Seq(CallRecords)
    BY DEF Accounted
  <2>6. /\ calls' \in Seq(CallRecords) /\ DOMAIN calls \subseteq DOMAIN calls'
        /\ k \notin DOMAIN calls /\ k \in DOMAIN calls' /\ calls'[k] = call
        /\ \A c \in DOMAIN calls' : c # k => c \in DOMAIN calls /\ calls'[c] = calls[c]
    BY <2>1, <2>3, <2>5 DEF call
  <2>7. \A c \in DOMAIN calls :
          calls'[c].hinted = calls[c].hinted /\ calls'[c].path = calls[c].path
    BY <2>6
  <2>8. Settled(k, calls', disk', broken')
    BY <2>3, <2>6 DEF Settled
  <2>9. Busy(e) /\ Serves(e, calls', disk')
    <3>1. Busy(e)
      BY <2>4 DEF Busy, Wrappers
    <3>2. e.at \in {1, Over} /\ (~hinted => e.at = Over) /\ (hinted => e.at = 1)
      BY <2>4 DEF StartAt
    <3>3. e.at \in 1 .. Over /\ 1 # Over
      BY <3>2 DEF Over
    <3> HIDE DEF k
    <3>4. e.call = k /\ k \in DOMAIN calls' /\ calls'[e.call] = call
      BY <2>4, <2>6
    <3>5. e.level = "environment" <=> path = "response"
      BY <2>4
    <3>6. /\ calls'[e.call].end = "open" /\ calls'[e.call].hinted = hinted
          /\ calls'[e.call].path = path
      BY <2>3, <3>4
    <3> QED BY <3>1, <3>2, <3>3, <3>4, <3>5, <3>6, <2>4 DEF Serves
  <2>10. ~Busy(d)
    BY <2>2, IdleIsNotBusy
  <2>11. dispatch' = [dispatch EXCEPT ![t] = e]
    BY <2>1 DEF e
  <2> HIDE DEF k
  <2>12. /\ UNCHANGED args /\ disk \subseteq disk' /\ (broken => broken')
         /\ \A line \in disk' \cup buffer' : line \in disk \cup buffer
    BY <2>2
  <2>13. ~Busy(dispatch[t]) /\ k \notin DOMAIN calls
    BY <2>6, <2>10
  <2>14. Busy(e) /\ e.call = k /\ Serves(e, calls', disk')
    BY <2>4, <2>9
  <2> HIDE DEF d
  <2> QED BY <2>6, <2>7, <2>8, <2>11, <2>12, <2>13, <2>14, AccountedAgain
<1>2. CASE ReadCount(t)
  <2> DEFINE e == [d EXCEPT !.at = @ + 1, !.seen = warning_counts]
  <2>1. d.at \in 1 .. 9 /\ Steps[d.at] = "read"
    BY <1>2, StepsFacts DEF ReadCount, InStep
  <2>2. d.at \in 1 .. 4
    BY <2>1, CountingSteps
  <2>3. e.at = d.at + 1 /\ e.call = d.call /\ e.level = d.level
    BY <1>0 DEF IsDispatch
  <2>4. dispatch' = [dispatch EXCEPT ![t] = e] /\ UNCHANGED <<args, calls, disk, buffer, broken>>
    BY <1>2 DEF ReadCount, command, observer, results
  <2> HIDE DEF e
  <2>5. Busy(d) /\ Serves(d, calls, disk)
    BY <1>0, <2>1, BusyFacts
  <2>6. Busy(e) /\ Serves(e, calls, disk)
    BY <2>1, <2>2, <2>3, <2>5, ServesNext DEF Busy
  <2> QED BY <1>0, <2>1, <2>3, <2>4, <2>6, GoesOn
<1>3. CASE StoreCount(t)
  <2> DEFINE e == [d EXCEPT !.at = @ + 1]
  <2>1. d.at \in 1 .. 9 /\ Steps[d.at] = "store"
    BY <1>3, StepsFacts DEF StoreCount, InStep
  <2>2. d.at \in 1 .. 4
    BY <2>1, CountingSteps
  <2>3. e.at = d.at + 1 /\ e.call = d.call /\ e.level = d.level
    BY <1>0 DEF IsDispatch
  <2>4. dispatch' = [dispatch EXCEPT ![t] = e] /\ UNCHANGED <<args, calls, disk, buffer, broken>>
    BY <1>3 DEF StoreCount, command, results
  <2> HIDE DEF e
  <2>5. Busy(d) /\ Serves(d, calls, disk)
    BY <1>0, <2>1, BusyFacts
  <2>6. Busy(e) /\ Serves(e, calls, disk)
    BY <2>1, <2>2, <2>3, <2>5, ServesNext DEF Busy
  <2> QED BY <1>0, <2>1, <2>3, <2>4, <2>6, GoesOn
<1>4. CASE WriteLine(t)
  <2> DEFINE e == [d EXCEPT !.at = @ + 1]
  <2>1. d.at \in 1 .. 9
    BY <1>4, StepsFacts DEF WriteLine, InStep
  <2>2. e.at = d.at + 1 /\ e.call = d.call /\ e.level = d.level
    BY <1>0 DEF IsDispatch
  <2>3. /\ dispatch' = [dispatch EXCEPT ![t] = e] /\ UNCHANGED <<args, calls, broken>>
        /\ disk' = disk \cup HeldWith(Line(t)[1]) \cup {Line(t)}
        /\ buffer' = buffer \ HeldWith(Line(t)[1])
    BY <1>4 DEF WriteLine, command, results
  <2>4. HeldWith(Line(t)[1]) \subseteq buffer
    BY DEF HeldWith
  <2>5. Line(t) = <<Steps[d.at], <<d.call, d.level>>>>
    BY DEF Line
  <2> HIDE DEF e
  <2>6. Busy(d) /\ Serves(d, calls, disk)
    BY <1>0, <2>1, BusyFacts
  <2>7. IsAbout(Line(t), calls)
    BY <1>0, <2>1, <2>5, <2>6, LineIsAbout
  <2>8. d.at = 9 => Last(d.call, d.level) \in disk'
    BY <2>3, <2>5, StepsFacts DEF Last
  <2> HIDE DEF d
  <2>9. Busy(e) /\ Serves(e, calls, disk')
    BY <2>1, <2>2, <2>3, <2>6, <2>8, ServesNext DEF Busy
  <2>10. \A line \in disk' \cup buffer' : line \in disk \cup buffer \/ IsAbout(line, calls)
    BY <2>3, <2>4, <2>7
  <2>11. d.at # 0 /\ e.call = d.call /\ disk \subseteq disk'
    BY <1>0, <2>1, <2>2, <2>3
  <2> QED BY <2>3, <2>9, <2>10, <2>11, GoesOn DEF d
<1>5. CASE LineFails(t)
  <2>1. d.at \in 1 .. 9
    BY <1>5, StepsFacts DEF LineFails, InStep
  <2>2. /\ UNCHANGED <<args, disk>> /\ buffer' = buffer \cup {Line(t)} /\ broken'
        /\ EndCall(t, "lost")
    BY <1>5 DEF LineFails, command
  <2>3. Line(t) = <<Steps[d.at], <<d.call, d.level>>>>
    BY DEF Line
  <2>4. Busy(d) /\ Serves(d, calls, disk)
    BY <1>0, <2>1, BusyFacts
  <2>5. IsAbout(Line(t), calls)
    BY <1>0, <2>1, <2>3, <2>4, LineIsAbout
  <2>6. calls[d.call].hinted
    BY <1>0, <2>1, <2>4 DEF Serves
  <2> QED BY <1>0, <2>1, <2>2, <2>5, <2>6, Finishes
<1>6. CASE Respond(t)
  <2>1. d.at = Over /\ d.level = "environment" /\ UNCHANGED <<args, disk, buffer, broken>>
    BY <1>6 DEF Respond, command, observer, results
  <2>2. Busy(d) /\ Serves(d, calls, disk)
    BY <1>0, <2>1, BusyFacts
  <2>3. CASE EndCall(t, "refused")
    BY <1>0, <2>1, <2>3, Finishes
  <2>4. CASE dispatch' = [dispatch EXCEPT ![t].level = "toolkit", ![t].seen = 0,
                            ![t].at = StartAt(calls[dispatch[t].call].hinted)] /\ UNCHANGED calls
    <3> DEFINE a == StartAt(calls[dispatch[t].call].hinted)
               e == [d EXCEPT !.level = "toolkit", !.seen = 0, !.at = a]
    <3>1. e.at = a /\ e.call = d.call /\ e.level = "toolkit"
      BY <1>0 DEF IsDispatch
    <3>2. dispatch' = [dispatch EXCEPT ![t] = e]
      BY <2>4
    <3>3. /\ a \in {1, Over} /\ (~calls[d.call].hinted => a = Over)
          /\ (calls[d.call].hinted => a = 1)
      BY DEF StartAt
    <3> HIDE DEF e, a
    <3>4. e.at \in 1 .. Over /\ 1 # Over
      BY <3>1, <3>3 DEF Over
    <3>5. Busy(e) /\ Serves(e, calls, disk')
      BY <2>1, <2>2, <3>1, <3>3, <3>4 DEF Serves, Busy, Wrappers
    <3> QED BY <1>0, <2>1, <2>4, <3>1, <3>2, <3>5, GoesOn
  <2> QED BY <1>6, <2>3, <2>4 DEF Respond
<1>7. CASE UseTool(t)
  <2>1. d.at = Over /\ d.level = "toolkit" /\ UNCHANGED <<args, disk, buffer, broken>>
        /\ EndCall(t, "ran")
    BY <1>7 DEF UseTool, command, observer, results
  <2>2. Busy(d) /\ Serves(d, calls, disk)
    BY <1>0, <2>1, BusyFacts
  <2>3. calls[d.call].hinted =>
          \A level \in WrappersOf(calls[d.call].path) : Last(d.call, level) \in disk
    BY <2>1, <2>2 DEF Serves, WrappersOf
  <2> QED BY <1>0, <2>1, <2>3, Finishes
<1> QED BY <1>1, <1>2, <1>3, <1>4, <1>5, <1>6, <1>7 DEF Simulation

\* Nothing that the smoke writes is about a wrapper.
LEMMA SmokeLines ==
    ASSUME NEW i, NEW n, NEW line \in LinesOf(i, n)
    PROVE  line[2][2] \notin Wrappers
<1>1. PICK k \in 1 .. n : line = <<KindsOf(i)[k], RowOf(i)>>
  BY DEF LinesOf
<1>2. RowOf(i)[2] \notin Wrappers
  BY DEF RowOf, Wrappers
<1> QED BY <1>1, <1>2

\* This is so in every state.
LEMMA AlwaysAccounted == Spec => []Accounted
<1>1. Init => Accounted
  <2> SUFFICES ASSUME Init PROVE Accounted
    OBVIOUS
  <2>1. dispatch = [t \in Threads |-> Idle] /\ calls = <<>> /\ disk \cup buffer = {}
    BY DEF Init
  <2>2. calls \in Seq(CallRecords) /\ DOMAIN calls = {}
    BY <2>1
  <2> QED BY <2>1, <2>2, IdleIsNotBusy DEF Accounted
<1>2. RowsOrdered /\ Accounted /\ [Next]_vars => Accounted'
  <2> SUFFICES ASSUME RowsOrdered, Accounted, [Next]_vars PROVE Accounted'
    OBVIOUS
  <2>1. Dispatches(dispatch)
    BY DEF RowsOrdered
  <2>2. ASSUME NEW t \in Threads, Simulation(t) PROVE Accounted'
    BY <2>1, <2>2, AccountedSimulation
  <2>3. CASE Tau2Ends \/ CloseStep \/ CloseFails
    <3>1. UNCHANGED <<args, calls, dispatch>> /\ disk \subseteq disk'
      BY <2>3 DEF Tau2Ends, CloseStep, CloseFails, command, observer
    <3>2. disk' \cup buffer' \subseteq disk \cup buffer
      BY <2>3 DEF Tau2Ends, CloseStep, CloseFails, observer
    <3>3. broken' = broken \/ broken' = TRUE
      BY <2>3 DEF Tau2Ends, CloseStep, CloseFails
    <3> QED BY <3>1, <3>2, <3>3, AccountedWithout
  <2>4. ASSUME Killed PROVE Accounted'
    <3>1. /\ UNCHANGED <<args, calls, disk, broken>> /\ buffer' = {}
          /\ \A t \in Threads : dispatch'[t] = Idle
      BY <2>1, <2>4 DEF Killed, Dispatches
    <3> QED BY <3>1, AccountedWithout
  <2>5. CASE Observe
    <3>1. /\ UNCHANGED <<args, calls, dispatch, buffer, broken>>
          /\ disk' = disk \cup LinesOf(items', Len(KindsOf(items')))
      BY <2>5 DEF Observe, Goto, results
    <3> QED BY <3>1, SmokeLines, AccountedWithout
  <2>6. CASE ObserveFails
    <3> DEFINE i == items + 1
    <3>1. UNCHANGED <<args, calls, dispatch>> /\ broken'
      BY <2>6 DEF ObserveFails, Goto
    <3>2. PICK k \in 1 .. Len(KindsOf(i)) :
            /\ disk' = disk \cup LinesOf(i, k - 1)
            /\ buffer' = {<<KindsOf(i)[k], RowOf(i)>>}
      BY <2>6 DEF ObserveFails
    <3> HIDE DEF i
    <3>3. <<KindsOf(i)[k], RowOf(i)>>[2][2] \notin Wrappers
      BY DEF RowOf, Wrappers
    <3> QED BY <3>1, <3>2, <3>3, SmokeLines, AccountedWithout
  <2>7. CASE CloseSmoke
    <3>1. /\ UNCHANGED <<args, calls, dispatch, broken>>
          /\ disk' = disk \cup buffer /\ buffer' = {}
      BY <2>7 DEF CloseSmoke, Goto, results
    <3> QED BY <3>1, AccountedWithout
  \* Everything else leaves the observer and the calls alone.
  <2>8. CASE UNCHANGED <<args, calls, dispatch, disk, buffer>> /\ (broken => broken')
    BY <2>8, AccountedWithout
  <2>9. Launch \/ Reconsider \/ Refuse \/ Completed \/ Update \/ WriteSummary \/ PrintStatus
          => UNCHANGED <<args, calls, dispatch, disk, buffer, broken>>
    BY DEF Launch, Reconsider, Refuse, Completed, Update, WriteSummary, PrintStatus, Goto,
           Quiet, observer
  <2>10. Validate \/ WriteSmokeFinal \/ WriteSmokeSummary
           => UNCHANGED <<args, calls, dispatch, disk, buffer, broken>>
    BY DEF Validate, WriteSmokeFinal, WriteSmokeSummary, Goto, Quiet, observer
  <2>11. SmokeFails => UNCHANGED <<args, calls, dispatch, disk, buffer>> /\ broken'
    BY DEF SmokeFails, Goto, observer
  <2>12. UNCHANGED vars => UNCHANGED <<args, calls, dispatch, disk, buffer, broken>>
    BY DEF vars, command, observer, results
  <2>13. Timeout \/ KillChild => Accounted'
    BY <2>4 DEF Timeout, KillChild
  <2>14. LauncherStep => Accounted'
    BY <2>5, <2>6, <2>7, <2>8, <2>9, <2>10, <2>11, <2>13 DEF LauncherStep
  <2>15. ChildStep => Accounted'
    BY <2>2, <2>3, <2>13 DEF ChildStep
  <2>16. UNCHANGED vars => Accounted'
    BY <2>8, <2>12
  <2> QED BY <2>14, <2>15, <2>16 DEF Next, Terminating
<1> QED BY <1>1, <1>2, AlwaysOrdered, PTL DEF Spec

\* A write tool that ran was observed before, by each wrapper it came through; only
\* a line that could not be written keeps a tool from running; no other tool is
\* observed: for any number of calls and threads, with failing writes and kills
\* anywhere.
THEOREM ObservedBeforeRun == Spec => []RanMeansObserved
<1>1. Accounted => RanMeansObserved
  <2> SUFFICES ASSUME Accounted, NEW c \in DOMAIN calls
               PROVE  LET rows == {r \in RowsOnDisk("diff event") :
                                     r[1] = c /\ r[2] \in {"environment", "toolkit"}}
                      IN  /\ calls[c].end = "ran" =>
                               {r[2] : r \in rows} =
                                 IF calls[c].hinted THEN WrappersOf(calls[c].path) ELSE {}
                          /\ calls[c].end = "lost" => broken /\ calls[c].hinted
                          /\ ~calls[c].hinted => rows = {}
    BY DEF RanMeansObserved
  <2> DEFINE rows == {r \in RowsOnDisk("diff event") :
                        r[1] = c /\ r[2] \in {"environment", "toolkit"}}
  <2>1. Settled(c, calls, disk, broken)
    BY DEF Accounted
  <2>2. ASSUME NEW r \in rows
        PROVE  calls[c].hinted /\ r[2] \in WrappersOf(calls[c].path)
    <3>1. PICK line \in disk : line[1] = "diff event" /\ line[2] = r
      BY DEF RowsOnDisk
    <3>2. IsAbout(line, calls) /\ r[1] = c /\ r[2] \in Wrappers
      BY DEF Accounted, Wrappers
    <3>3. calls[c].hinted /\ (r[2] = "environment" => calls[c].path = "response")
      BY <3>1, <3>2 DEF IsAbout
    <3> QED BY <3>2, <3>3 DEF WrappersOf, Wrappers
  <2>3. ASSUME calls[c].end = "ran", calls[c].hinted, NEW level \in WrappersOf(calls[c].path)
        PROVE  level \in {r[2] : r \in rows}
    <3> DEFINE r == <<c, level>>
    <3>1. r[1] = c /\ r[2] = level
      OBVIOUS
    <3> HIDE DEF r
    <3>2. <<"diff event", r>> \in disk
      BY <2>1, <2>3 DEF Settled, Last, r
    <3>3. <<"diff event", r>>[1] = "diff event" /\ <<"diff event", r>>[2] = r
      OBVIOUS
    <3>4. r \in RowsOnDisk("diff event")
      BY <3>2, <3>3 DEF RowsOnDisk
    <3>5. level \in {"environment", "toolkit"}
      BY <2>3 DEF WrappersOf
    <3> QED BY <3>1, <3>4, <3>5
  <2>4. ~calls[c].hinted => rows = {}
    BY <2>2
  <2>5. calls[c].end = "ran" =>
          {r[2] : r \in rows} = IF calls[c].hinted THEN WrappersOf(calls[c].path) ELSE {}
    <3> HIDE DEF rows
    <3>1. CASE calls[c].hinted
      BY <2>2, <2>3, <3>1
    <3>2. CASE ~calls[c].hinted
      BY <2>4, <3>2
    <3> QED BY <3>1, <3>2
  <2>6. calls[c].end = "lost" => broken /\ calls[c].hinted
    BY <2>1 DEF Settled
  <2> QED BY <2>4, <2>5, <2>6
<1> QED BY <1>1, AlwaysAccounted, PTL

-----------------------------------------------------------------------------
(* What the observer counts is in its files.                               *)

\* Two sets without common elements.
LEMMA CardinalityOfBoth ==
    ASSUME NEW S, IsFiniteSet(S), NEW T, IsFiniteSet(T), S \cap T = {}
    PROVE  IsFiniteSet(S \cup T) /\ Cardinality(S \cup T) = Cardinality(S) + Cardinality(T)
<1>1. Cardinality(S) \in Nat /\ Cardinality(T) \in Nat
  BY FS_CardinalityType
<1>2. Cardinality(S \cap T) = 0
  BY FS_EmptySet
<1>3. /\ IsFiniteSet(S \cup T)
      /\ Cardinality(S \cup T) = Cardinality(S) + Cardinality(T) - Cardinality(S \cap T)
  BY FS_Union
<1> QED BY <1>1, <1>2, <1>3

\* The events among finitely many lines are counted one by one.
LEMMA EventsAreFinite ==
    ASSUME NEW S, IsFiniteSet(S)
    PROVE  IsFiniteSet(EventsAmong(S)) /\ Cardinality(EventsAmong(S)) \in Nat
<1>1. EventsAmong(S) \in SUBSET S
  BY DEF EventsAmong
<1> QED BY <1>1, FS_Subset, FS_CardinalityType

\* Different lines have different events.
LEMMA EventsOfMore ==
    ASSUME NEW S, IsFiniteSet(S), NEW T, IsFiniteSet(T), S \cap T = {}
    PROVE  Cardinality(EventsAmong(S \cup T)) =
             Cardinality(EventsAmong(S)) + Cardinality(EventsAmong(T))
<1>1. EventsAmong(S \cup T) = EventsAmong(S) \cup EventsAmong(T)
      /\ EventsAmong(S) \cap EventsAmong(T) = {}
  BY DEF EventsAmong
<1> QED BY <1>1, EventsAreFinite, CardinalityOfBoth

\* One line is at most one event.
LEMMA EventsOfOne ==
    ASSUME NEW l
    PROVE  Cardinality(EventsAmong({l})) = IF l[1] \in EventLines THEN 1 ELSE 0
<1>1. CASE l[1] \in EventLines
  <2>1. EventsAmong({l}) = {l}
    BY <1>1 DEF EventsAmong
  <2> QED BY <1>1, <2>1, FS_Singleton
<1>2. CASE l[1] \notin EventLines
  <2>1. EventsAmong({l}) = {}
    BY <1>2 DEF EventsAmong
  <2> QED BY <1>2, <2>1, FS_EmptySet
<1> QED BY <1>1, <1>2

\* A warning among some lines is one of a ledger among them.
LEMMA InWarned ==
    ASSUME NEW S, NEW p
    PROVE  p \in WarnedAmong(S) <=>
             \E l \in S : l[1] = "ledger" /\ p \in {l[2]} \X WarningsOf(l[2])
BY DEF WarnedAmong

\* The warnings of both are the warnings of each.
LEMMA WarnedOfUnion ==
    ASSUME NEW S, NEW T
    PROVE  WarnedAmong(S \cup T) = WarnedAmong(S) \cup WarnedAmong(T)
<1>1. ASSUME NEW p
      PROVE  p \in WarnedAmong(S \cup T) <=> p \in WarnedAmong(S) \/ p \in WarnedAmong(T)
  BY InWarned
<1> QED BY <1>1

\* Fewer lines have fewer warnings.
LEMMA WarnedOfFewer ==
    ASSUME NEW S, NEW T, S \subseteq T
    PROVE  WarnedAmong(S) \subseteq WarnedAmong(T)
BY InWarned

\* Only ledgers have warnings.
LEMMA WarnedWithoutLedger ==
    ASSUME NEW S, \A l \in S : l[1] # "ledger"
    PROVE  WarnedAmong(S) = {}
BY InWarned

\* Lines with one ledger have the warnings of its row.
LEMMA WarnedOfRow ==
    ASSUME NEW S, NEW row, IsFiniteSet(WarningsOf(row)),
           \E l \in S : l[1] = "ledger",
           \A l \in S : l[1] = "ledger" => l[2] = row
    PROVE  /\ IsFiniteSet(WarnedAmong(S))
           /\ Cardinality(WarnedAmong(S)) = WarningsIn(row)
           /\ WarnedAmong(S) = {row} \X WarningsOf(row)
<1>1. WarnedAmong(S) = {row} \X WarningsOf(row)
  <2>1. ASSUME NEW p PROVE p \in WarnedAmong(S) <=> p \in {row} \X WarningsOf(row)
    BY InWarned
  <2> QED BY <2>1
<1>2. IsFiniteSet({row}) /\ Cardinality({row}) = 1
  BY FS_Singleton
<1>3. Cardinality(WarningsOf(row)) \in Nat
  BY FS_CardinalityType
<1>4. /\ IsFiniteSet({row} \X WarningsOf(row))
      /\ Cardinality({row} \X WarningsOf(row)) = 1 * Cardinality(WarningsOf(row))
  BY <1>2, FS_Product
<1> QED BY <1>1, <1>3, <1>4 DEF WarningsIn

\* The warnings of a row that had no ledger yet come on top.
LEMMA WarnedOfMore ==
    ASSUME NEW S, IsFiniteSet(WarnedAmong(S)), NEW T, NEW row, IsFiniteSet(WarningsOf(row)),
           \A l \in S : l[1] = "ledger" => l[2] # row,
           \E l \in T : l[1] = "ledger",
           \A l \in T : l[1] = "ledger" => l[2] = row
    PROVE  /\ IsFiniteSet(WarnedAmong(S \cup T))
           /\ Cardinality(WarnedAmong(S \cup T)) = Cardinality(WarnedAmong(S)) + WarningsIn(row)
<1>1. /\ IsFiniteSet(WarnedAmong(T))
      /\ Cardinality(WarnedAmong(T)) = WarningsIn(row)
      /\ WarnedAmong(T) = {row} \X WarningsOf(row)
  BY WarnedOfRow
<1>2. WarnedAmong(S) \cap WarnedAmong(T) = {}
  <2> SUFFICES ASSUME NEW p \in WarnedAmong(S), p \in {row} \X WarningsOf(row) PROVE FALSE
    BY <1>1
  <2>1. PICK l \in S : l[1] = "ledger" /\ p \in {l[2]} \X WarningsOf(l[2])
    BY InWarned
  <2>2. p[1] = l[2] /\ p[1] = row
    BY <2>1
  <2> QED BY <2>1, <2>2
<1> QED BY <1>1, <1>2, WarnedOfUnion, CardinalityOfBoth

-----------------------------------------------------------------------------
(* The warnings of each row are finitely many.                             *)

\* A dispatch without a ledger has two different warnings.
LEMMA RuntimeWarningsAreTwo ==
    IsFiniteSet(RuntimeWarnings) /\ Cardinality(RuntimeWarnings) = 2
<1> DEFINE w == Warning("runtime_candidate_without_fixture_ledger", "runtime_observable",
                        "low", {})
           v == Warning("runtime_diff_not_evaluable_without_expected_ledger",
                        "runtime_observable", "info", {})
<1>1. w # v
  BY DEF Warning
<1>2. RuntimeWarnings = {w} \cup {v}
  BY DEF RuntimeWarnings
<1> HIDE DEF w, v
<1> DEFINE P == {w}
           Q == {v}
<1>3. /\ IsFiniteSet(P) /\ Cardinality(P) = 1
      /\ IsFiniteSet(Q) /\ Cardinality(Q) = 1
  BY FS_Singleton
<1>4. P \cap Q = {} /\ RuntimeWarnings = P \cup Q
  BY <1>1, <1>2
<1> HIDE DEF P, Q
<1>5. IsFiniteSet(P \cup Q) /\ Cardinality(P \cup Q) = 1 + 1
  BY <1>3, <1>4, CardinalityOfBoth
<1> QED BY <1>4, <1>5

\* A warning that may be given is at most one.
LEMMA WhenIsFinite ==
    ASSUME NEW c, NEW w
    PROVE  IsFiniteSet(When(c, w))
<1>1. IsFiniteSet({w}) /\ IsFiniteSet({})
  BY FS_Singleton, FS_EmptySet, Zenon
<1> QED BY <1>1, Zenon DEF When

\* A case with at most one call, and finitely many expected arguments, earns
\* finitely many warnings.
LEMMA WarningsAreFinite ==
    ASSUME NEW case, NEW call, Calls(case) \subseteq {call},
           IsFiniteSet(DOMAIN case.expected)
    PROVE  IsFiniteSet(Warnings(case))
<1> DEFINE mismatch(p) == Warning(MismatchCode(p), "pre_write_detectable",
                IF MismatchCode(p) = "write_argument_mismatch" THEN "medium" ELSE "high", {p})
           few == {mismatch(p) : p \in Mismatches(case, call)}
<1>1. IsFiniteSet(few)
  <2>1. Mismatches(case, call) \in SUBSET DOMAIN case.expected
    BY DEF Mismatches
  <2>2. IsFiniteSet(Mismatches(case, call))
    BY <2>1, FS_Subset
  <2> DEFINE f == [p \in Mismatches(case, call) |-> mismatch(p)]
  <2>3. f \in Surjection(Mismatches(case, call), few)
    BY DEF Surjection
  <2> QED BY <2>2, <2>3, FS_Surjection
<1> HIDE DEF few
<1>2. IsFiniteSet(PreWrite(case, call))
  <2>1. \E a, b : /\ IsFiniteSet(a) /\ IsFiniteSet(b)
                  /\ PreWrite(case, call) = a \cup few \cup b
    <3> DEFINE a == When(MissingEntities(case, call) # {},
                         Warning("required_entity_missing", "pre_write_detectable",
                                 "high", MissingEntities(case, call)))
               b == When(Unsupported(case, call),
                         Warning("selected_option_unsupported", "pre_write_detectable",
                                 "medium", {call.option}))
    <3>1. IsFiniteSet(a) /\ IsFiniteSet(b)
      BY WhenIsFinite, Zenon
    <3>2. PreWrite(case, call) = a \cup few \cup b
      BY Zenon DEF PreWrite, few
    <3> QED BY <3>1, <3>2
  <2> QED BY <1>1, <2>1, FS_Union
<1>3. IsFiniteSet(CallWarnings(case, call))
  <2> DEFINE a == When(MissingReads(case) # {},
                Warning("write_before_prerequisite_read", "runtime_observable", "high",
                        MissingReads(case)))
  <2>1. IsFiniteSet(a)
    BY WhenIsFinite, Zenon
  <2>2. CallWarnings(case, call) = PreWrite(case, call) \cup a
    BY Zenon DEF CallWarnings
  <2> HIDE DEF a
  <2> QED BY <1>2, <2>1, <2>2, FS_Union
<1> DEFINE ofCalls == UNION {CallWarnings(case, c) : c \in Calls(case)}
<1>4. IsFiniteSet(ofCalls)
  <2>1. ofCalls \in SUBSET CallWarnings(case, call)
    OBVIOUS
  <2> QED BY <1>3, <2>1, FS_Subset
<1> DEFINE a == When(case.expectedWrite /\ case.calls = <<>>,
             Warning("no_write_observed", "runtime_observable", "high", {}))
           b == When(\E c \in Calls(case) : PreWrite(case, c) # {},
                    Warning("requires_future_control_to_block", "requires_future_control",
                            "info", {}))
           c1 == When(~case.matches,
                    Warning("post_write_state_mismatch", "post_write_only", "medium", {}))
           d == When(case.ambiguous,
                    Warning("scoring_evaluation_ambiguity", "post_write_only", "low", {}))
<1>5. IsFiniteSet(a) /\ IsFiniteSet(b) /\ IsFiniteSet(c1) /\ IsFiniteSet(d)
  BY WhenIsFinite, Zenon
<1>6. Warnings(case) = a \cup ofCalls \cup b \cup c1 \cup d
  BY Zenon DEF Warnings
<1> HIDE DEF a, b, c1, d, ofCalls
<1>7. IsFiniteSet(a \cup ofCalls \cup b)
  BY <1>4, <1>5, FS_Union
<1>8. IsFiniteSet(a \cup ofCalls \cup b \cup c1)
  BY <1>5, <1>7, FS_Union
<1> QED BY <1>5, <1>6, <1>8, FS_Union

\* This is so of the five fixtures and of a dispatch.
LEMMA FixtureWarningsAreFinite ==
    ASSUME NEW i \in 1 .. 5
    PROVE  IsFiniteSet(Warnings(FixtureCases[i]))
<1>1. IsFiniteSet({"payment_method", "total_price"}) /\ IsFiniteSet({"title", "assignee"})
      /\ IsFiniteSet({"status", "task_id"}) /\ IsFiniteSet({"status"})
  <2>1. \A x : IsFiniteSet({x})
    BY FS_Singleton
  <2>2. \A x, y : IsFiniteSet({x} \cup {y})
    BY <2>1, FS_Union
  <2>3. ASSUME NEW x, NEW y PROVE IsFiniteSet({x, y})
    <3>1. {x} \cup {y} = {x, y}
      OBVIOUS
    <3>2. IsFiniteSet({x} \cup {y})
      BY <2>2, Zenon
    <3> QED BY <3>1, <3>2
  <2> QED BY <2>1, <2>3, Zenon
<1>2. ASSUME NEW case, IsFiniteSet(DOMAIN case.expected),
             case.calls = <<>> \/ \E c : case.calls = <<c>>
      PROVE  IsFiniteSet(Warnings(case))
  <2>1. \E c : Calls(case) \subseteq {c}
    <3>1. CASE case.calls = <<>>
      BY <3>1 DEF Calls
    <3>2. CASE \E c : case.calls = <<c>>
      <4>1. PICK c : case.calls = <<c>>
        BY <3>2
      <4>2. DOMAIN <<c>> = {1} /\ <<c>>[1] = c
        OBVIOUS
      <4> QED BY <4>1, <4>2 DEF Calls
    <3> QED BY <1>2, <3>1, <3>2
  <2> QED BY <1>2, <2>1, WarningsAreFinite
<1>3. /\ DOMAIN MissingKevin.expected = {"payment_method", "total_price"}
      /\ \E c : MissingKevin.calls = <<c>>
  BY DEF MissingKevin, Booking
<1>4. /\ DOMAIN WrongPayment.expected = {"payment_method", "total_price"}
      /\ \E c : WrongPayment.calls = <<c>>
  BY DEF WrongPayment, MissingKevin, Booking
<1>5. DOMAIN CreateTask.expected = {"title", "assignee"} /\ \E c : CreateTask.calls = <<c>>
  BY DEF CreateTask
<1>6. DOMAIN NoWrite.expected = {"status"} /\ NoWrite.calls = <<>>
  BY DEF NoWrite
<1>7. DOMAIN DbMismatch.expected = {"status", "task_id"} /\ \E c : DbMismatch.calls = <<c>>
  BY DEF DbMismatch, NoWrite
<1>8. /\ IsFiniteSet(Warnings(MissingKevin)) /\ IsFiniteSet(Warnings(WrongPayment))
      /\ IsFiniteSet(Warnings(CreateTask)) /\ IsFiniteSet(Warnings(NoWrite))
      /\ IsFiniteSet(Warnings(DbMismatch))
  BY <1>1, <1>2, <1>3, <1>4, <1>5, <1>6, <1>7
<1>9. /\ FixtureCases[1] = MissingKevin /\ FixtureCases[2] = WrongPayment
      /\ FixtureCases[3] = CreateTask /\ FixtureCases[4] = NoWrite
      /\ FixtureCases[5] = DbMismatch
  BY DEF FixtureCases
<1> QED BY <1>8, <1>9

\* The rows of the smoke.
LEMMA SmokeWarningsAreFinite ==
    ASSUME NEW i \in 1 .. Runtime
    PROVE  IsFiniteSet(WarningsOf(RowOf(i)))
<1>1. Runtime = 6
  BY RuntimeLines
<1>2. CASE i = Runtime
  <2>1. RowOf(i)[2] = "runtime"
    BY <1>2 DEF RowOf
  <2>2. WarningsOf(RowOf(i)) = RuntimeWarnings
    BY <2>1 DEF WarningsOf
  <2> QED BY <2>2, RuntimeWarningsAreTwo
<1>3. CASE i # Runtime
  <2>1. RowOf(i)[2] = "fixture" /\ RowOf(i)[1] = i
    BY <1>3 DEF RowOf
  <2>2. WarningsOf(RowOf(i)) = Warnings(FixtureCases[i])
    BY <2>1 DEF WarningsOf
  <2>3. i \in 1 .. 5
    BY <1>1, <1>3
  <2> QED BY <2>2, <2>3, FixtureWarningsAreFinite
<1> QED BY <1>2, <1>3

-----------------------------------------------------------------------------
(* The lines of an item of the smoke.                                      *)

\* Where a kind of line comes in an observation.
Rank(kind) ==
    IF kind = "ledger" THEN 1 ELSE IF kind = "snapshot" THEN 2
    ELSE IF kind = "candidate" THEN 3 ELSE IF kind = "diff" THEN 4
    ELSE IF kind = "diff event" THEN 5 ELSE 6

\* Different kinds have different ranks.
LEMMA RankFacts ==
    /\ Rank("ledger") = 1 /\ Rank("snapshot") = 2 /\ Rank("candidate") = 3
    /\ Rank("diff") = 4 /\ Rank("diff event") = 5 /\ Rank("score") = 6
BY DEF Rank

Apart(kinds) ==
    /\ Len(kinds) \in Nat \ {0} /\ kinds[1] = "ledger"
    /\ \A j, k \in 1 .. Len(kinds) : kinds[j] = kinds[k] => j = k

\* No item has two lines of a kind, and its first is the ledger.
LEMMA KindsDiffer ==
    ASSUME NEW i
    PROVE  /\ Len(KindsOf(i)) \in Nat \ {0} /\ KindsOf(i)[1] = "ledger"
           /\ \A j, k \in 1 .. Len(KindsOf(i)) : KindsOf(i)[j] = KindsOf(i)[k] => j = k
<1> DEFINE five == <<"ledger", "snapshot", "candidate", "diff", "diff event">>
           three == <<"ledger", "snapshot", "score">>
           six == <<"ledger", "snapshot", "candidate", "diff", "diff event", "score">>
<1>1. KindsOf(i) \in {five, three, six}
  BY DEF KindsOf
<1>2. /\ Len(five) = 5 /\ five[1] = "ledger" /\ five[2] = "snapshot" /\ five[3] = "candidate"
      /\ five[4] = "diff" /\ five[5] = "diff event"
  OBVIOUS
<1>3. Len(three) = 3 /\ three[1] = "ledger" /\ three[2] = "snapshot" /\ three[3] = "score"
  OBVIOUS
<1>4. /\ Len(six) = 6 /\ six[1] = "ledger" /\ six[2] = "snapshot" /\ six[3] = "candidate"
      /\ six[4] = "diff" /\ six[5] = "diff event" /\ six[6] = "score"
  OBVIOUS
<1> HIDE DEF five, three, six
<1>5. \A j \in 1 .. 5 : Rank(five[j]) = j
  <2>1. \A j \in 1 .. 5 : j = 1 \/ j = 2 \/ j = 3 \/ j = 4 \/ j = 5
    OBVIOUS
  <2> QED BY <1>2, <2>1, RankFacts
<1>6. \A j \in 1 .. 3 : Rank(three[j]) = IF j = 3 THEN 6 ELSE j
  <2>1. \A j \in 1 .. 3 : j = 1 \/ j = 2 \/ j = 3
    OBVIOUS
  <2> QED BY <1>3, <2>1, RankFacts
<1>7. \A j \in 1 .. 6 : Rank(six[j]) = j
  <2>1. \A j \in 1 .. 6 : j = 1 \/ j = 2 \/ j = 3 \/ j = 4 \/ j = 5 \/ j = 6
    OBVIOUS
  <2> QED BY <1>4, <2>1, RankFacts
<1>8. Apart(five)
  <2>1. \A j, k \in 1 .. 5 : five[j] = five[k] => j = k
    BY <1>5
  <2>2. Len(five) = 5 /\ five[1] = "ledger"
    BY <1>2, Zenon
  <2>3. Len(five) \in Nat \ {0} /\ 1 .. Len(five) = 1 .. 5
    BY <2>2
  <2> QED BY <2>1, <2>2, <2>3, Zenon DEF Apart
<1>9. Apart(three)
  <2>1. \A j, k \in 1 .. 3 : three[j] = three[k] => j = k
    BY <1>6
  <2>2. Len(three) = 3 /\ three[1] = "ledger"
    BY <1>3, Zenon
  <2>3. Len(three) \in Nat \ {0} /\ 1 .. Len(three) = 1 .. 3
    BY <2>2
  <2> QED BY <2>1, <2>2, <2>3, Zenon DEF Apart
<1>10. Apart(six)
  <2>1. \A j, k \in 1 .. 6 : six[j] = six[k] => j = k
    BY <1>7
  <2>2. Len(six) = 6 /\ six[1] = "ledger"
    BY <1>4, Zenon
  <2>3. Len(six) \in Nat \ {0} /\ 1 .. Len(six) = 1 .. 6
    BY <2>2
  <2> QED BY <2>1, <2>2, <2>3, Zenon DEF Apart
<1>11. Apart(KindsOf(i))
  BY <1>1, <1>8, <1>9, <1>10
<1> QED BY <1>11 DEF Apart

\* The events among the lines of an item are those that it counts.
LEMMA EventsOfItem ==
    ASSUME NEW i, NEW n \in 0 .. Len(KindsOf(i))
    PROVE  /\ IsFiniteSet(LinesOf(i, n))
           /\ Cardinality(EventsAmong(LinesOf(i, n))) = EventsIn(i, n)
<1>1. IsFiniteSet(1 .. n)
  BY KindsDiffer, FS_Interval
<1> DEFINE f == [k \in 1 .. n |-> <<KindsOf(i)[k], RowOf(i)>>]
<1>2. f \in Surjection(1 .. n, LinesOf(i, n))
  BY DEF Surjection, LinesOf
<1>3. IsFiniteSet(LinesOf(i, n))
  BY <1>1, <1>2, FS_Surjection
<1> DEFINE K == {k \in 1 .. n : KindsOf(i)[k] \in EventLines}
           g == [k \in K |-> <<KindsOf(i)[k], RowOf(i)>>]
<1>4. IsFiniteSet(K)
  <2>1. K \in SUBSET (1 .. n)
    OBVIOUS
  <2> QED BY <1>1, <2>1, FS_Subset
<1>5. \A k \in 1 .. n :
        /\ <<KindsOf(i)[k], RowOf(i)>>[1] = KindsOf(i)[k]
        /\ <<KindsOf(i)[k], RowOf(i)>> \in LinesOf(i, n)
  BY DEF LinesOf
<1>6. \A l \in LinesOf(i, n) : \E k \in 1 .. n : l = <<KindsOf(i)[k], RowOf(i)>>
  BY DEF LinesOf
<1>7. g \in [K -> EventsAmong(LinesOf(i, n))]
  BY <1>5 DEF EventsAmong
<1>8. \A l \in EventsAmong(LinesOf(i, n)) : \E k \in K : g[k] = l
  BY <1>5, <1>6 DEF EventsAmong
<1>9. \A j, k \in K : g[j] = g[k] => j = k
  <2> SUFFICES ASSUME NEW j \in K, NEW k \in K, g[j] = g[k] PROVE j = k
    OBVIOUS
  <2>1. KindsOf(i)[j] = KindsOf(i)[k]
    OBVIOUS
  <2>2. j \in 1 .. Len(KindsOf(i)) /\ k \in 1 .. Len(KindsOf(i))
    BY KindsDiffer
  <2> QED BY <2>1, <2>2, KindsDiffer
<1> HIDE DEF g, K
<1>10. ExistsBijection(K, EventsAmong(LinesOf(i, n)))
  <2>1. g \in Bijection(K, EventsAmong(LinesOf(i, n)))
    BY <1>7, <1>8, <1>9 DEF Bijection, Injection, Surjection, IsInjective
  <2> QED BY <2>1 DEF ExistsBijection
<1>11. Cardinality(EventsAmong(LinesOf(i, n))) = Cardinality(K)
  BY <1>4, <1>10, FS_Bijection
<1> QED BY <1>3, <1>11 DEF K, EventsIn

\* All lines of an item are about its row, and the first is its ledger.
LEMMA LinesOfItem ==
    ASSUME NEW i, NEW n \in 0 .. Len(KindsOf(i))
    PROVE  /\ \A l \in LinesOf(i, n) : l[2] = RowOf(i)
           /\ n # 0 => \E l \in LinesOf(i, n) : l[1] = "ledger"
           /\ n # 0 => LinesOf(i, n) = LinesOf(i, n - 1) \cup {<<KindsOf(i)[n], RowOf(i)>>}
<1>1. \A k : <<KindsOf(i)[k], RowOf(i)>>[1] = KindsOf(i)[k]
             /\ <<KindsOf(i)[k], RowOf(i)>>[2] = RowOf(i)
  OBVIOUS
<1>2. \A l \in LinesOf(i, n) : \E k \in 1 .. n : l = <<KindsOf(i)[k], RowOf(i)>>
  BY DEF LinesOf
<1>3. \A l \in LinesOf(i, n) : l[2] = RowOf(i)
  BY <1>1, <1>2
<1>4. ASSUME n # 0
      PROVE  /\ \E l \in LinesOf(i, n) : l[1] = "ledger"
             /\ LinesOf(i, n) = LinesOf(i, n - 1) \cup {<<KindsOf(i)[n], RowOf(i)>>}
  <2>1. n \in Nat \ {0} /\ 1 \in 1 .. n /\ 1 .. n = (1 .. n - 1) \cup {n}
    BY <1>4, KindsDiffer
  <2>2. <<KindsOf(i)[1], RowOf(i)>> \in LinesOf(i, n)
    BY <2>1 DEF LinesOf
  <2>3. LinesOf(i, n) = LinesOf(i, n - 1) \cup {<<KindsOf(i)[n], RowOf(i)>>}
    BY <2>1, Zenon DEF LinesOf
  <2> QED BY <1>1, <2>2, <2>3, KindsDiffer
<1> QED BY <1>3, <1>4

-----------------------------------------------------------------------------
(* The counts while a command goes on.                                     *)

Lines == disk \cup buffer
EventCount(lines) == Cardinality(EventsAmong(lines))
WarningCount(lines) == Cardinality(WarnedAmong(lines))

\* Of the two warnings of a dispatch those that are counted before its ledger is
\* written.
Early(d) == IF d.at \in {3, 4} THEN 1 ELSE IF d.at = 5 THEN 2 ELSE 0

\* No line that a dispatch has still to write is there.
Unwritten(d, lines) ==
    \A l \in lines :
        /\ l[2] = <<d.call, d.level>> => \A j \in 1 .. 9 : l[1] = Steps[j] => j < d.at
        /\ d.level = "environment" => l[2] # <<d.call, "toolkit">>

\* What a dispatch has read is not stale: it is the only one.
Current(d, warned) == d.at \in {2, 4} => d.seen = warned

\* In a tau2 process that is observed there is one thread, and until lines are lost
\* the counts are those of the lines that came out or are in the buffers.
TracedCounts ==
    LET d == dispatch[1]
    IN  /\ 1 \in Threads
        /\ IsFiniteSet(Lines) /\ IsFiniteSet(WarnedAmong(Lines))
        /\ ~broken => buffer = {}
        /\ child # "running" => d = Idle
        /\ Busy(d) => Unwritten(d, Lines)
        /\ child \notin {"exited", "killed"} =>
             /\ event_count = EventCount(Lines)
             /\ warning_counts = WarningCount(Lines) + Early(d)
             /\ Current(d, warning_counts)

\* The same of a smoke, where nothing is lost but after a failed write.
SmokeCounts ==
    /\ IsFiniteSet(Lines) /\ event_count = EventCount(Lines)
    /\ ~broken => /\ buffer = {} /\ IsFiniteSet(WarnedAmong(Lines))
                  /\ warning_counts = WarningCount(Lines)
    /\ pc = "observe" => ~broken /\ \A l \in Lines : \E j \in 1 .. items : l[2] = RowOf(j)

Recorded == files["observer"] \notin {Absent, Partial}

\* The counts in observer_final_state.json, once they are there: no line is written
\* any more.
FinalCounts ==
    Recorded =>
      /\ IF launcher = "smoke" THEN pc \in {"summary", "print", "ended"}
         ELSE child \in {"observer close", "final", "summary", "exited", "killed"}
      /\ counted.events \in Nat /\ EventCount(Lines) <= counted.events
      /\ launcher = "traced" =>
           counted.warnings \in Nat /\ WarningCount(Lines) <= counted.warnings
      /\ ~broken => counted = [warnings |-> WarningCount(Lines), events |-> EventCount(Lines)]

\* The inductive invariant.
Counted ==
    /\ Observing => TracedCounts /\ FinalCounts
    /\ launcher = "smoke" => SmokeCounts /\ FinalCounts
    /\ launcher # "smoke" /\ ~Observing =>
         files["observer"] = Absent /\ child \notin {"observer final", "observer close"}

\* Fewer lines have fewer events and warnings.
LEMMA FewerLines ==
    ASSUME NEW S, NEW T, S \subseteq T, IsFiniteSet(T), IsFiniteSet(WarnedAmong(T))
    PROVE  /\ IsFiniteSet(S) /\ IsFiniteSet(WarnedAmong(S))
           /\ EventCount(S) <= EventCount(T) /\ WarningCount(S) <= WarningCount(T)
           /\ EventCount(S) \in Nat /\ EventCount(T) \in Nat
           /\ WarningCount(S) \in Nat /\ WarningCount(T) \in Nat
<1>1. S \in SUBSET T /\ EventsAmong(S) \in SUBSET EventsAmong(T)
      /\ WarnedAmong(S) \in SUBSET WarnedAmong(T)
  BY WarnedOfFewer DEF EventsAmong
<1>2. IsFiniteSet(EventsAmong(T))
  BY EventsAreFinite
<1>3. IsFiniteSet(S) /\ IsFiniteSet(WarnedAmong(S)) /\ IsFiniteSet(EventsAmong(S))
  BY <1>1, <1>2, FS_Subset
<1>4. /\ Cardinality(EventsAmong(S)) <= Cardinality(EventsAmong(T))
      /\ Cardinality(WarnedAmong(S)) <= Cardinality(WarnedAmong(T))
  BY <1>1, <1>2, FS_Subset
<1> QED BY <1>2, <1>3, <1>4, FS_CardinalityType DEF EventCount, WarningCount

\* The steps that write a line are of different kinds.
LEMMA StepsDiffer ==
    /\ \A i \in 5 .. 9, j \in 1 .. 9 : Steps[i] = Steps[j] => i = j
    /\ \A i \in 1 .. 9 : Steps[i] \in EventLines \cup {"ledger", "diff"} => i \in 5 .. 9
    /\ \A i \in 1 .. 9 : Steps[i] = "ledger" <=> i = 5
<1>1. \A i \in 5 .. 9 : Rank(Steps[i]) = i - 4
  <2>1. \A i \in 5 .. 9 : i = 5 \/ i = 6 \/ i = 7 \/ i = 8 \/ i = 9
    OBVIOUS
  <2>2. /\ Rank(Steps[5]) = 1 /\ Rank(Steps[6]) = 2 /\ Rank(Steps[7]) = 3
        /\ Rank(Steps[8]) = 4 /\ Rank(Steps[9]) = 5
    BY StepsFacts, RankFacts, Zenon
  <2> QED BY <2>1, <2>2
<1>2. \A i \in 1 .. 4 : Steps[i] \in {"read", "store"}
  <2>1. \A i \in 1 .. 4 : i = 1 \/ i = 2 \/ i = 3 \/ i = 4
    OBVIOUS
  <2> QED BY <2>1, StepsFacts
<1>3. Rank("read") = 6 /\ Rank("store") = 6
  BY DEF Rank
<1>4. \A i \in 1 .. 9 : i \in 1 .. 4 \/ i \in 5 .. 9
  OBVIOUS
<1>5. "read" \notin EventLines \cup {"ledger", "diff"}
      /\ "store" \notin EventLines \cup {"ledger", "diff"}
  BY DEF EventLines
<1>6. \A i \in 1 .. 4 : Rank(Steps[i]) = 6
  BY <1>2, <1>3
<1>7. \A i \in 5 .. 9, j \in 1 .. 9 : Steps[i] = Steps[j] => i = j
  <2> SUFFICES ASSUME NEW i \in 5 .. 9, NEW j \in 1 .. 9, Steps[i] = Steps[j] PROVE i = j
    OBVIOUS
  <2>1. Rank(Steps[i]) = i - 4 /\ Rank(Steps[j]) = i - 4 /\ i - 4 # 6
    BY <1>1
  <2>2. j \in 5 .. 9
    BY <1>4, <1>6, <2>1
  <2>3. Rank(Steps[j]) = j - 4
    BY <1>1, <2>2
  <2> QED BY <2>1, <2>3
<1>8. \A i \in 1 .. 9 : Steps[i] \in EventLines \cup {"ledger", "diff"} => i \in 5 .. 9
  BY <1>2, <1>4, <1>5
<1>9. \A i \in 1 .. 9 : Steps[i] = "ledger" <=> i = 5
  <2>1. Steps[5] = "ledger"
    BY StepsFacts
  <2> QED BY <1>7, <2>1
<1> QED BY <1>7, <1>8, <1>9

\* A new line of a dispatch is counted as what it is.
LEMMA LineCounted ==
    ASSUME NEW d, NEW S, IsFiniteSet(S), IsFiniteSet(WarnedAmong(S)), Busy(d), d.at \in 5 .. 9,
           Unwritten(d, S),
           NEW l, l[1] = Steps[d.at], l[2] = <<d.call, d.level>>
    PROVE  /\ IsFiniteSet(S \cup {l}) /\ IsFiniteSet(WarnedAmong(S \cup {l}))
           /\ EventCount(S \cup {l}) = EventCount(S) + (IF l[1] \in EventLines THEN 1 ELSE 0)
           /\ WarningCount(S \cup {l}) = WarningCount(S) + Early(d)
           /\ EventCount(S) \in Nat /\ WarningCount(S) \in Nat
<1>0. d.at \in 1 .. 9 /\ ~(d.at < d.at)
  OBVIOUS
<1>1. l \notin S
  BY <1>0, Zenon DEF Unwritten
<1> DEFINE T == {l}
<1>2. IsFiniteSet(T) /\ S \cap T = {}
  BY <1>1, FS_Singleton
<1>3. Cardinality(EventsAmong(T)) = IF l[1] \in EventLines THEN 1 ELSE 0
  BY EventsOfOne
<1>4. \A x \in T : x = l
  OBVIOUS
<1>5. l \in T
  OBVIOUS
<1> HIDE DEF T
<1>6. IsFiniteSet(S \cup T)
  BY <1>2, CardinalityOfBoth
<1>7. EventCount(S \cup T) = EventCount(S) + (IF l[1] \in EventLines THEN 1 ELSE 0)
  BY <1>2, <1>3, EventsOfMore DEF EventCount
<1>8. IsFiniteSet(WarnedAmong(S \cup T)) /\ WarningCount(S \cup T) = WarningCount(S) + Early(d)
  <2>1. WarningCount(S) \in Nat
    BY FS_CardinalityType DEF WarningCount
  <2>2. CASE d.at = 5
    <3> DEFINE row == <<d.call, d.level>>
    <3>1. row[2] = d.level
      OBVIOUS
    <3>2. l[2] = row
      OBVIOUS
    <3>3. \A x \in S : x[1] = "ledger" => x[2] # row
      <4>1. ~(5 < d.at) /\ 5 \in 1 .. 9
        BY <2>2
      <4>2. Steps[5] = "ledger"
        BY StepsFacts, Zenon
      <4> QED BY <4>1, <4>2, Zenon DEF Unwritten
    <3> HIDE DEF row
    <3>4. WarningsOf(row) = RuntimeWarnings
      BY <3>1 DEF WarningsOf, Busy, Wrappers
    <3>5. IsFiniteSet(WarningsOf(row)) /\ WarningsIn(row) = 2
      BY <3>4, RuntimeWarningsAreTwo DEF WarningsIn
    <3>6. l[1] = "ledger"
      BY <2>2, StepsFacts
    <3>7. /\ IsFiniteSet(WarnedAmong(S \cup T))
          /\ Cardinality(WarnedAmong(S \cup T)) = Cardinality(WarnedAmong(S)) + WarningsIn(row)
      <4>1. /\ \E x \in T : x[1] = "ledger"
            /\ \A x \in T : x[1] = "ledger" => x[2] = row
        BY <1>4, <1>5, <3>2, <3>6
      <4> QED BY <3>3, <3>5, <4>1, WarnedOfMore
    <3>8. Early(d) = 2
      BY <2>2 DEF Early
    <3> QED BY <3>5, <3>7, <3>8 DEF WarningCount
  <2>3. CASE d.at # 5
    <3>1. l[1] # "ledger"
      BY <2>3, StepsDiffer
    <3>2. WarnedAmong(T) = {}
      BY <1>4, <3>1, WarnedWithoutLedger
    <3>3. WarnedAmong(S \cup T) = WarnedAmong(S)
      BY <3>2, WarnedOfUnion
    <3>4. Early(d) = 0
      BY <2>3 DEF Early
    <3> QED BY <2>1, <3>3, <3>4 DEF WarningCount
  <2> QED BY <2>2, <2>3
<1> QED BY <1>6, <1>7, <1>8, EventsAreFinite, FS_CardinalityType DEF T, EventCount, WarningCount

\* After it, the later lines of the dispatch are still to be written.
LEMMA UnwrittenNext ==
    ASSUME NEW d, NEW e, NEW S, Unwritten(d, S), d.at \in 5 .. 9,
           e.call = d.call, e.level = d.level, e.at = d.at + 1,
           NEW l, l[1] = Steps[d.at], l[2] = <<d.call, d.level>>
    PROVE  Unwritten(e, S \cup {l})
<1>1. ASSUME NEW x \in S
      PROVE  /\ x[2] = <<e.call, e.level>> => \A j \in 1 .. 9 : x[1] = Steps[j] => j < e.at
             /\ e.level = "environment" => x[2] # <<e.call, "toolkit">>
  BY DEF Unwritten
<1>2. \A j \in 1 .. 9 : l[1] = Steps[j] => j < e.at
  <2>1. \A j \in 1 .. 9 : l[1] = Steps[j] => d.at = j
    BY StepsDiffer, Zenon
  <2>2. d.at < e.at
    OBVIOUS
  <2> QED BY <2>1, <2>2, Zenon
<1>3. e.level = "environment" => l[2] # <<e.call, "toolkit">>
  <2>1. <<d.call, d.level>>[2] = d.level /\ <<e.call, "toolkit">>[2] = "toolkit"
    OBVIOUS
  <2> QED BY <2>1
<1> QED BY <1>1, <1>2, <1>3 DEF Unwritten

\* A dispatch that has not come to its first line and goes on.
LEMMA UnwrittenBefore ==
    ASSUME NEW d, NEW e, NEW S, Unwritten(d, S), d.at \in 1 .. 9, e.at \in 1 .. 9, d.at <= e.at,
           e.call = d.call, e.level = d.level
    PROVE  Unwritten(e, S)
BY DEF Unwritten

\* A step of the traced process while its calls go on: with e for the dispatch.
LEMMA TracedGoesOn ==
    ASSUME Observing, TracedCounts, FinalCounts, child = "running",
           UNCHANGED <<launcher, args, child, files>>, NEW e, dispatch'[1] = e,
           IsFiniteSet(Lines'), IsFiniteSet(WarnedAmong(Lines')),
           ~broken' => buffer' = {},
           Busy(e) => Unwritten(e, Lines'),
           event_count' = EventCount(Lines'),
           warning_counts' = WarningCount(Lines') + Early(e),
           Current(e, warning_counts')
    PROVE  (Observing => TracedCounts /\ FinalCounts)'
<1>1. ~Recorded' /\ Observing' /\ Threads' = Threads
  BY DEF FinalCounts, Recorded, Observing, Threads
<1>2. EventCount(Lines)' = EventCount(Lines') /\ WarningCount(Lines)' = WarningCount(Lines')
      /\ WarnedAmong(Lines)' = WarnedAmong(Lines')
  BY DEF EventCount, WarningCount, Lines, EventsAmong, WarnedAmong
<1>3. (Busy(dispatch[1]) => Unwritten(dispatch[1], Lines))'
  BY DEF Busy, Unwritten, Lines, Steps
<1>4. Early(dispatch[1])' = Early(e)
      /\ (Current(dispatch[1], warning_counts)' <=> Current(e, warning_counts'))
  BY DEF Early, Current
<1>5. TracedCounts'
  BY <1>1, <1>2, <1>3, <1>4 DEF TracedCounts
<1>6. FinalCounts'
  BY <1>1 DEF FinalCounts
<1> QED BY <1>5, <1>6

\* An idle dispatch counts for nothing.
LEMMA IdleCounts ==
    /\ Early(Idle) = 0 /\ \A w : Current(Idle, w)
    /\ ~Busy(Idle)
BY IdleIsNotBusy DEF Idle, Early, Current

\* The steps of the one thread of an observed process.
LEMMA TracedSimulation ==
    ASSUME Observing, TracedCounts, FinalCounts, Dispatches(dispatch), Accounted,
           Threads = {1}, Simulation(1)
    PROVE  (Observing => TracedCounts /\ FinalCounts)'
<1> DEFINE d == dispatch[1]
<1>0. 1 \in Threads /\ IsDispatch(d) /\ 0 \notin 1 .. 9 /\ DOMAIN dispatch = {1}
  BY DEF Dispatches
<1>1. child = "running" /\ UNCHANGED <<launcher, args, child, files>>
  BY DEF Simulation, Dispatch, ReadCount, StoreCount, WriteLine, LineFails, Respond,
         UseTool, InStep, command, process, results
<1>2. /\ IsFiniteSet(Lines) /\ IsFiniteSet(WarnedAmong(Lines))
      /\ ~broken => buffer = {}
      /\ Busy(d) => Unwritten(d, Lines)
      /\ event_count = EventCount(Lines)
      /\ warning_counts = WarningCount(Lines) + Early(d)
      /\ Current(d, warning_counts)
  BY <1>1 DEF TracedCounts
<1>3. EventCount(Lines) \in Nat /\ WarningCount(Lines) \in Nat
  BY <1>2, EventsAreFinite, FS_CardinalityType DEF EventCount, WarningCount
\* Without a new line.
<1>4. ASSUME NEW e, dispatch' = [dispatch EXCEPT ![1] = e], UNCHANGED <<disk, buffer, broken>>,
             UNCHANGED event_count,
             Busy(e) => Unwritten(e, Lines),
             warning_counts' = WarningCount(Lines) + Early(e), Current(e, warning_counts')
      PROVE  (Observing => TracedCounts /\ FinalCounts)'
  <2>1. Lines' = Lines /\ dispatch'[1] = e
    BY <1>0, <1>4 DEF Lines
  <2> QED BY <1>1, <1>2, <1>4, <2>1, TracedGoesOn
<1>5. ASSUME EndCall(1, "refused") \/ EndCall(1, "ran"), Early(d) = 0,
             UNCHANGED <<disk, buffer, broken, event_count, warning_counts>>
      PROVE  (Observing => TracedCounts /\ FinalCounts)'
  <2>1. dispatch' = [dispatch EXCEPT ![1] = Idle]
    BY <1>5 DEF EndCall
  <2> QED BY <1>2, <1>4, <1>5, <2>1, IdleCounts
<1>6. CASE Dispatch(1)
  <2>1. PICK hinted \in BOOLEAN, path \in {"response", "direct"} :
          dispatch' = [dispatch EXCEPT ![1] =
               [call |-> Len(calls) + 1, at |-> StartAt(hinted), seen |-> 0,
                level |-> IF path = "response" THEN "environment" ELSE "toolkit"]]
    BY <1>6 DEF Dispatch
  <2> DEFINE k == Len(calls) + 1
             e == [call |-> k, at |-> StartAt(hinted), seen |-> 0,
                   level |-> IF path = "response" THEN "environment" ELSE "toolkit"]
  <2>2. /\ UNCHANGED <<disk, buffer, broken, event_count, warning_counts>> /\ d = Idle
    BY <1>6 DEF Dispatch, observer, results
  <2>3. e.call = k /\ e.at = StartAt(hinted) /\ e.level \in Wrappers
    BY DEF Wrappers
  <2>4. k \notin DOMAIN calls
    BY DEF Accounted
  <2>5. dispatch' = [dispatch EXCEPT ![1] = e]
    BY <2>1
  <2> HIDE DEF k, e
  <2>6. Unwritten(e, Lines)
    <3>1. ASSUME NEW l \in Lines, NEW level \in Wrappers PROVE l[2] # <<k, level>>
      <4>1. IsAbout(l, calls)
        BY DEF Accounted, Lines
      <4>2. <<k, level>>[1] = k /\ <<k, level>>[2] = level
        OBVIOUS
      <4> QED BY <2>4, <4>1, <4>2 DEF IsAbout
    <3>2. "toolkit" \in Wrappers
      BY DEF Wrappers
    <3> QED BY <2>3, <3>1, <3>2, Zenon DEF Unwritten
  <2>7. Early(e) = 0 /\ e.at \notin {2, 4}
    BY <2>3 DEF StartAt, Over, Early
  <2>8. Early(d) = 0
    BY <2>2, IdleCounts
  <2>9. Current(e, warning_counts')
    BY <2>7 DEF Current
  <2> QED BY <1>2, <1>4, <2>2, <2>5, <2>6, <2>7, <2>8, <2>9
<1>7. CASE ReadCount(1)
  <2> DEFINE e == [d EXCEPT !.at = @ + 1, !.seen = warning_counts]
  <2>1. d.at \in 1 .. 9 /\ Steps[d.at] = "read"
    BY <1>7, StepsFacts DEF ReadCount, InStep
  <2>2. d.at \in {1, 3}
    <3>1. d.at \in 1 .. 4
      BY <2>1, CountingSteps
    <3>2. d.at # 2 /\ d.at # 4
      BY <2>1, StepsFacts
    <3> QED BY <3>1, <3>2
  <2>3. e.at = d.at + 1 /\ e.call = d.call /\ e.level = d.level /\ e.seen = warning_counts
    BY <1>0 DEF IsDispatch
  <2>4. dispatch' = [dispatch EXCEPT ![1] = e]
        /\ UNCHANGED <<disk, buffer, broken, event_count, warning_counts>>
    BY <1>7 DEF ReadCount, observer, results
  <2> HIDE DEF e
  <2>5. Busy(d)
    BY <1>0, <2>1, BusyFacts
  <2>6. Unwritten(e, Lines)
    <3>1. e.at \in 1 .. 9 /\ d.at <= e.at
      BY <2>2, <2>3
    <3> QED BY <1>2, <2>1, <2>3, <2>5, <3>1, UnwrittenBefore
  <2>7. Early(e) = Early(d)
    BY <2>2, <2>3 DEF Early
  <2>8. Current(e, warning_counts')
    BY <2>3, <2>4 DEF Current
  <2> QED BY <1>2, <1>4, <2>4, <2>6, <2>7, <2>8
<1>8. CASE StoreCount(1)
  <2> DEFINE e == [d EXCEPT !.at = @ + 1]
  <2>1. d.at \in 1 .. 9 /\ Steps[d.at] = "store"
    BY <1>8, StepsFacts DEF StoreCount, InStep
  <2>2. d.at \in {2, 4}
    <3>1. d.at \in 1 .. 4
      BY <2>1, CountingSteps
    <3>2. d.at # 1 /\ d.at # 3
      BY <2>1, StepsFacts
    <3> QED BY <3>1, <3>2
  <2>3. e.at = d.at + 1 /\ e.call = d.call /\ e.level = d.level
    BY <1>0 DEF IsDispatch
  <2>4. /\ dispatch' = [dispatch EXCEPT ![1] = e] /\ warning_counts' = d.seen + 1
        /\ UNCHANGED <<disk, buffer, broken, event_count>>
    BY <1>8 DEF StoreCount, results
  <2> HIDE DEF e
  <2>5. Busy(d)
    BY <1>0, <2>1, BusyFacts
  <2>6. Unwritten(e, Lines)
    <3>1. e.at \in 1 .. 9 /\ d.at <= e.at
      BY <2>2, <2>3
    <3> QED BY <1>2, <2>1, <2>3, <2>5, <3>1, UnwrittenBefore
  <2>7. Early(e) = Early(d) + 1
    BY <2>2, <2>3 DEF Early
  <2>8. d.seen = warning_counts
    BY <1>2, <2>2 DEF Current
  <2>9. Early(d) \in Nat
    BY DEF Early
  <2>10. warning_counts' = WarningCount(Lines) + Early(e)
    BY <1>2, <1>3, <2>4, <2>7, <2>8, <2>9
  <2>11. Current(e, warning_counts')
    BY <2>2, <2>3 DEF Current
  <2> QED BY <1>4, <2>4, <2>6, <2>10, <2>11
<1>9. ASSUME d.at \in 1 .. 9, Steps[d.at] \in EventLines \cup {"ledger", "diff"},
             disk' \cup buffer' = Lines \cup {Line(1)}, CountEvent(Line(1)[1]),
             UNCHANGED warning_counts, ~broken' => buffer' = {},
             NEW e, dispatch' = [dispatch EXCEPT ![1] = e],
             e = Idle \/ (e.at = d.at + 1 /\ e.call = d.call /\ e.level = d.level)
      PROVE  (Observing => TracedCounts /\ FinalCounts)'
  <2> DEFINE l == Line(1)
  <2>1. l[1] = Steps[d.at] /\ l[2] = <<d.call, d.level>>
    <3> DEFINE row == <<d.call, d.level>>
    <3>1. l = <<Steps[d.at], row>>
      BY DEF Line
    <3> HIDE DEF row
    <3>2. l[1] = Steps[d.at] /\ l[2] = row
      BY <3>1
    <3> QED BY <3>2 DEF row
  <2> HIDE DEF l
  <2>2. d.at \in 5 .. 9
    BY <1>9, StepsDiffer
  <2>3. Busy(d) /\ Unwritten(d, Lines)
    BY <1>0, <1>2, <1>9, BusyFacts
  <2>4. /\ IsFiniteSet(Lines \cup {l}) /\ IsFiniteSet(WarnedAmong(Lines \cup {l}))
        /\ EventCount(Lines \cup {l}) = EventCount(Lines) + (IF l[1] \in EventLines THEN 1 ELSE 0)
        /\ WarningCount(Lines \cup {l}) = WarningCount(Lines) + Early(d)
    BY <1>2, <2>1, <2>2, <2>3, LineCounted
  <2>5. Lines' = Lines \cup {l}
    BY <1>9 DEF Lines, l
  <2>6. event_count' = EventCount(Lines')
    BY <1>2, <1>9, <2>4, <2>5 DEF CountEvent, l
  <2>7. Early(e) = 0 /\ Current(e, warning_counts')
    <3>1. CASE e = Idle
      BY <3>1, IdleCounts
    <3>2. CASE e.at = d.at + 1
      <4>1. e.at \notin {2, 3, 4, 5}
        BY <2>2, <3>2
      <4> QED BY <4>1 DEF Early, Current
    <3> QED BY <1>9, <3>1, <3>2
  <2>8. Busy(e) => Unwritten(e, Lines')
    <3>1. CASE e = Idle
      BY <3>1, IdleCounts
    <3>2. CASE e.at = d.at + 1 /\ e.call = d.call /\ e.level = d.level
      BY <2>1, <2>2, <2>3, <2>5, <3>2, UnwrittenNext
    <3> QED BY <1>9, <3>1, <3>2
  <2>9. warning_counts' = WarningCount(Lines') + Early(e)
    <3>1. WarningCount(Lines') = warning_counts'
      BY <1>2, <1>9, <2>4, <2>5
    <3>2. WarningCount(Lines') \in Nat
      BY <2>4, <2>5, FS_CardinalityType DEF WarningCount
    <3> QED BY <2>7, <3>1, <3>2
  <2>10. dispatch'[1] = e
    BY <1>0, <1>9
  <2> QED BY <1>1, <1>9, <2>4, <2>5, <2>6, <2>7, <2>8, <2>9, <2>10, TracedGoesOn
<1>10. CASE WriteLine(1)
  <2> DEFINE e == [d EXCEPT !.at = @ + 1]
  <2>1. d.at \in 1 .. 9 /\ Steps[d.at] \in EventLines \cup {"ledger", "diff"}
    BY <1>10, StepsFacts DEF WriteLine, InStep
  <2>2. e.at = d.at + 1 /\ e.call = d.call /\ e.level = d.level
    BY <1>0 DEF IsDispatch
  <2>3. /\ dispatch' = [dispatch EXCEPT ![1] = e] /\ UNCHANGED <<broken, warning_counts>>
        /\ disk' = disk \cup HeldWith(Line(1)[1]) \cup {Line(1)}
        /\ buffer' = buffer \ HeldWith(Line(1)[1])
        /\ CountEvent(Line(1)[1])
    BY <1>10 DEF WriteLine, results
  <2>4. HeldWith(Line(1)[1]) \subseteq buffer
    BY DEF HeldWith
  <2>5. disk' \cup buffer' = Lines \cup {Line(1)}
    BY <2>3, <2>4 DEF Lines
  <2>6. ~broken' => buffer' = {}
    BY <1>2, <2>3
  <2> HIDE DEF e
  <2> QED BY <1>9, <2>1, <2>2, <2>3, <2>5, <2>6
<1>11. CASE LineFails(1)
  <2>1. d.at \in 1 .. 9 /\ Steps[d.at] \in EventLines \cup {"ledger", "diff"}
    BY <1>11, StepsFacts DEF LineFails, InStep
  <2>2. /\ dispatch' = [dispatch EXCEPT ![1] = Idle] /\ UNCHANGED <<disk, warning_counts>>
        /\ buffer' = buffer \cup {Line(1)} /\ CountEvent(Line(1)[1]) /\ broken' = TRUE
    BY <1>11 DEF LineFails, EndCall
  <2>3. disk' \cup buffer' = Lines \cup {Line(1)}
    BY <2>2 DEF Lines
  <2> QED BY <1>9, <2>1, <2>2, <2>3
<1>12. CASE Respond(1)
  <2>1. /\ d.at = Over /\ d.level = "environment"
        /\ UNCHANGED <<disk, buffer, broken, event_count, warning_counts>>
    BY <1>12 DEF Respond, observer, results
  <2>2. Early(d) = 0
    BY <2>1 DEF Early, Over
  <2>3. CASE EndCall(1, "refused")
    BY <1>5, <2>1, <2>2, <2>3
  <2>4. CASE dispatch' = [dispatch EXCEPT ![1].level = "toolkit", ![1].seen = 0,
                            ![1].at = StartAt(calls[dispatch[1].call].hinted)]
    <3> DEFINE a == StartAt(calls[dispatch[1].call].hinted)
               e == [d EXCEPT !.level = "toolkit", !.seen = 0, !.at = a]
    <3>1. e.at = a /\ e.call = d.call /\ e.level = "toolkit"
      BY <1>0 DEF IsDispatch
    <3>2. dispatch' = [dispatch EXCEPT ![1] = e]
      BY <2>4
    <3>3. a \in {1, Over}
      BY DEF StartAt
    <3> HIDE DEF e, a
    <3>4. Busy(d)
      BY <2>1 DEF Busy, Wrappers
    <3>5. Unwritten(e, Lines)
      <4>1. \A l \in Lines : l[2] # <<d.call, "toolkit">>
        BY <1>2, <2>1, <3>4 DEF Unwritten
      <4> QED BY <3>1, <4>1 DEF Unwritten
    <3>6. Early(e) = 0 /\ Current(e, warning_counts')
      BY <3>1, <3>3 DEF Early, Current, Over
    <3> QED BY <1>2, <1>4, <2>1, <2>2, <3>2, <3>5, <3>6
  <2> QED BY <1>12, <2>3, <2>4 DEF Respond
<1>13. CASE UseTool(1)
  <2>1. d.at = Over /\ EndCall(1, "ran")
        /\ UNCHANGED <<disk, buffer, broken, event_count, warning_counts>>
    BY <1>13 DEF UseTool, observer, results
  <2>2. Early(d) = 0
    BY <2>1 DEF Early, Over
  <2> QED BY <1>5, <2>1, <2>2
<1> QED BY <1>6, <1>7, <1>8, <1>10, <1>11, <1>12, <1>13 DEF Simulation

\* Where the process comes to when it is observed, and when it is not.
LEMMA AfterFacts ==
    /\ After("hook map") = IF Observing THEN "observer final" ELSE "final"
    /\ After("observer final") = "observer close" /\ After("observer close") = "final"
    /\ After("final") = "summary" /\ After("summary") = "exited"
<1>1. After("hook map") = IF Observing THEN "observer final" ELSE "final"
  BY Zenon DEF After
<1>2. After("observer final") = "observer close"
  BY Zenon DEF After
<1>3. After("observer close") = "final"
  BY Zenon DEF After
<1>4. After("final") = "summary"
  BY Zenon DEF After
<1>5. After("summary") = "exited"
  BY Zenon DEF After
<1> QED BY <1>1, <1>2, <1>3, <1>4, <1>5

\* What happens to the observer's state file when a step does not end.
LEMMA PartialStays ==
    ASSUME DOMAIN files = {"final", "summary", "observer"},
           files' = IF WritesStatus(child) THEN [files EXCEPT ![FileIn(child)] = Partial]
                    ELSE files
    PROVE  files'["observer"] \in {files["observer"], Partial}
<1>1. CASE ~WritesStatus(child)
  BY <1>1
<1>2. CASE WritesStatus(child)
  <2>1. FileIn(child) \in {"final", "observer"}
    BY <1>2 DEF WritesStatus, FileIn
  <2> QED BY <1>2, <2>1
<1> QED BY <1>1, <1>2

\* The process at its end, when it is observed: lines come out or are lost, none is
\* written.
LEMMA TracedClosing ==
    ASSUME Observing, TracedCounts, FinalCounts, Dispatches(dispatch),
           DOMAIN files = {"final", "summary", "observer"},
           Threads = {1}, Tau2Ends \/ CloseStep \/ CloseFails
    PROVE  (Observing => TracedCounts /\ FinalCounts)'
<1> DEFINE d == dispatch[1]
<1>1. /\ IsFiniteSet(Lines) /\ IsFiniteSet(WarnedAmong(Lines)) /\ 1 \in Threads
      /\ ~broken => buffer = {}
      /\ Busy(d) => Unwritten(d, Lines)
      /\ child # "running" => d = Idle
      /\ child \notin {"exited", "killed"} =>
             /\ event_count = EventCount(Lines)
             /\ warning_counts = WarningCount(Lines) + Early(d)
  BY DEF TracedCounts
<1>2. EventCount(Lines) \in Nat /\ WarningCount(Lines) \in Nat
  BY <1>1, EventsAreFinite, FS_CardinalityType DEF EventCount, WarningCount
<1>3. UNCHANGED <<launcher, args, dispatch, warning_counts, event_count>>
  BY DEF Tau2Ends, CloseStep, CloseFails, command, observer
<1>4. Observing' /\ (1 \in Threads)' /\ launcher = "traced"
  BY <1>1, <1>3 DEF Observing, Threads
<1>5. d = Idle /\ child \notin {"exited", "killed"} /\ child' # "running"
  <2>1. CASE Tau2Ends
    BY <1>4, <2>1 DEF Tau2Ends
  <2>2. CASE CloseStep
    <3>1. child' \in {"observer final", "observer close", "final", "summary", "exited"}
      BY <1>4, <2>2, AfterFacts DEF CloseStep, ClosingSteps
    <3> QED BY <1>1, <2>2, <3>1 DEF CloseStep, ClosingSteps
  <2>3. CASE CloseFails
    BY <1>1, <2>3 DEF CloseFails, ClosingSteps
  <2> QED BY <2>1, <2>2, <2>3
<1>6. warning_counts = WarningCount(Lines) /\ event_count = EventCount(Lines)
  BY <1>1, <1>2, <1>5, IdleCounts
\* With the same lines.
<1>7. ASSUME Lines' = Lines, ~broken' => buffer' = {}, FinalCounts'
      PROVE  (Observing => TracedCounts /\ FinalCounts)'
  <2>1. EventCount(Lines)' = EventCount(Lines) /\ WarningCount(Lines)' = WarningCount(Lines)
        /\ WarnedAmong(Lines)' = WarnedAmong(Lines)
    BY <1>7 DEF EventCount, WarningCount, EventsAmong, WarnedAmong
  <2>2. ~Busy(dispatch[1])' /\ Early(dispatch[1])' = 0
        /\ Current(dispatch[1], warning_counts)'
    BY <1>3, <1>5, IdleCounts DEF Busy, Early, Current
  <2>3. TracedCounts'
    BY <1>1, <1>2, <1>3, <1>4, <1>5, <1>6, <1>7, <2>1, <2>2 DEF TracedCounts
  <2> QED BY <1>7, <2>3
<1>8. CASE Tau2Ends
  <2>1. UNCHANGED <<disk, buffer, files>> /\ child = "running"
        /\ (broken' = broken \/ broken' = TRUE)
    BY <1>8 DEF Tau2Ends, observer
  <2>2. ~Recorded'
    BY <1>4, <2>1 DEF FinalCounts, Recorded
  <2>3. FinalCounts'
    BY <2>2 DEF FinalCounts
  <2> QED BY <1>1, <1>7, <2>1, <2>3 DEF Lines
<1>9. CASE CloseStep
  <2>1. /\ Lines' = Lines /\ UNCHANGED broken /\ buffer' \subseteq buffer
        /\ child \in ClosingSteps /\ child' = After(child)
    BY <1>9 DEF CloseStep, Lines
  <2>2. EventCount(Lines)' = EventCount(Lines) /\ WarningCount(Lines)' = WarningCount(Lines)
    BY <2>1 DEF EventCount, WarningCount, EventsAmong, WarnedAmong
  <2>3. FinalCounts'
    <3>1. CASE child = "observer final"
      <4>1. counted' = [warnings |-> warning_counts, events |-> event_count]
        BY <1>9, <3>1 DEF CloseStep
      <4>2. child' = "observer close"
        BY <2>1, <3>1, AfterFacts
      <4>3. counted'.events \in Nat /\ counted'.warnings \in Nat
            /\ EventCount(Lines)' <= counted'.events /\ WarningCount(Lines)' <= counted'.warnings
            /\ counted' = [warnings |-> WarningCount(Lines)', events |-> EventCount(Lines)']
        BY <1>2, <1>6, <2>2, <4>1
      <4> QED BY <1>3, <1>4, <4>2, <4>3 DEF FinalCounts
    <3>2. CASE child # "observer final"
      <4>1. counted' = counted /\ files'["observer"] = files["observer"]
        BY <1>9, <3>2 DEF CloseStep, WritesStatus, FileIn
      <4>2. Recorded => child' \in {"observer close", "final", "summary", "exited", "killed"}
        BY <1>4, <2>1, AfterFacts DEF FinalCounts, ClosingSteps
      <4> QED BY <1>3, <1>4, <2>1, <2>2, <4>1, <4>2 DEF FinalCounts, Recorded
    <3> QED BY <3>1, <3>2
  <2> QED BY <1>1, <1>7, <2>1, <2>3
<1>10. CASE CloseFails
  <2>1. /\ Lines' \subseteq Lines /\ broken' /\ child' = "exited" /\ UNCHANGED counted
        /\ files' = IF WritesStatus(child) THEN [files EXCEPT ![FileIn(child)] = Partial]
                    ELSE files
    BY <1>10 DEF CloseFails, Lines
  <2>2. /\ IsFiniteSet(Lines') /\ IsFiniteSet(WarnedAmong(Lines'))
        /\ EventCount(Lines') <= EventCount(Lines) /\ WarningCount(Lines') <= WarningCount(Lines)
        /\ EventCount(Lines') \in Nat /\ WarningCount(Lines') \in Nat
    BY <1>1, <2>1, FewerLines
  <2>3. EventCount(Lines)' = EventCount(Lines') /\ WarningCount(Lines)' = WarningCount(Lines')
        /\ WarnedAmong(Lines)' = WarnedAmong(Lines')
    BY DEF EventCount, WarningCount, EventsAmong, WarnedAmong
  <2>4. ~Busy(dispatch[1])'
    BY <1>3, <1>5, IdleCounts DEF Busy
  <2>5. TracedCounts'
    BY <1>3, <1>4, <1>5, <2>1, <2>2, <2>3, <2>4 DEF TracedCounts
  <2>6. Recorded' => Recorded
    BY <2>1, PartialStays DEF Recorded
  <2>7. FinalCounts'
    <3> SUFFICES ASSUME Recorded'
                 PROVE  /\ counted.events \in Nat /\ EventCount(Lines') <= counted.events
                        /\ counted.warnings \in Nat
                        /\ WarningCount(Lines') <= counted.warnings
      BY <1>3, <1>4, <2>1, <2>3 DEF FinalCounts
    <3>1. /\ counted.events \in Nat /\ EventCount(Lines) <= counted.events
          /\ counted.warnings \in Nat /\ WarningCount(Lines) <= counted.warnings
      BY <1>4, <2>6 DEF FinalCounts
    <3> QED BY <1>2, <2>2, <3>1
  <2> QED BY <2>5, <2>7
<1> QED BY <1>8, <1>9, <1>10

\* A kill, of the process that is observed.
LEMMA TracedKilled ==
    ASSUME Observing, TracedCounts, FinalCounts, Dispatches(dispatch),
           DOMAIN files = {"final", "summary", "observer"}, Killed, child' = "killed"
    PROVE  (Observing => TracedCounts /\ FinalCounts)'
<1>1. /\ IsFiniteSet(Lines) /\ IsFiniteSet(WarnedAmong(Lines)) /\ 1 \in Threads
      /\ ~broken => buffer = {}
  BY DEF TracedCounts
<1>2. /\ UNCHANGED <<launcher, args, disk, counted, broken>> /\ buffer' = {}
      /\ dispatch'[1] = Idle
      /\ files' = IF WritesStatus(child) THEN [files EXCEPT ![FileIn(child)] = Partial]
                  ELSE files
  BY <1>1 DEF Killed, Dispatches
<1>3. Observing' /\ (1 \in Threads)' /\ launcher = "traced"
  BY <1>1, <1>2 DEF Observing, Threads
<1>4. Lines' \subseteq Lines /\ (~broken => Lines' = Lines)
  BY <1>1, <1>2 DEF Lines
<1>5. /\ IsFiniteSet(Lines') /\ IsFiniteSet(WarnedAmong(Lines'))
      /\ EventCount(Lines') <= EventCount(Lines) /\ WarningCount(Lines') <= WarningCount(Lines)
      /\ EventCount(Lines') \in Nat /\ WarningCount(Lines') \in Nat
      /\ EventCount(Lines) \in Nat /\ WarningCount(Lines) \in Nat
  BY <1>1, <1>4, FewerLines
<1>6. EventCount(Lines)' = EventCount(Lines') /\ WarningCount(Lines)' = WarningCount(Lines')
      /\ WarnedAmong(Lines)' = WarnedAmong(Lines')
  BY DEF EventCount, WarningCount, EventsAmong, WarnedAmong
<1>7. ~Busy(dispatch[1])'
  BY <1>2, IdleCounts DEF Busy
<1>8. TracedCounts'
  BY <1>2, <1>3, <1>5, <1>6, <1>7 DEF TracedCounts
<1>9. FinalCounts'
  <2> SUFFICES ASSUME Recorded'
               PROVE  /\ counted.events \in Nat /\ EventCount(Lines') <= counted.events
                      /\ counted.warnings \in Nat /\ WarningCount(Lines') <= counted.warnings
                      /\ ~broken => counted = [warnings |-> WarningCount(Lines'),
                                               events |-> EventCount(Lines')]
    BY <1>2, <1>3, <1>6 DEF FinalCounts
  <2>1. Recorded
    BY <1>2, PartialStays DEF Recorded
  <2>2. /\ counted.events \in Nat /\ EventCount(Lines) <= counted.events
        /\ counted.warnings \in Nat /\ WarningCount(Lines) <= counted.warnings
        /\ ~broken => counted = [warnings |-> WarningCount(Lines),
                                 events |-> EventCount(Lines)]
    BY <1>3, <2>1 DEF FinalCounts
  <2>3. EventCount(Lines') <= counted.events /\ WarningCount(Lines') <= counted.warnings
    BY <1>5, <2>2
  <2> QED BY <1>4, <2>2, <2>3
<1> QED BY <1>8, <1>9

\* The launcher looks at neither: what it starts has no dispatch yet.
LEMMA TracedLauncher ==
    ASSUME Observing, TracedCounts, FinalCounts,
           UNCHANGED <<launcher, args, dispatch, observer, counted, broken>>,
           files'["observer"] = files["observer"],
           child' = child \/ (child = "none" /\ child' = "running")
    PROVE  (Observing => TracedCounts /\ FinalCounts)'
<1>1. Observing' /\ (1 \in Threads)' /\ launcher = "traced" /\ Lines' = Lines
      /\ UNCHANGED <<warning_counts, event_count, buffer>>
  BY DEF Observing, Threads, TracedCounts, Lines, observer
<1>2. EventCount(Lines)' = EventCount(Lines) /\ WarningCount(Lines)' = WarningCount(Lines)
      /\ WarnedAmong(Lines)' = WarnedAmong(Lines)
  BY <1>1 DEF EventCount, WarningCount, EventsAmong, WarnedAmong
<1>3. (Busy(dispatch[1])' <=> Busy(dispatch[1])) /\ Early(dispatch[1])' = Early(dispatch[1])
      /\ (Unwritten(dispatch[1], Lines)' <=> Unwritten(dispatch[1], Lines))
      /\ (Current(dispatch[1], warning_counts)' <=> Current(dispatch[1], warning_counts))
  BY <1>1 DEF Busy, Early, Unwritten, Current, Steps
<1>4. TracedCounts'
  BY <1>1, <1>2, <1>3 DEF TracedCounts
<1>5. FinalCounts'
  BY <1>1, <1>2 DEF FinalCounts, Recorded
<1> QED BY <1>4, <1>5

\* The smoke goes on without writing lines.
LEMMA SmokeGoesOn ==
    ASSUME launcher = "smoke", SmokeCounts, FinalCounts,
           Lines' = Lines, ~broken' => buffer' = {} /\ ~broken,
           UNCHANGED <<launcher, event_count, warning_counts>>,
           pc \in {"observe", "close", "final", "summary", "print", "ended"},
           pc' \in {"close", "final", "summary", "print", "ended"},
           pc \in {"observe", "close"} => files'["observer"] = files["observer"],
           \/ /\ files'["observer"] \in {files["observer"], Partial} /\ counted' = counted
              /\ pc \in {"summary", "print", "ended"} => pc' \in {"summary", "print", "ended"}
           \/ /\ counted' = [warnings |-> warning_counts, events |-> event_count]
              /\ pc' = "summary"
    PROVE  (SmokeCounts /\ FinalCounts)'
<1>1. EventCount(Lines)' = EventCount(Lines) /\ WarningCount(Lines)' = WarningCount(Lines)
      /\ WarnedAmong(Lines)' = WarnedAmong(Lines)
  BY DEF EventCount, WarningCount, EventsAmong, WarnedAmong
<1>2. SmokeCounts'
  BY <1>1 DEF SmokeCounts
<1>3. event_count = EventCount(Lines) /\ EventCount(Lines) \in Nat
      /\ (~broken => warning_counts = WarningCount(Lines))
  BY EventsAreFinite DEF SmokeCounts, EventCount
<1>4. CASE /\ counted' = [warnings |-> warning_counts, events |-> event_count]
           /\ pc' = "summary"
  <2>1. counted'.events = event_count /\ counted'.warnings = warning_counts
    BY <1>4
  <2>2. EventCount(Lines)' <= counted'.events
    BY <1>1, <1>3, <2>1
  <2>3. ~broken' => counted' = [warnings |-> WarningCount(Lines)', events |-> EventCount(Lines)']
    BY <1>1, <1>3, <1>4
  <2>4. launcher' = "smoke" /\ launcher' # "traced"
    OBVIOUS
  <2> QED BY <1>2, <1>3, <1>4, <2>1, <2>2, <2>3, <2>4 DEF FinalCounts
<1>5. CASE /\ files'["observer"] \in {files["observer"], Partial} /\ counted' = counted
           /\ pc \in {"summary", "print", "ended"} => pc' \in {"summary", "print", "ended"}
  <2>1. Recorded' => Recorded
    BY <1>5 DEF Recorded
  <2>2. Recorded' => /\ pc' \in {"summary", "print", "ended"}
                     /\ counted.events \in Nat /\ EventCount(Lines) <= counted.events
                     /\ ~broken => counted = [warnings |-> WarningCount(Lines),
                                              events |-> EventCount(Lines)]
    BY <1>5, <2>1 DEF FinalCounts
  <2>3. launcher' = "smoke" /\ launcher' # "traced"
    OBVIOUS
  <2>4. ~broken' => ~broken
    OBVIOUS
  <2> QED BY <1>1, <1>2, <1>5, <2>2, <2>3, <2>4 DEF FinalCounts
<1> QED BY <1>2, <1>4, <1>5

\* An item of the smoke adds its lines to the files and to the counts.
LEMMA SmokeObserves ==
    ASSUME launcher = "smoke", SmokeCounts, FinalCounts, items \in 0 .. Runtime,
           Observe \/ ObserveFails
    PROVE  (SmokeCounts /\ FinalCounts)'
<1> DEFINE i == items + 1
<1>1. /\ pc = "observe" /\ items < Runtime
      /\ UNCHANGED <<launcher, files>> /\ pc' \in {"observe", "close"}
  BY DEF Observe, ObserveFails, Goto, results
<1>2. /\ ~broken /\ buffer = {} /\ IsFiniteSet(Lines) /\ IsFiniteSet(WarnedAmong(Lines))
      /\ event_count = EventCount(Lines) /\ warning_counts = WarningCount(Lines)
      /\ \A l \in Lines : \E j \in 1 .. items : l[2] = RowOf(j)
  BY <1>1 DEF SmokeCounts
<1>3. FinalCounts'
  <2>1. ~Recorded'
    BY <1>1 DEF FinalCounts, Recorded
  <2> QED BY <2>1 DEF FinalCounts
<1>4. /\ i \in 1 .. Runtime /\ i \notin 1 .. items
  BY <1>1, RuntimeLines
<1>5. \A l \in Lines : l[2] # RowOf(i)
  <2> SUFFICES ASSUME NEW l \in Lines PROVE l[2] # RowOf(i)
    OBVIOUS
  <2>1. PICK j \in 1 .. items : l[2] = RowOf(j)
    BY <1>2
  <2>2. RowOf(j)[1] = j /\ RowOf(i)[1] = i
    BY DEF RowOf
  <2>3. j # i
    BY <1>4
  <2> QED BY <2>1, <2>2, <2>3
\* The first n of its lines.
<1>6. ASSUME NEW n \in 1 .. Len(KindsOf(i))
      PROVE  /\ IsFiniteSet(Lines \cup LinesOf(i, n))
             /\ EventCount(Lines \cup LinesOf(i, n)) = event_count + EventsIn(i, n)
             /\ IsFiniteSet(WarnedAmong(Lines \cup LinesOf(i, n)))
             /\ WarningCount(Lines \cup LinesOf(i, n)) = warning_counts + WarningsIn(RowOf(i))
  <2>0. n \in 0 .. Len(KindsOf(i)) /\ n # 0
    BY KindsDiffer
  <2> DEFINE T == LinesOf(i, n)
             row == RowOf(i)
  <2>1. IsFiniteSet(T) /\ Cardinality(EventsAmong(T)) = EventsIn(i, n)
    BY <2>0, EventsOfItem
  <2>2. (\A l \in T : l[2] = row) /\ \E l \in T : l[1] = "ledger"
    BY <2>0, LinesOfItem
  <2>3. IsFiniteSet(WarningsOf(row))
    BY <1>4, SmokeWarningsAreFinite
  <2>4. \A l \in Lines : l[2] # row
    BY <1>5
  <2> HIDE DEF T, row
  <2>5. Lines \cap T = {}
    BY <2>2, <2>4
  <2>6. IsFiniteSet(Lines \cup T)
    BY <1>2, <2>1, <2>5, CardinalityOfBoth
  <2>7. Cardinality(EventsAmong(Lines \cup T)) =
          Cardinality(EventsAmong(Lines)) + Cardinality(EventsAmong(T))
    BY <1>2, <2>1, <2>5, EventsOfMore
  <2>8. /\ IsFiniteSet(WarnedAmong(Lines \cup T))
        /\ Cardinality(WarnedAmong(Lines \cup T)) =
             Cardinality(WarnedAmong(Lines)) + WarningsIn(row)
    BY <1>2, <2>2, <2>3, <2>4, WarnedOfMore
  <2> QED BY <1>2, <2>1, <2>6, <2>7, <2>8 DEF T, row, EventCount, WarningCount
<1>7. EventCount(Lines)' = EventCount(Lines') /\ WarningCount(Lines)' = WarningCount(Lines')
      /\ WarnedAmong(Lines)' = WarnedAmong(Lines')
  BY DEF EventCount, WarningCount, EventsAmong, WarnedAmong
<1>8. CASE Observe
  <2> DEFINE n == Len(KindsOf(i))
  <2>1. /\ pc' = "observe" /\ items' = i /\ UNCHANGED <<buffer, broken>>
        /\ disk' = disk \cup LinesOf(i, n)
        /\ event_count' = event_count + EventsIn(i, n)
        /\ warning_counts' = warning_counts + WarningsIn(RowOf(i))
    BY <1>8 DEF Observe, Goto, results
  <2>2. n \in 1 .. Len(KindsOf(i)) /\ n \in 0 .. Len(KindsOf(i))
    BY KindsDiffer
  <2> HIDE DEF n
  <2>3. Lines' = Lines \cup LinesOf(i, n)
    BY <2>1 DEF Lines
  <2>4. \A l \in Lines' : \E j \in 1 .. items' : l[2] = RowOf(j)
    <3>1. ASSUME NEW l \in Lines PROVE \E j \in 1 .. items' : l[2] = RowOf(j)
      <4>1. PICK j \in 1 .. items : l[2] = RowOf(j)
        BY <1>2
      <4>2. j \in 1 .. items'
        BY <2>1
      <4> QED BY <4>1, <4>2
    <3>2. \A l \in LinesOf(i, n) : l[2] = RowOf(i)
      BY <2>2, LinesOfItem
    <3>3. i \in 1 .. items'
      BY <1>4, <2>1
    <3> QED BY <2>3, <3>1, <3>2, <3>3
  <2>5. (\A l \in Lines : \E j \in 1 .. items : l[2] = RowOf(j))'
    BY <2>4 DEF RowOf, Runtime
  <2>6. /\ IsFiniteSet(Lines') /\ event_count' = EventCount(Lines')
        /\ IsFiniteSet(WarnedAmong(Lines')) /\ warning_counts' = WarningCount(Lines')
    BY <1>6, <2>1, <2>2, <2>3
  <2> HIDE DEF i
  <2> QED BY <1>2, <1>3, <1>7, <2>1, <2>5, <2>6 DEF SmokeCounts
<1>9. CASE ObserveFails
  <2>1. PICK k \in 1 .. Len(KindsOf(i)) :
          /\ disk' = disk \cup LinesOf(i, k - 1)
          /\ buffer' = {<<KindsOf(i)[k], RowOf(i)>>}
          /\ event_count' = event_count + EventsIn(i, k)
    BY <1>9 DEF ObserveFails
  <2>2. pc' = "close" /\ broken' = TRUE
    BY <1>9 DEF ObserveFails, Goto
  <2>3. k # 0 /\ k \in 0 .. Len(KindsOf(i))
    BY KindsDiffer
  <2>4. LinesOf(i, k) = LinesOf(i, k - 1) \cup {<<KindsOf(i)[k], RowOf(i)>>}
    BY <2>3, LinesOfItem
  <2>5. Lines' = Lines \cup LinesOf(i, k)
    BY <1>2, <2>1, <2>4 DEF Lines
  <2>6. IsFiniteSet(Lines') /\ event_count' = EventCount(Lines')
    BY <1>6, <2>1, <2>5
  <2> HIDE DEF i
  <2> QED BY <1>3, <1>7, <2>2, <2>6 DEF SmokeCounts
<1> QED BY <1>8, <1>9

\* No lines, no counts.
LEMMA NothingCounted ==
    /\ IsFiniteSet({}) /\ EventsAmong({}) = {} /\ WarnedAmong({}) = {}
    /\ EventCount({}) = 0 /\ WarningCount({}) = 0
<1>1. EventsAmong({}) = {} /\ WarnedAmong({}) = {}
  BY DEF EventsAmong, WarnedAmong
<1> QED BY <1>1, FS_EmptySet DEF EventCount, WarningCount

\* Nothing is counted before the command starts.
LEMMA CountedAtFirst == Init => Counted
<1> SUFFICES ASSUME Init PROVE Counted
  OBVIOUS
<1>1. Lines = {} /\ event_count = 0 /\ warning_counts = 0 /\ child = "none" /\ buffer = {}
      /\ items = 0 /\ ~broken /\ files["observer"] = Absent
  BY DEF Init, Lines
<1>2. FinalCounts /\ ~Recorded
  BY <1>1 DEF FinalCounts, Recorded
<1>3. args.concurrency \in {1, 2}
  BY DEF Init, Args
<1>4. 1 \in Threads
  BY <1>3 DEF Threads
<1>5. dispatch[1] = Idle
  BY <1>4 DEF Init
<1>6. TracedCounts
  BY <1>1, <1>4, <1>5, NothingCounted, IdleCounts DEF TracedCounts
<1>7. SmokeCounts
  BY <1>1, NothingCounted DEF SmokeCounts
<1> QED BY <1>1, <1>2, <1>6, <1>7 DEF Counted

\* The steps of a launcher whose process is observed, and of that process.
LEMMA TracedStep ==
    ASSUME Counted, Observing, RowsOrdered, Accounted, Honest, RunsAsAllowed,
           LauncherStep \/ ChildStep
    PROVE  Counted'
<1>1. /\ launcher = "traced" /\ TracedCounts /\ FinalCounts /\ Dispatches(dispatch)
      /\ DOMAIN files = {"final", "summary", "observer"}
      /\ pc \notin {"observe", "close", "final"}
  BY DEF Counted, Observing, RowsOrdered, Honest, Placed
<1> SUFFICES (Observing => TracedCounts /\ FinalCounts)' /\ UNCHANGED <<launcher, args>>
  BY <1>1 DEF Counted, Observing
<1>2. CASE ChildStep
  <2>1. child # "none" /\ UNCHANGED <<launcher, args>>
    BY <1>2, ChildStays
  <2>2. args.concurrency = 1
    BY <1>1, <2>1 DEF RunsAsAllowed, Allowed
  <2>3. Threads = {1}
    BY <2>2 DEF Threads
  <2>4. ASSUME NEW t \in Threads, Simulation(t)
        PROVE  (Observing => TracedCounts /\ FinalCounts)'
    <3>1. t = 1
      BY <2>3
    <3>2. Simulation(1)
      BY <2>4, <3>1
    <3> QED BY <1>1, <2>3, <3>2, TracedSimulation
  <2>5. CASE Tau2Ends \/ CloseStep \/ CloseFails
    BY <1>1, <2>1, <2>3, <2>5, TracedClosing
  <2>6. CASE KillChild
    <3>1. Killed /\ child' = "killed"
      BY <2>6 DEF KillChild
    <3> QED BY <1>1, <2>1, <3>1, TracedKilled
  <2> QED BY <1>2, <2>1, <2>4, <2>5, <2>6 DEF ChildStep
<1>3. CASE Timeout
  <2>1. Killed /\ child' = "killed" /\ UNCHANGED <<launcher, args>>
    BY <1>3 DEF Timeout, Killed
  <2> QED BY <1>1, <2>1, TracedKilled
<1>4. CASE Launch \/ Reconsider \/ Refuse \/ Completed \/ Update \/ WriteSummary \/ PrintStatus
  <2>1. UNCHANGED <<launcher, args, dispatch, observer, counted, broken>>
    BY <1>4 DEF Launch, Reconsider, Refuse, Completed, Update, WriteSummary, PrintStatus,
                Goto, Quiet
  <2>2. files'["observer"] = files["observer"]
    BY <1>1, <1>4 DEF Launch, Reconsider, Refuse, Completed, Update, WriteSummary, PrintStatus
  <2>3. child' = child \/ (child = "none" /\ child' = "running")
    <3>1. CASE Launch
      <4>1. child = "none"
        BY <1>1, <3>1 DEF Launch, Honest, Placed
      <4> QED BY <3>1, <4>1 DEF Launch
    <3>2. CASE ~Launch
      BY <1>4, <3>2 DEF Reconsider, Refuse, Completed, Update, WriteSummary, PrintStatus, process
    <3> QED BY <3>1, <3>2
  <2> QED BY <1>1, <2>1, <2>2, <2>3, TracedLauncher
<1>5. CASE Observe \/ ObserveFails \/ Validate \/ CloseSmoke \/ WriteSmokeFinal
           \/ WriteSmokeSummary \/ SmokeFails
  <2>1. pc \in {"observe", "close", "final"} \/ launcher = "smoke"
    BY <1>5 DEF Observe, ObserveFails, Validate, CloseSmoke, WriteSmokeFinal,
                WriteSmokeSummary, SmokeFails
  <2> QED BY <1>1, <2>1
<1> QED BY <1>2, <1>3, <1>4, <1>5 DEF LauncherStep

\* The steps of the smoke.
LEMMA SmokeStep ==
    ASSUME Counted, launcher = "smoke", Honest, LauncherStep \/ ChildStep
    PROVE  Counted'
<1>1. /\ SmokeCounts /\ FinalCounts /\ child = "none" /\ items \in 0 .. Runtime
      /\ pc \in {"observe", "close", "final", "summary", "print", "ended"}
      /\ DOMAIN files = {"final", "summary", "observer"}
  BY DEF Counted, Honest, Placed
<1>2. ~ChildStep
  BY <1>1, ChildStays
<1> SUFFICES (SmokeCounts /\ FinalCounts)' /\ UNCHANGED launcher
  BY DEF Counted, Observing
<1>3. /\ ~Launch /\ ~Reconsider /\ ~Refuse /\ ~Completed /\ ~Timeout /\ ~Update
      /\ ~WriteSummary
  BY <1>1 DEF Launch, Reconsider, Refuse, Completed, Timeout, Update, WriteSummary
<1>4. CASE Observe \/ ObserveFails
  <2>1. UNCHANGED launcher
    BY <1>4 DEF Observe, ObserveFails, Goto
  <2> QED BY <1>1, <1>4, <2>1, SmokeObserves
\* The rest, where no line is written.
<1>5. ~broken => buffer = {}
  BY <1>1 DEF SmokeCounts
<1>6. CASE Validate
  <2>1. /\ UNCHANGED <<launcher, event_count, warning_counts, disk, buffer, files, counted, broken>>
        /\ pc = "observe" /\ pc' = "close"
    BY <1>6 DEF Validate, Goto, Quiet, observer
  <2>2. Lines' = Lines
    BY <2>1 DEF Lines
  <2> QED BY <1>1, <1>5, <2>1, <2>2, SmokeGoesOn
<1>7. CASE CloseSmoke
  <2>1. /\ UNCHANGED <<launcher, event_count, warning_counts, files, counted, broken>>
        /\ disk' = disk \cup buffer /\ buffer' = {}
        /\ pc = "close" /\ pc' = "final"
    BY <1>7 DEF CloseSmoke, Goto, results
  <2>2. Lines' = Lines
    BY <2>1 DEF Lines
  <2> QED BY <1>1, <1>5, <2>1, <2>2, SmokeGoesOn
<1>8. CASE WriteSmokeFinal
  <2>1. /\ UNCHANGED <<launcher, event_count, warning_counts, disk, buffer, broken>>
        /\ counted' = [warnings |-> warning_counts, events |-> event_count]
        /\ pc = "final" /\ pc' = "summary"
    BY <1>8 DEF WriteSmokeFinal, Goto, observer
  <2>2. Lines' = Lines
    BY <2>1 DEF Lines
  <2> QED BY <1>1, <1>5, <2>1, <2>2, SmokeGoesOn
<1>9. CASE WriteSmokeSummary \/ PrintStatus
  <2>1. /\ UNCHANGED <<launcher, event_count, warning_counts, disk, buffer, counted, broken>>
        /\ pc \in {"summary", "print"} /\ pc' \in {"print", "ended"}
    BY <1>9 DEF WriteSmokeSummary, PrintStatus, Goto, Quiet, observer
  <2>2. files'["observer"] = files["observer"]
    BY <1>1, <1>9 DEF WriteSmokeSummary, PrintStatus
  <2>3. Lines' = Lines
    BY <2>1 DEF Lines
  <2> QED BY <1>1, <1>5, <2>1, <2>2, <2>3, SmokeGoesOn
<1>10. CASE SmokeFails
  <2>1. /\ UNCHANGED <<launcher, event_count, warning_counts, disk, buffer, counted>>
        /\ pc \in {"close", "final", "summary"} /\ pc' = "ended" /\ broken'
    BY <1>10 DEF SmokeFails, Goto, observer
  <2>2. /\ files'["observer"] \in {files["observer"], Partial}
        /\ pc \in {"observe", "close"} => files'["observer"] = files["observer"]
    BY <1>1, <1>10 DEF SmokeFails
  <2>3. Lines' = Lines
    BY <2>1 DEF Lines
  <2> QED BY <1>1, <1>5, <2>1, <2>2, <2>3, SmokeGoesOn
<1> QED BY <1>2, <1>3, <1>4, <1>6, <1>7, <1>8, <1>9, <1>10 DEF LauncherStep

\* Nothing else touches the observer's state file.
LEMMA UnobservedStep ==
    ASSUME Counted, launcher # "smoke", ~Observing, Honest, LauncherStep \/ ChildStep
    PROVE  Counted'
<1>1. /\ files["observer"] = Absent /\ child \notin {"observer final", "observer close"}
      /\ DOMAIN files = {"final", "summary", "observer"}
      /\ pc \notin {"observe", "close", "final"}
  BY DEF Counted, Honest, Placed
<1> SUFFICES /\ UNCHANGED <<launcher, args>>
             /\ files'["observer"] = Absent
             /\ child' \notin {"observer final", "observer close"}
  BY DEF Counted, Observing
<1>2. CASE ChildStep
  <2>1. UNCHANGED <<launcher, args>>
    BY <1>2, ChildStays
  <2>2. ASSUME NEW t \in Threads, Simulation(t)
        PROVE  UNCHANGED <<files, child>>
    BY <2>2 DEF Simulation, Dispatch, ReadCount, StoreCount, WriteLine, LineFails, Respond,
                UseTool, process, results
  <2>3. CASE Tau2Ends
    BY <1>1, <2>1, <2>3 DEF Tau2Ends
  <2>4. CASE CloseStep
    <3>1. child' = After(child) /\ child \in ClosingSteps
          /\ files' = IF WritesStatus(child) THEN [files EXCEPT ![FileIn(child)] = childStatus]
                      ELSE files
      BY <2>4 DEF CloseStep
    <3>2. child \in {"hook map", "final", "summary"}
      BY <1>1, <3>1 DEF ClosingSteps
    <3>3. child' \notin {"observer final", "observer close"}
      BY <3>1, <3>2, AfterFacts
    <3>4. files'["observer"] = Absent
      BY <1>1, <3>1, <3>2 DEF WritesStatus, FileIn
    <3> QED BY <2>1, <3>3, <3>4
  <2>5. CASE CloseFails \/ KillChild
    <3>1. child' \in {"exited", "killed"} /\ child \in {"running"} \cup ClosingSteps
          /\ files' = IF WritesStatus(child) THEN [files EXCEPT ![FileIn(child)] = Partial]
                      ELSE files
      BY <2>5 DEF CloseFails, KillChild, Killed
    <3>2. child \in {"running", "hook map", "final", "summary"}
      BY <1>1, <3>1 DEF ClosingSteps
    <3>3. files'["observer"] = Absent
      BY <1>1, <3>1, <3>2 DEF WritesStatus, FileIn
    <3> QED BY <2>1, <3>1, <3>3
  <2> QED BY <1>1, <1>2, <2>1, <2>2, <2>3, <2>4, <2>5 DEF ChildStep
<1>3. CASE Timeout
  <2>1. /\ child' = "killed" /\ UNCHANGED <<launcher, args>>
        /\ files' = IF WritesStatus(child) THEN [files EXCEPT ![FileIn(child)] = Partial]
                    ELSE files
    BY <1>3 DEF Timeout, Killed
  <2>2. WritesStatus(child) => child = "final"
    BY <1>1 DEF WritesStatus
  <2>3. FileIn("final") = "final"
    BY DEF FileIn
  <2> QED BY <1>1, <2>1, <2>2, <2>3
<1>4. CASE Launch \/ Reconsider \/ Refuse \/ Completed \/ Update \/ WriteSummary \/ PrintStatus
  <2>1. UNCHANGED <<launcher, args>> /\ (child' = child \/ child' = "running")
    BY <1>4 DEF Launch, Reconsider, Refuse, Completed, Update, WriteSummary, PrintStatus,
                Goto, process
  <2>2. files'["observer"] = files["observer"]
    BY <1>1, <1>4 DEF Launch, Reconsider, Refuse, Completed, Update, WriteSummary, PrintStatus
  <2> QED BY <1>1, <2>1, <2>2
<1>5. CASE Observe \/ ObserveFails \/ Validate \/ CloseSmoke \/ WriteSmokeFinal
           \/ WriteSmokeSummary \/ SmokeFails
  <2>1. pc \in {"observe", "close", "final"} \/ launcher = "smoke"
    BY <1>5 DEF Observe, ObserveFails, Validate, CloseSmoke, WriteSmokeFinal,
                WriteSmokeSummary, SmokeFails
  <2> QED BY <1>1, <2>1
<1> QED BY <1>2, <1>3, <1>4, <1>5 DEF LauncherStep

\* What is counted is what was written, in the files and the buffers together; of
\* the files it is at least as much.
LEMMA CountedMatches == Counted => CountsMatchFiles
<1> SUFFICES ASSUME Counted, Recorded
             PROVE  LET events == Cardinality(EventsAmong(disk))
                        warned == Cardinality(WarnedAmong(disk))
                    IN  /\ ~broken => counted = [warnings |-> warned, events |-> events]
                        /\ events <= counted.events
                        /\ launcher = "traced" => warned <= counted.warnings
  BY DEF CountsMatchFiles, Recorded
<1>1. launcher = "smoke" \/ Observing
  BY DEF Counted, Recorded
<1>2. /\ IsFiniteSet(Lines) /\ (~broken => buffer = {}) /\ FinalCounts
      /\ ~broken \/ Observing => IsFiniteSet(WarnedAmong(Lines))
  BY <1>1 DEF Counted, TracedCounts, SmokeCounts
<1>3. /\ counted.events \in Nat /\ EventCount(Lines) <= counted.events
      /\ launcher = "traced" =>
           counted.warnings \in Nat /\ WarningCount(Lines) <= counted.warnings
      /\ ~broken => counted = [warnings |-> WarningCount(Lines), events |-> EventCount(Lines)]
  BY <1>2 DEF FinalCounts
<1>4. disk \subseteq Lines /\ (~broken => disk = Lines)
  BY <1>2 DEF Lines
<1>5. EventCount(disk) <= EventCount(Lines) /\ EventCount(disk) \in Nat
      /\ EventCount(Lines) \in Nat
  <2>1. EventsAmong(disk) \in SUBSET EventsAmong(Lines)
    BY <1>4 DEF EventsAmong
  <2>2. IsFiniteSet(EventsAmong(Lines))
    BY <1>2, EventsAreFinite
  <2> QED BY <2>1, <2>2, FS_Subset, FS_CardinalityType DEF EventCount
<1>6. EventCount(disk) <= counted.events
  BY <1>3, <1>5
<1>7. launcher = "traced" => WarningCount(disk) <= counted.warnings
  <2> SUFFICES ASSUME launcher = "traced" PROVE WarningCount(disk) <= counted.warnings
    OBVIOUS
  <2>1. IsFiniteSet(WarnedAmong(Lines))
    BY <1>1, <1>2
  <2>2. /\ WarningCount(disk) <= WarningCount(Lines)
        /\ WarningCount(disk) \in Nat /\ WarningCount(Lines) \in Nat
    BY <1>2, <1>4, <2>1, FewerLines
  <2> QED BY <1>3, <2>2
<1> QED BY <1>3, <1>4, <1>6, <1>7 DEF EventCount, WarningCount

\* This is so in every state.
LEMMA AlwaysCounted == Spec => []Counted
<1>1. /\ RowsOrdered /\ Accounted /\ Honest /\ RunsAsAllowed /\ Counted /\ [Next]_vars
      => Counted'
  <2> SUFFICES ASSUME RowsOrdered, Accounted, Honest, RunsAsAllowed, Counted, [Next]_vars
               PROVE  Counted'
    OBVIOUS
  <2>1. CASE UNCHANGED vars
    BY <2>1 DEF vars, command, process, results, observer, Counted, Observing, TracedCounts,
                SmokeCounts, FinalCounts, Recorded, Threads, Lines, EventCount, WarningCount,
                EventsAmong, WarnedAmong, Busy, Unwritten, Early, Current, RowOf, Steps
  <2>2. CASE LauncherStep \/ ChildStep
    BY <2>2, TracedStep, SmokeStep, UnobservedStep
  <2> QED BY <2>1, <2>2 DEF Next, Terminating
<1> QED BY <1>1, CountedAtFirst, RunsOnlyAsAllowed, AlwaysOrdered, AlwaysAccounted, AlwaysHonest,
           PTL DEF Spec

\* The counts in observer_final_state.json are those of its files, and at least
\* those when a write failed or the process was killed: the observer counts without
\* a lock, and this holds because the launchers refuse every other concurrency.
THEOREM CountsAreHonest == Spec => []CountsMatchFiles
BY AlwaysCounted, CountedMatches, PTL

-----------------------------------------------------------------------------
(* Types.                                                                  *)

\* A launcher decides for one of the statuses.
LEMMA DecidesStatus ==
    ASSUME NEW l \in Launchers, NEW a
    PROVE  Decide(l, a) \in Statuses
<1> DEFINE checks == Checks(l, a)
           failing == {i \in DOMAIN checks : checks[i].applies}
<1>1. DOMAIN checks \subseteq 1 .. 8 /\ \A i \in DOMAIN checks : checks[i].status \in Statuses
  <2>0. \A p, s : Check(p, s).status = s
    BY DEF Check
  <2>1. /\ MissingAck(a).status \in Statuses /\ MissingModel(a).status \in Statuses
        /\ MissingKey(a).status \in Statuses
    BY <2>0 DEF MissingAck, MissingModel, MissingKey, Statuses
  <2>2. CASE l \in {"model", "traced"}
    <3>1. /\ DOMAIN checks = 1 .. 8
          /\ {checks[1], checks[2]} = {MissingAck(a), MissingModel(a)}
          /\ checks[3] = Check(a.domain = "other" /\ ~a.override, "refused_non_mock_domain")
          /\ checks[4] = Check(~a.steps, "failed")
          /\ checks[5] = Check(a.concurrency # 1, "failed")
          /\ checks[6] = Check(a.num_tasks = "zero", "failed")
          /\ checks[7] = Check(InvalidTask(a), "refused_invalid_task_id")
          /\ checks[8] = MissingKey(a)
      BY <2>2, ChecksOfRun
    <3> HIDE DEF checks
    <3>2. checks[1].status \in Statuses /\ checks[2].status \in Statuses
      <4>1. /\ checks[1] \in {MissingAck(a), MissingModel(a)}
            /\ checks[2] \in {MissingAck(a), MissingModel(a)}
        BY <3>1
      <4> QED BY <2>1, <4>1
    <3>3. /\ checks[3].status = "refused_non_mock_domain" /\ checks[4].status = "failed"
          /\ checks[5].status = "failed" /\ checks[6].status = "failed"
          /\ checks[7].status = "refused_invalid_task_id"
      BY <2>0, <3>1
    <3>4. checks[8].status \in Statuses
      BY <2>1, <3>1
    <3> QED BY <3>1, <3>2, <3>3, <3>4 DEF Statuses
  <2>3. CASE l = "variant"
    <3>1. /\ DOMAIN checks = 1 .. 4
          /\ checks[1] = MissingModel(a) /\ checks[2] = MissingAck(a)
          /\ checks[3] = Check(~a.steps, "failed") /\ checks[4] = MissingKey(a)
      BY <2>3 DEF Checks
    <3> HIDE DEF checks
    <3>2. checks[3].status = "failed"
      BY <2>0, <3>1
    <3> QED BY <2>1, <3>1, <3>2 DEF Statuses
  <2> QED BY <2>2, <2>3 DEF Launchers
<1>2. CASE failing = {}
  BY <1>2 DEF Decide, Statuses
<1>3. CASE failing # {}
  <2>1. \E i \in failing : \A j \in failing : i <= j
    <3>1. failing \subseteq 1 .. 8
      BY <1>1
    <3> HIDE DEF failing
    <3> QED BY <1>3, <3>1, FirstOfEight
  <2>2. (CHOOSE i \in failing : \A j \in failing : i <= j) \in failing
    BY <2>1
  <2>3. Decide(l, a) = checks[CHOOSE i \in failing : \A j \in failing : i <= j].status
    BY <1>3 DEF Decide
  <2> QED BY <1>1, <2>2, <2>3
<1> QED BY <1>2, <1>3

\* The words and numbers that the command and its process tell.
Worded ==
    /\ status \in Statuses /\ exit \in {NoExit, 0, 1} /\ rc \in {0, 1, 9}
    /\ childStatus \in {"passed", "failed"}
    /\ \A f \in DOMAIN files : files[f] \in Statuses \cup {Absent, Partial}
    /\ Len(calls) <= MaxCalls

\* A line is in the file or left in a buffer; and only an observed process dispatches.
Separate ==
    /\ disk \cap buffer = {}
    /\ ~Observing => \A t \in Threads : dispatch[t] = Idle

\* Only an observed process has steps in a simulation.
LEMMA OnlyObserved ==
    ASSUME Separate, NEW t \in Threads, Simulation(t)
    PROVE  Observing
<1> SUFFICES ASSUME ~Observing PROVE FALSE
  OBVIOUS
<1>1. dispatch[t] = Idle
  BY DEF Separate
<1>2. dispatch[t].at \notin DOMAIN Steps /\ dispatch[t].at # Over
  <2>1. DOMAIN Steps = 1 .. 9
    BY StepsFacts, Zenon
  <2>2. dispatch[t].at = 0
    BY <1>1 DEF Idle
  <2> QED BY <2>1, <2>2 DEF Over
<1>3. \A kinds : ~InStep(t, kinds)
  BY <1>2 DEF InStep
<1>4. ~ReadCount(t) /\ ~StoreCount(t) /\ ~WriteLine(t) /\ ~LineFails(t)
  BY <1>3, Zenon DEF ReadCount, StoreCount, WriteLine, LineFails
<1>5. ~Dispatch(t) /\ ~Respond(t) /\ ~UseTool(t)
  BY <1>2, Zenon DEF Dispatch, Respond, UseTool
<1> QED BY <1>4, <1>5 DEF Simulation

\* A step of the process or of a launcher keeps lines apart.
LEMMA SeparateStep ==
    ASSUME Separate, RowsOrdered, Accounted, Honest, RunsAsAllowed, Counted,
           LauncherStep \/ ChildStep
    PROVE  Separate'
<1>0. Dispatches(dispatch) /\ DOMAIN dispatch = Threads /\ disk \cap buffer = {}
  BY DEF RowsOrdered, Dispatches, Separate
<1>1. ASSUME UNCHANGED <<launcher, args, dispatch>>, disk' \cap buffer' = {}
      PROVE  Separate'
  BY <1>1 DEF Separate, Observing, Threads
<1>2. ASSUME NEW t \in Threads, Simulation(t)
      PROVE  Separate'
  <2>1. Observing /\ UNCHANGED <<launcher, args>> /\ child # "none"
    <3>1. ChildStep
      BY <1>2 DEF ChildStep
    <3> QED BY <1>2, <3>1, OnlyObserved, ChildStays
  <2>2. Observing'
    BY <2>1 DEF Observing
  <2>3. args.concurrency = 1
    BY <2>1 DEF RunsAsAllowed, Allowed, Observing
  <2>4. t = 1
    BY <2>3 DEF Threads
  <2>5. CASE Dispatch(t) \/ ReadCount(t) \/ StoreCount(t) \/ Respond(t) \/ UseTool(t)
    <3>1. UNCHANGED <<disk, buffer>>
      BY <2>5 DEF Dispatch, ReadCount, StoreCount, Respond, UseTool, observer
    <3> QED BY <1>0, <2>2, <3>1 DEF Separate
  <2>6. CASE WriteLine(t) \/ LineFails(t)
    <3>1. dispatch[1].at \in 1 .. 9 /\ Steps[dispatch[1].at] \in EventLines \cup {"ledger", "diff"}
      BY <2>4, <2>6, StepsFacts DEF WriteLine, LineFails, InStep
    <3>2. Line(1) \notin Lines
      <4> DEFINE d == dispatch[1]
                 row == <<d.call, d.level>>
      <4>1. Busy(d) => Unwritten(d, Lines)
        BY <2>1 DEF Counted, TracedCounts
      <4>2. Busy(d)
        <5>1. dispatch[t].at # 0
          BY <2>4, <3>1
        <5>2. Busy(dispatch[t])
          BY <1>0, <5>1, BusyFacts
        <5> QED BY <2>4, <5>2
      <4>3. Line(1)[1] = Steps[d.at] /\ Line(1)[2] = row
        <5>1. Line(1) = <<Steps[d.at], row>>
          BY DEF Line
        <5> HIDE DEF row, d
        <5> QED BY <5>1
      <4>4. ~(d.at < d.at)
        BY <3>1
      <4> HIDE DEF d
      <4>5. d.at \in 1 .. 9
        BY <3>1 DEF d
      <4> SUFFICES ASSUME Line(1) \in Lines PROVE FALSE
        OBVIOUS
      <4>6. \A j \in 1 .. 9 : Line(1)[1] = Steps[j] => j < d.at
        BY <4>1, <4>2, <4>3, Zenon DEF Unwritten, row
      <4> QED BY <4>3, <4>4, <4>5, <4>6
    <3>3. Line(1) \notin disk /\ Line(1) \notin buffer
      BY <3>2 DEF Lines
    <3>4. \/ disk' = disk \cup HeldWith(Line(1)[1]) \cup {Line(1)}
             /\ buffer' = buffer \ HeldWith(Line(1)[1])
          \/ disk' = disk /\ buffer' = buffer \cup {Line(1)}
      BY <2>4, <2>6 DEF WriteLine, LineFails
    <3>5. disk' \cap buffer' = {}
      BY <1>0, <3>3, <3>4
    <3> QED BY <2>2, <3>5 DEF Separate
  <2> QED BY <1>2, <2>5, <2>6 DEF Simulation
<1>3. CASE Tau2Ends
  BY <1>0, <1>1, <1>3 DEF Tau2Ends, command, observer
<1>4. CASE CloseStep
  BY <1>0, <1>1, <1>4 DEF CloseStep, command
<1>5. CASE CloseFails
  BY <1>1, <1>5 DEF CloseFails, command
<1>6. CASE KillChild \/ Timeout
  <2>1. UNCHANGED <<launcher, args>> /\ buffer' = {} /\ dispatch' = [t \in Threads |-> Idle]
    BY <1>0, <1>6 DEF KillChild, Timeout, Killed
  <2>2. Threads' = Threads
    BY <2>1 DEF Threads
  <2> QED BY <2>1, <2>2 DEF Separate
<1>7. CASE Launch \/ Reconsider \/ Refuse \/ Completed \/ Update \/ WriteSummary \/ PrintStatus
           \/ Validate \/ WriteSmokeSummary \/ WriteSmokeFinal \/ SmokeFails
  <2>1. UNCHANGED <<launcher, args, dispatch, disk, buffer>>
    BY <1>7 DEF Launch, Reconsider, Refuse, Completed, Update, WriteSummary, PrintStatus,
                Validate, WriteSmokeSummary, WriteSmokeFinal, SmokeFails, Goto, Quiet, observer
  <2> QED BY <1>0, <1>1, <2>1
<1>8. CASE CloseSmoke
  BY <1>1, <1>8 DEF CloseSmoke, Goto
<1>9. CASE Observe \/ ObserveFails
  <2>1. pc = "observe" /\ items < Runtime /\ UNCHANGED <<launcher, args, dispatch>>
    BY <1>9 DEF Observe, ObserveFails, Goto
  <2>2. launcher = "smoke" /\ items \in 0 .. Runtime
    BY <2>1 DEF Honest, Placed
  <2>3. SmokeCounts
    BY <2>2 DEF Counted
  <2>4. buffer = {} /\ \A l \in disk : \E j \in 1 .. items : l[2] = RowOf(j)
    BY <2>1, <2>3 DEF SmokeCounts, Lines
  <2>5. CASE Observe
    <3>1. buffer' = {}
      BY <2>4, <2>5 DEF Observe
    <3> QED BY <1>1, <2>1, <3>1
  <2>6. CASE ObserveFails
    <3> DEFINE i == items + 1
    <3>1. PICK k \in 1 .. Len(KindsOf(i)) :
            disk' = disk \cup LinesOf(i, k - 1) /\ buffer' = {<<KindsOf(i)[k], RowOf(i)>>}
      BY <2>6 DEF ObserveFails
    <3> DEFINE l == <<KindsOf(i)[k], RowOf(i)>>
    <3>2. l \notin disk
      <4> SUFFICES ASSUME l \in disk PROVE FALSE
        OBVIOUS
      <4>1. l[2] = RowOf(i)
        OBVIOUS
      <4>2. PICK j \in 1 .. items : RowOf(i) = RowOf(j)
        BY <2>4, <4>1
      <4>3. RowOf(i)[1] = i /\ RowOf(j)[1] = j
        BY DEF RowOf
      <4> QED BY <2>1, <2>2, <4>2, <4>3, RuntimeLines
    <3>3. l \notin LinesOf(i, k - 1)
      <4> SUFFICES ASSUME NEW j \in 1 .. k - 1, l = <<KindsOf(i)[j], RowOf(i)>> PROVE FALSE
        BY DEF LinesOf
      <4>1. Len(KindsOf(i)) \in Nat
        BY KindsDiffer
      <4>2. j \in 1 .. Len(KindsOf(i)) /\ j # k
        BY <4>1
      <4>3. KindsOf(i)[j] = KindsOf(i)[k]
        OBVIOUS
      <4> QED BY <4>2, <4>3, KindsDiffer
    <3> HIDE DEF l
    <3>4. disk' \cap buffer' = {}
      BY <3>1, <3>2, <3>3 DEF l
    <3> QED BY <1>1, <2>1, <3>4
  <2> QED BY <1>9, <2>5, <2>6
<1> QED BY <1>2, <1>3, <1>4, <1>5, <1>6, <1>7, <1>8, <1>9 DEF LauncherStep, ChildStep

\* A step says nothing but these words.
LEMMA WordedStep ==
    ASSUME Worded, Honest, Accounted, LauncherStep \/ ChildStep
    PROVE  Worded'
<1>0. /\ launcher \in Launchers \cup {"smoke"} /\ DOMAIN files = {"final", "summary", "observer"}
      /\ launcher = "smoke" => pc # "decide"
      /\ calls \in Seq(CallRecords)
  BY DEF Honest, Placed, Accounted
<1>1. ASSUME NEW t \in Threads, Simulation(t)
      PROVE  Worded'
  <2>1. UNCHANGED <<status, exit, rc, childStatus, files>>
    BY <1>1 DEF Simulation, Dispatch, ReadCount, StoreCount, WriteLine, LineFails, Respond,
                UseTool, command, process, results
  <2>2. Len(calls') <= MaxCalls
    <3>1. CASE Dispatch(t)
      <4>1. Len(calls) < MaxCalls /\ \E c : calls' = Append(calls, c)
        BY <3>1 DEF Dispatch
      <4> QED BY <1>0, <4>1, BoundsAssumption
    <3>2. CASE ~Dispatch(t)
      <4>1. calls' = calls \/ \E c, v : calls' = [calls EXCEPT ![c].end = v]
        BY <1>1, <3>2 DEF Simulation, ReadCount, StoreCount, WriteLine, LineFails, Respond,
                          UseTool, EndCall
      <4>2. Len(calls') = Len(calls)
        BY <1>0, <4>1
      <4> QED BY <4>2 DEF Worded
    <3> QED BY <3>1, <3>2
  <2> QED BY <2>1, <2>2 DEF Worded
<1>2. CASE Tau2Ends
  BY <1>2 DEF Tau2Ends, command, Worded
<1>3. CASE CloseStep \/ CloseFails \/ KillChild
  <2>1. UNCHANGED <<status, exit, childStatus, calls>> /\ rc' \in {rc, 1, 9}
        /\ \E w \in {childStatus, Partial} :
             files' = IF WritesStatus(child) THEN [files EXCEPT ![FileIn(child)] = w] ELSE files
    BY <1>3 DEF CloseStep, CloseFails, KillChild, Killed, command
  <2>2. "passed" \in Statuses /\ "failed" \in Statuses
    BY DEF Statuses
  <2> QED BY <2>1, <2>2 DEF Worded
<1>4. CASE Timeout
  <2>1. UNCHANGED <<status, childStatus, calls>> /\ rc' = 9 /\ exit' = 1
        /\ files' = IF WritesStatus(child) THEN [files EXCEPT ![FileIn(child)] = Partial]
                    ELSE files
    BY <1>4 DEF Timeout, Killed
  <2> QED BY <2>1 DEF Worded
<1>5. CASE Launch
  <2>1. UNCHANGED <<exit, rc, childStatus, files, calls>> /\ status' = Decide(launcher, args)
        /\ pc = "decide"
    BY <1>5 DEF Launch, Quiet
  <2>2. status' \in Statuses
    BY <1>0, <2>1, DecidesStatus
  <2> QED BY <2>1, <2>2 DEF Worded
<1>6. CASE Reconsider
  <2>1. UNCHANGED <<exit, rc, childStatus, files, calls>>
        /\ status' = Reconsidered(launcher, args, status)
    BY <1>6 DEF Reconsider, Quiet, process
  <2>2. status' \in Statuses
    BY <2>1 DEF Reconsidered, Statuses, Worded
  <2> QED BY <2>1, <2>2 DEF Worded
<1>7. CASE Refuse \/ Update \/ WriteSummary \/ WriteSmokeFinal \/ WriteSmokeSummary
  <2>1. UNCHANGED <<status, rc, childStatus, calls>> /\ exit' \in {exit, 1}
        /\ \/ UNCHANGED files
           \/ \E f \in {"final", "summary", "observer"} : files' = [files EXCEPT ![f] = status]
    BY <1>7 DEF Refuse, Update, WriteSummary, WriteSmokeFinal, WriteSmokeSummary, Quiet,
                process
  <2> QED BY <2>1 DEF Worded
<1>8. CASE Completed
  <2>1. UNCHANGED <<exit, rc, childStatus, files, calls>> /\ status' \in {"passed", "failed"}
    BY <1>8 DEF Completed, Quiet, process
  <2> QED BY <2>1 DEF Worded, Statuses
<1>9. CASE PrintStatus
  <2>1. UNCHANGED <<status, rc, childStatus, files, calls>>
        /\ exit' = ExitCode(launcher, status)
    BY <1>9 DEF PrintStatus, Quiet, process
  <2>2. exit' \in {0, 1}
    BY <2>1 DEF ExitCode
  <2> QED BY <2>1, <2>2 DEF Worded
<1>10. CASE Observe \/ CloseSmoke
  BY <1>10 DEF Observe, CloseSmoke, process, results, Worded
<1>11. CASE ObserveFails \/ Validate
  <2>1. UNCHANGED <<exit, rc, childStatus, files, calls>> /\ status' \in {"passed", "failed"}
    BY <1>11 DEF ObserveFails, Validate, Quiet, process
  <2> QED BY <2>1 DEF Worded, Statuses
<1>12. CASE SmokeFails
  <2>1. UNCHANGED <<status, rc, childStatus, calls>> /\ exit' = 1
        /\ \/ UNCHANGED files
           \/ \E f \in {"summary", "observer"} : files' = [files EXCEPT ![f] = Partial]
    BY <1>12 DEF SmokeFails, process
  <2> QED BY <2>1 DEF Worded
<1> QED BY <1>1, <1>2, <1>3, <1>4, <1>5, <1>6, <1>7, <1>8, <1>9, <1>10, <1>11, <1>12
        DEF LauncherStep, ChildStep

\* Every variable keeps its type, a dispatch belongs to a call that was made, and no
\* line is in a file and in its buffer.
THEOREM TypeCorrect == Spec => []TypeOK
<1>1. Init => Worded /\ Separate
  <2> SUFFICES ASSUME Init PROVE Worded /\ Separate
    OBVIOUS
  <2>1. Worded
    BY BoundsAssumption DEF Init, Worded, Statuses
  <2>2. Separate
    BY DEF Init, Separate
  <2> QED BY <2>1, <2>2
<1>2. /\ Worded /\ Separate /\ RowsOrdered /\ Accounted /\ Honest /\ RunsAsAllowed /\ Counted
      /\ [Next]_vars
      => (Worded /\ Separate)'
  <2> SUFFICES ASSUME Worded, Separate, RowsOrdered, Accounted, Honest, RunsAsAllowed, Counted,
                      [Next]_vars
               PROVE  (Worded /\ Separate)'
    OBVIOUS
  <2>1. CASE UNCHANGED vars
    BY <2>1 DEF vars, command, process, results, observer, Worded, Separate, Observing, Threads
  <2>2. CASE LauncherStep \/ ChildStep
    BY <2>2, SeparateStep, WordedStep
  <2> QED BY <2>1, <2>2 DEF Next, Terminating
<1>3. Worded /\ Separate /\ RowsOrdered /\ Accounted /\ Honest => TypeOK
  <2> SUFFICES ASSUME Worded, Separate, RowsOrdered, Accounted, Honest PROVE TypeOK
    OBVIOUS
  <2>1. DOMAIN dispatch = Threads /\ \A t \in Threads : dispatch[t].at \in 0 .. Over
    BY DEF RowsOrdered, Dispatches, IsDispatch
  <2>2. \A t \in Threads : dispatch[t].call \in 0 .. Len(calls)
    <3> SUFFICES ASSUME NEW t \in Threads PROVE dispatch[t].call \in 0 .. Len(calls)
      OBVIOUS
    <3>1. Len(calls) \in Nat /\ DOMAIN calls = 1 .. Len(calls)
      BY DEF Accounted
    <3>2. CASE dispatch[t] = Idle
      BY <3>1, <3>2 DEF Idle
    <3>3. CASE Busy(dispatch[t])
      BY <3>1, <3>3 DEF Accounted, Serves
    <3> QED BY <3>2, <3>3 DEF Accounted
  <2>3. items \in 0 .. Runtime
    BY DEF Honest, Placed
  <2> QED BY <2>1, <2>2, <2>3 DEF TypeOK, Worded, Separate
<1> QED BY <1>1, <1>2, <1>3, AlwaysCounted, RunsOnlyAsAllowed, AlwaysOrdered,
           AlwaysAccounted, AlwaysHonest, PTL DEF Spec
=============================================================================
