--------------------------- MODULE PackageRunsProofs ---------------------------
(***************************************************************************)
(* Proofs about PackageRuns: the types, that the ends of nested commands   *)
(* agree with what they left behind, and what a package that passed rests  *)
(* on.  The commands form a chain of calls of which only the last moves;   *)
(* once that is known, each directory is followed statement by statement.  *)
(***************************************************************************)
EXTENDS PackageRuns, SequenceTheorems, FiniteSetTheorems, TLAPS

-----------------------------------------------------------------------------
(* The invariant.                                                          *)

Kinds == {"all", "handoff", "review", "leaf"}
Rank == [all |-> 0, handoff |-> 1, review |-> 2, leaf |-> 3]

\* Who calls whom.
Calls == {<<"all", "leaf">>, <<"all", "review">>, <<"all", "handoff">>,
          <<"handoff", "review">>, <<"review", "leaf">>}

Top == stack[Len(stack)]
Inside(kind) == \E i \in DOMAIN stack : stack[i] = kind

\* The commands that run are a chain of calls, each but the last waits for its
\* child, and the last one to end was called by none that runs below it.
StackInv ==
    /\ stack \in Seq(Kinds)
    /\ DOMAIN pc = Kinds
    /\ \A i \in 1 .. (Len(stack) - 1) :
         <<stack[i], stack[i + 1]>> \in Calls /\ pc[stack[i]] = "check"
    /\ \A i, j \in DOMAIN stack : i < j => Rank[stack[i]] < Rank[stack[j]]
    /\ ret.who \in Kinds \cup {Nothing}
    /\ ret.who # Nothing => \A i \in DOMAIN stack : Rank[stack[i]] < Rank[ret.who]
    /\ stack # <<>> /\ pc[Top] = "check" => <<Top, ret.who>> \in Calls

\* What the aggregator records of a smoke.
Entries == [passed : BOOLEAN, dir : Int, leaf : Nat, started : Nat]

\* The seconds pass no faster than the smokes are started.
ClockInv ==
    /\ second \in Nat /\ lastStart \in Nat /\ leaf.number \in Nat
    /\ lastStart <= second /\ second <= lastStart + MaxDelay /\ 1 <= second
    /\ results \in Seq(Entries)
    /\ results = <<>> \/ stack = <<>> \/ stack[1] = "all"
    /\ Inside("all") => pc["all"] \in {"wait", "check", "print"}
    /\ Len(results) <= Len(Smokes)
    /\ IF Inside("all") /\ pc["all"] = "check"
         THEN /\ Len(results) < Len(Smokes) /\ 1 <= lastStart
              /\ lastStart <= (Len(results) + 1) * MaxDelay
              /\ \A i \in DOMAIN results : results[i].started < lastStart
         ELSE Inside("all") =>
                /\ lastStart <= Len(results) * MaxDelay
                /\ \A i \in DOMAIN results : results[i].started <= lastStart
    /\ stack # <<>> /\ ~Inside("all") => lastStart = 0

\* The directory a leaf that passed named holds what it wrote, and no leaf after
\* it writes to the directory of a smoke that has been recorded.
LeafInv ==
    /\ DOMAIN wrote = Seconds
    /\ Inside("leaf") => pc["leaf"] \in {"begin", "run"}
    /\ Inside("leaf") /\ pc["leaf"] = "run" =>
         leaf.dir \in Seconds /\ lastStart <= leaf.dir
    /\ ret.dir \in Int /\ ret.exit \in {Nothing, "0", "1", "killed"}
    /\ ret.who = "leaf" /\ ChildPassed =>
         ret.dir \in Seconds /\ wrote[ret.dir] = leaf.number
    /\ ret.who # "leaf" => ret.dir \in {OwnDir, NoDir}
    /\ \A i \in DOMAIN results :
         results[i].passed /\ results[i].dir = results[i].started =>
           wrote[results[i].dir] = results[i].leaf

\* What the aggregate said is what its records say.
AllInv ==
    /\ Inside("all") /\ pc["all"] = "print" =>
         /\ Len(results) = Len(Smokes)
         /\ aggregate = IF AllPassed THEN "passed" ELSE "failed"
    /\ ret.who = "all" /\ ret.said # Nothing =>
         /\ aggregate = ret.said
         /\ ret.exit = "0" <=> \A i \in DOMAIN Smokes : results[i].passed

TheMatrix == BlockerMatrix(OperatorDecisions, IncidentDecisions)

\* A directory of phase 11 that one may build on.
ReviewGood ==
    /\ \A f \in ReviewFiles : reviewDir[f] # Absent
    /\ reviewDir["human_review_package.json"] = "passed"
    /\ matrix = TheMatrix

\* What is in the directory of phase 11 at each statement.
ReviewInv ==
    /\ DOMAIN reviewDir = ReviewFiles
    /\ Inside("review") =>
         /\ pc["review"] \in {"begin", "check", "failure", "copy", "package", "final", "raw",
                              "print"}
         /\ pc["review"] \in {"package", "final", "raw"} =>
              \A f \in Chain \cup {"phase10_final_state.json", "final_state.json"} :
                reviewDir[f] # Absent
         /\ pc["review"] \in {"final", "raw"} =>
              /\ matrix = TheMatrix
              /\ reviewDir["human_review_package.json"] \in {"passed", "failed"}
              /\ \A f \in Phase11Artifacts \cup {"summary.md"} :
                   reviewDir[f] = reviewDir["human_review_package.json"]
         /\ pc["review"] = "raw" =>
              reviewDir["final_state.json"] = reviewDir["human_review_package.json"]
         /\ pc["review"] = "print" =>
              /\ reviewDir["raw.log"] \in {"inputs_missing", "passed", "failed"}
              /\ reviewDir["final_state.json"] = reviewDir["raw.log"]
              /\ reviewDir["raw.log"] = "passed" => ReviewGood

\* What the command of phase 11 has told when it ended.
ReviewTold ==
    ret.who = "review" =>
      /\ ret.said \notin {Nothing, "error"} =>
           /\ reviewDir["final_state.json"] = ret.said
           /\ ret.exit = "0" <=> ret.said = "passed"
      /\ ret.exit = "0" => ReviewGood

\* What was copied of phase 11.
Copied ==
    /\ \A f \in {Upstream, "phase11_final_state.json"} \cup Chain \cup Phase11Artifacts :
         handoffDir[f] # Absent
    /\ handoffDir["human_review_package.json"] = "passed"

\* A handoff that one may rely on.
HandoffGood ==
    /\ \A f \in HandoffFiles : handoffDir[f] # Absent
    /\ handoffDir["human_review_package.json"] = "passed"
    /\ prerequisites = Prerequisites(TheMatrix)
    /\ ~handoffVendor
    /\ \A f \in Required : f # "artifact_hash_manifest.json" => manifest[f] = handoffDir[f]

\* What is in the directory of phase 12 at each statement.
HandoffInv ==
    /\ DOMAIN handoffDir = HandoffFiles
    /\ Inside("handoff") =>
         /\ pc["handoff"] \in {"begin", "check", "failure", "copy", "package", "final", "raw",
                               "artifacts", "hash", "validate", "print"}
         /\ pc["handoff"] \in {"check", "failure", "copy", "package", "final", "raw", "artifacts"}
              => handoffDir["auditor_handoff_package.json"] = Absent
         /\ pc["handoff"] \in {"check", "failure", "copy"} => handoffDir[Upstream] # Absent
         /\ pc["handoff"] = "copy" => ReviewGood
         /\ pc["handoff"] = "package" => matrix = TheMatrix
         /\ pc["handoff"] \in {"package", "final", "raw", "artifacts", "hash"} => Copied
         /\ pc["handoff"] \in {"final", "raw", "artifacts", "hash", "validate"} =>
              prerequisites = Prerequisites(TheMatrix)
         /\ pc["handoff"] \in {"raw", "artifacts", "hash", "validate"} =>
              handoffDir["final_state.json"] = "passed"
         /\ pc["handoff"] = "artifacts" => handoffDir["raw.log"] = "passed"
         /\ pc["handoff"] = "hash" =>
              /\ handoffDir["auditor_handoff_package.json"] = "passed"
              /\ \A f \in Phase12Artifacts : handoffDir[f] # Absent
         /\ pc["handoff"] = "validate" =>
              /\ handoffDir["auditor_handoff_package.json"] = "passed"
              /\ handoffDir["human_review_package.json"] = "passed"
              /\ \A f \in HandoffFiles : handoffDir[f] # Absent
              /\ \A f \in Required :
                   f # "artifact_hash_manifest.json" => manifest[f] = handoffDir[f]
         /\ pc["handoff"] = "print" =>
              /\ handoffDir["final_state.json"] \in {"inputs_missing", "passed", "failed"}
              /\ handoffDir["auditor_handoff_package.json"]
                   \in {handoffDir["final_state.json"], Absent}
              /\ handoffDir["final_state.json"] = "passed" => HandoffGood

\* What the command of phase 12 has told when it ended.
HandoffTold ==
    ret.who = "handoff" =>
      /\ ret.said \notin {Nothing, "error"} =>
           /\ handoffDir["final_state.json"] = ret.said
           /\ handoffDir["auditor_handoff_package.json"] \in {ret.said, Absent}
           /\ ret.exit = "0" <=> ret.said = "passed"
      /\ ret.exit = "0" => HandoffGood

Inv ==
    /\ StackInv /\ ClockInv /\ LeafInv /\ AllInv
    /\ ReviewInv /\ ReviewTold /\ HandoffInv /\ HandoffTold
-----------------------------------------------------------------------------
(* The stack of calls.                                                     *)

\* The values of ExitCode and of contents are what they are.
LEMMA Contents ==
    /\ "passed" # Absent /\ "failed" # Absent /\ "inputs_missing" # Absent
    /\ "pending" # Absent /\ "commit" # Absent
BY Zenon DEF Absent

\* A place before the last one.
LEMMA Below ==
  ASSUME NEW n \in Nat, NEW i \in 1 .. n, i # n
  PROVE  i < n /\ i \in 1 .. (n - 1) /\ i + 1 \in 1 .. n /\ n \in 1 .. n
OBVIOUS

\* A statement of the command that moves is followed by another of its own.
LEMMA GotoKeeps ==
  ASSUME StackInv, NEW kind \in Kinds, NEW from, NEW label, label # "check",
         At(kind, from), Goto(kind, label)
  PROVE  /\ StackInv'
         /\ Inside(kind)
         /\ \A k \in Kinds : Inside(k)' <=> Inside(k)
         /\ pc'[kind] = label /\ \A k \in Kinds : k # kind => pc'[k] = pc[k]
<1>1. /\ stack # <<>> /\ stack[Len(stack)] = kind /\ stack' = stack /\ ret' = ret
      /\ pc' = [pc EXCEPT ![kind] = label] /\ Len(stack) \in DOMAIN stack
      /\ Len(stack) \in Nat /\ DOMAIN stack = 1 .. Len(stack)
  BY DEF At, Goto, StackInv
<1>2. pc'[kind] = label /\ DOMAIN pc' = Kinds /\ \A k \in Kinds : k # kind => pc'[k] = pc[k]
  BY <1>1 DEF StackInv
<1>3. \A i \in 1 .. (Len(stack) - 1) : stack[i] # kind /\ stack[i] \in Kinds
  <2> TAKE i \in 1 .. (Len(stack) - 1)
  <2>1. i \in DOMAIN stack /\ i < Len(stack)
    BY <1>1
  <2>2. Rank[stack[i]] < Rank[stack[Len(stack)]] /\ stack[i] \in Kinds
    BY <2>1, <1>1 DEF StackInv
  <2>3. Rank[kind] \in Nat
    BY DEF Kinds, Rank
  <2> QED BY <2>2, <2>3, <1>1
<1>4. StackInv'
  BY <1>1, <1>2, <1>3 DEF StackInv, Top
<1> QED BY <1>1, <1>2, <1>4 DEF Inside

\* A command that is called begins, and its caller waits.
LEMMA CallKeeps ==
  ASSUME StackInv, NEW caller \in Kinds, NEW callee \in Kinds, NEW from,
         <<caller, callee>> \in Calls, At(caller, from), Call(caller, callee)
  PROVE  /\ StackInv'
         /\ Inside(caller)
         /\ \A k \in Kinds : Inside(k)' <=> Inside(k) \/ k = callee
         /\ pc'[caller] = "check" /\ pc'[callee] = "begin"
         /\ \A k \in Kinds : k \notin {caller, callee} => pc'[k] = pc[k]
         /\ ret' = NoReturn
         /\ stack' # <<>> /\ stack'[1] = stack[1]
<1>1. /\ stack # <<>> /\ stack[Len(stack)] = caller /\ stack' = Append(stack, callee)
      /\ ret' = NoReturn /\ stack \in Seq(Kinds)
      /\ pc' = [pc EXCEPT ![caller] = "check", ![callee] = "begin"]
      /\ Len(stack) \in DOMAIN stack
      /\ Len(stack) \in Nat /\ DOMAIN stack = 1 .. Len(stack)
  BY DEF At, Call, StackInv
<1>2. Rank[caller] < Rank[callee] /\ caller # callee /\ \A k \in Kinds : Rank[k] \in Nat
  BY DEF Calls, Rank, Kinds
<1>3. /\ pc'[caller] = "check" /\ pc'[callee] = "begin" /\ DOMAIN pc' = Kinds
      /\ \A k \in Kinds : k \notin {caller, callee} => pc'[k] = pc[k]
  BY <1>1, <1>2 DEF StackInv
<1>4. /\ stack' \in Seq(Kinds) /\ Len(stack') = Len(stack) + 1
      /\ stack'[Len(stack) + 1] = callee
      /\ \A i \in 1 .. Len(stack) : stack'[i] = stack[i]
      /\ DOMAIN stack' = 1 .. (Len(stack) + 1) /\ stack' # <<>>
  BY <1>1
<1>0. Len(stack) \in Nat /\ DOMAIN stack = 1 .. Len(stack) /\ stack[Len(stack)] = caller
  BY <1>1
<1>5. \A i \in 1 .. Len(stack) : stack[i] \in Kinds /\ Rank[stack[i]] <= Rank[caller]
  <2> TAKE i \in 1 .. Len(stack)
  <2>1. stack[i] \in Kinds
    BY <1>1
  <2>2. CASE i = Len(stack)
    BY <1>0, <1>2, <2>1, <2>2
  <2>3. CASE i # Len(stack)
    <3>1. i \in DOMAIN stack /\ Len(stack) \in DOMAIN stack /\ i < Len(stack)
      <4>1. i < Len(stack) /\ Len(stack) \in 1 .. Len(stack)
        BY <1>0, <2>3, Below
      <4> QED BY <1>0, <4>1
    <3>2. Rank[stack[i]] < Rank[caller]
      BY <1>0, <3>1 DEF StackInv
    <3> QED BY <3>2, <2>1, <1>2
  <2> QED BY <2>2, <2>3
<1>6. \A i \in 1 .. Len(stack) : stack[i] # callee /\ Rank[stack[i]] < Rank[callee]
  BY <1>5, <1>2
<1>7. \A i \in 1 .. (Len(stack) - 1) : pc[stack[i]] = "check" /\ pc'[stack[i]] = "check"
  <2> TAKE i \in 1 .. (Len(stack) - 1)
  <2>1. i \in 1 .. Len(stack)
    BY <1>0
  <2>2. pc[stack[i]] = "check"
    BY DEF StackInv
  <2>3. stack[i] \in Kinds /\ stack[i] # callee
    BY <2>1, <1>5, <1>6
  <2> QED BY <2>2, <2>3, <1>3
<1>8. \A i \in 1 .. Len(stack) :
        <<stack'[i], stack'[i + 1]>> \in Calls /\ pc'[stack'[i]] = "check"
  <2> TAKE i \in 1 .. Len(stack)
  <2>1. CASE i = Len(stack)
    BY <2>1, <1>1, <1>3, <1>4
  <2>2. CASE i # Len(stack)
    <3>1. i \in 1 .. (Len(stack) - 1) /\ i + 1 \in 1 .. Len(stack)
      BY <2>2, <1>0, Below
    <3>2. <<stack[i], stack[i + 1]>> \in Calls
      BY <3>1 DEF StackInv
    <3> QED BY <3>1, <3>2, <1>4, <1>7
  <2> QED BY <2>1, <2>2
<1>9. \A i, j \in DOMAIN stack' : i < j => Rank[stack'[i]] < Rank[stack'[j]]
  <2> SUFFICES ASSUME NEW i \in DOMAIN stack', NEW j \in DOMAIN stack', i < j
               PROVE  Rank[stack'[i]] < Rank[stack'[j]]
    OBVIOUS
  <2>0. i \in 1 .. Len(stack)
    BY <1>1, <1>4
  <2>1. CASE j = Len(stack) + 1
    BY <2>0, <2>1, <1>4, <1>6
  <2>2. CASE j # Len(stack) + 1
    <3>1. j \in 1 .. Len(stack)
      BY <2>2, <1>1, <1>4
    <3> QED BY <2>0, <3>1, <1>1, <1>4 DEF StackInv
  <2> QED BY <2>1, <2>2
<1>10. ret'.who = Nothing
  BY <1>1 DEF NoReturn
<1>11. pc'[stack'[Len(stack')]] = "begin"
  BY <1>3, <1>4
<1>12. StackInv'
  BY <1>3, <1>4, <1>8, <1>9, <1>10, <1>11 DEF StackInv, Top
<1>13. \A k \in Kinds : Inside(k)' <=> Inside(k) \/ k = callee
  BY <1>1, <1>4 DEF Inside
<1>14. Inside(caller) /\ stack'[1] = stack[1]
  BY <1>1, <1>4 DEF Inside
<1> QED BY <1>1, <1>3, <1>4, <1>12, <1>13, <1>14

\* A command that ends leaves the chain to its caller, which waited for it.
LEMMA ReturnKeeps ==
  ASSUME StackInv, stack # <<>>, NEW exit, NEW said, NEW dir, Return(exit, said, dir)
  PROVE  /\ StackInv'
         /\ Top \in Kinds /\ Inside(Top)
         /\ \A k \in Kinds : Inside(k)' <=> Inside(k) /\ k # Top
         /\ pc' = pc
         /\ ret' = [who |-> Top, exit |-> exit, said |-> said, dir |-> dir]
         /\ stack' = <<>> \/ stack'[1] = stack[1]
<1>1. /\ Len(stack) \in Nat /\ Len(stack) \in DOMAIN stack /\ DOMAIN stack = 1 .. Len(stack)
      /\ stack \in Seq(Kinds) /\ stack' = SubSeq(stack, 1, Len(stack) - 1) /\ pc' = pc
      /\ ret' = [who |-> Top, exit |-> exit, said |-> said, dir |-> dir]
      /\ Top \in Kinds
  BY DEF Return, StackInv, Top
<1>2. /\ stack' \in Seq(Kinds) /\ Len(stack') = Len(stack) - 1
      /\ DOMAIN stack' = 1 .. (Len(stack) - 1)
      /\ \A i \in 1 .. (Len(stack) - 1) : stack'[i] = stack[i]
  BY <1>1
<1>3. \A k \in Kinds : Rank[k] \in Nat
  BY DEF Kinds, Rank
<1>4. \A i \in 1 .. (Len(stack) - 1) : Rank[stack[i]] < Rank[Top] /\ stack[i] # Top
  <2> TAKE i \in 1 .. (Len(stack) - 1)
  <2>1. i \in DOMAIN stack /\ i < Len(stack)
    BY <1>1
  <2> QED BY <2>1, <1>1, <1>3 DEF StackInv, Top
<1>5. ret'.who = Top /\ \A i \in DOMAIN stack' : Rank[stack'[i]] < Rank[ret'.who]
  BY <1>1, <1>2, <1>4
<1>6. \A i \in 1 .. (Len(stack') - 1) :
        <<stack'[i], stack'[i + 1]>> \in Calls /\ pc'[stack'[i]] = "check"
  <2> TAKE i \in 1 .. (Len(stack') - 1)
  <2>1. i \in 1 .. (Len(stack) - 1) /\ i + 1 \in 1 .. (Len(stack) - 1)
    BY <1>1, <1>2
  <2> QED BY <2>1, <1>1, <1>2 DEF StackInv
<1>7. \A i, j \in DOMAIN stack' : i < j => Rank[stack'[i]] < Rank[stack'[j]]
  BY <1>1, <1>2 DEF StackInv
<1>8. stack' # <<>> => <<stack'[Len(stack')], ret'.who>> \in Calls
  <2> SUFFICES ASSUME stack' # <<>> PROVE <<stack'[Len(stack')], ret'.who>> \in Calls
    OBVIOUS
  <2>1. Len(stack) - 1 \in 1 .. (Len(stack) - 1)
    BY <1>1, <1>2
  <2>2. <<stack[Len(stack) - 1], stack[Len(stack) - 1 + 1]>> \in Calls
    BY <2>1 DEF StackInv
  <2>3. Len(stack) - 1 + 1 = Len(stack)
    BY <1>1
  <2>4. stack'[Len(stack')] = stack[Len(stack) - 1]
    BY <2>1, <1>2
  <2> QED BY <2>2, <2>3, <2>4, <1>5 DEF Top
<1>9. DOMAIN pc' = Kinds /\ ret'.who \in Kinds
  BY <1>1, <1>5 DEF StackInv
<1>10. StackInv'
  BY <1>2, <1>5, <1>6, <1>7, <1>8, <1>9 DEF StackInv, Top
<1>11. \A k \in Kinds : Inside(k)' <=> Inside(k) /\ k # Top
  <2> TAKE k \in Kinds
  <2>1. ASSUME Inside(k)' PROVE Inside(k) /\ k # Top
    <3>1. PICK i \in DOMAIN stack' : stack'[i] = k
      BY <2>1 DEF Inside
    <3>2. i \in 1 .. (Len(stack) - 1) /\ i \in DOMAIN stack /\ stack[i] = k
      BY <3>1, <1>1, <1>2
    <3> QED BY <3>2, <1>4 DEF Inside
  <2>2. ASSUME Inside(k), k # Top PROVE Inside(k)'
    <3>1. PICK i \in DOMAIN stack : stack[i] = k
      BY <2>2 DEF Inside
    <3>2. i # Len(stack)
      BY <3>1, <2>2 DEF Top
    <3>3. i \in DOMAIN stack' /\ stack'[i] = k
      BY <3>1, <3>2, <1>1, <1>2
    <3> QED BY <3>3 DEF Inside
  <2> QED BY <2>1, <2>2
<1>12. Inside(Top)
  BY <1>1 DEF Inside, Top
<1>13. stack' = <<>> \/ stack'[1] = stack[1]
  BY <1>1, <1>2
<1> QED BY <1>1, <1>10, <1>11, <1>12, <1>13

-----------------------------------------------------------------------------
(* How each action moves the stack.                                        *)

\* The command that moves goes from one of its statements to another.
Goes(kind, from, label) ==
    /\ StackInv' /\ stack' = stack /\ ret' = ret
    /\ At(kind, from) /\ Inside(kind) /\ Top = kind /\ pc[kind] = from
    /\ \A k \in Kinds : Inside(k)' <=> Inside(k)
    /\ pc'[kind] = label /\ \A k \in Kinds : k # kind => pc'[k] = pc[k]

\* It calls another.
Calling(caller, from, callee) ==
    /\ StackInv' /\ stack' # <<>> /\ stack'[1] = stack[1] /\ ret' = NoReturn
    /\ At(caller, from) /\ Inside(caller) /\ Top = caller /\ pc[caller] = from
    /\ \A k \in Kinds : Inside(k)' <=> Inside(k) \/ k = callee
    /\ pc'[caller] = "check" /\ pc'[callee] = "begin"
    /\ \A k \in Kinds : k \notin {caller, callee} => pc'[k] = pc[k]

\* It ends.
Ends(kind, exit, said, dir) ==
    /\ StackInv' /\ (stack' = <<>> \/ stack'[1] = stack[1])
    /\ Inside(kind) /\ Top = kind
    /\ \A k \in Kinds : Inside(k)' <=> Inside(k) /\ k # kind
    /\ pc' = pc
    /\ ret' = [who |-> kind, exit |-> exit, said |-> said, dir |-> dir]

\* It does not move.
Rests == StackInv' /\ UNCHANGED <<stack, pc, ret>> /\ \A k \in Kinds : Inside(k)' <=> Inside(k)

\* Goto is such a move.
LEMMA GoesBy ==
  ASSUME StackInv, NEW kind \in Kinds, NEW from, NEW label, label # "check",
         At(kind, from), Goto(kind, label)
  PROVE  Goes(kind, from, label)
<1>1. Top = kind /\ pc[kind] = from /\ stack' = stack /\ ret' = ret
  BY DEF At, Goto, Top
<1>2. /\ StackInv' /\ Inside(kind)
      /\ \A k \in Kinds : Inside(k)' <=> Inside(k)
      /\ pc'[kind] = label /\ \A k \in Kinds : k # kind => pc'[k] = pc[k]
  BY GotoKeeps, Zenon
<1> QED BY <1>1, <1>2, Zenon DEF Goes

\* Call is such a move.
LEMMA CallingBy ==
  ASSUME StackInv, NEW caller \in Kinds, NEW callee \in Kinds, NEW from,
         <<caller, callee>> \in Calls, At(caller, from), Call(caller, callee)
  PROVE  Calling(caller, from, callee)
BY CallKeeps DEF Calling, At, Top

\* Return is such a move.
LEMMA EndsBy ==
  ASSUME StackInv, NEW kind \in Kinds, NEW from, At(kind, from),
         NEW exit, NEW said, NEW dir, Return(exit, said, dir)
  PROVE  Ends(kind, exit, said, dir)
<1>1. stack # <<>> /\ Top = kind
  BY DEF At, Top
<1> QED BY <1>1, ReturnKeeps DEF Ends

\* Nothing happens to the stack.
LEMMA RestsBy ==
  ASSUME StackInv, UNCHANGED <<stack, pc, ret>>
  PROVE  Rests
BY DEF Rests, StackInv, Top, Inside

\* The names of the commands.
LEMMA Names ==
  /\ "all" \in Kinds /\ "handoff" \in Kinds /\ "review" \in Kinds /\ "leaf" \in Kinds
  /\ <<"handoff", "review">> \in Calls /\ <<"review", "leaf">> \in Calls
BY DEF Kinds, Calls

\* The actions that go from one statement to the next.
LEMMA Going ==
  ASSUME StackInv
  PROVE  /\ Record => Goes("all", "check", "wait")
         /\ WriteAggregate => Goes("all", "wait", "print")
         /\ NameDirectory => Goes("leaf", "begin", "run")
         /\ RefuseReview => Goes("review", "failure", "print")
         /\ MissPhase10 => Goes("review", "copy", "failure")
         /\ CopyPhase10 => Goes("review", "copy", "package")
         /\ WritePackage => Goes("review", "package", "final")
         /\ WriteReviewFinal => Goes("review", "final", "raw")
         /\ WriteReviewRaw => Goes("review", "raw", "print")
         /\ RefuseHandoff => Goes("handoff", "failure", "print")
         /\ MissPhase11 => Goes("handoff", "copy", "failure")
         /\ CopyPhase11 => Goes("handoff", "copy", "package")
         /\ BuildHandoff => Goes("handoff", "package", "final")
         /\ WriteHandoffFinal => Goes("handoff", "final", "raw")
         /\ WriteHandoffRaw => Goes("handoff", "raw", "artifacts")
         /\ WriteArtifacts => Goes("handoff", "artifacts", "hash")
         /\ RenderAndHash => Goes("handoff", "hash", "validate")
         /\ ValidateHandoff => Goes("handoff", "validate", "print")
<1>1. ASSUME Record PROVE Goes("all", "check", "wait")
  <2>1. At("all", "check") /\ Goto("all", "wait")
    BY <1>1, Zenon DEF Record
  <2>2. "wait" # "check"
    OBVIOUS
  <2> QED BY <2>1, <2>2, GoesBy, Names, Zenon
<1>2. ASSUME WriteAggregate PROVE Goes("all", "wait", "print")
  <2>1. At("all", "wait") /\ Goto("all", "print")
    BY <1>2, Zenon DEF WriteAggregate
  <2>2. "print" # "check"
    OBVIOUS
  <2> QED BY <2>1, <2>2, GoesBy, Names, Zenon
<1>3. ASSUME NameDirectory PROVE Goes("leaf", "begin", "run")
  <2>1. At("leaf", "begin") /\ Goto("leaf", "run")
    BY <1>3, Zenon DEF NameDirectory
  <2>2. "run" # "check"
    OBVIOUS
  <2> QED BY <2>1, <2>2, GoesBy, Names, Zenon
<1>4. ASSUME RefuseReview PROVE Goes("review", "failure", "print")
  <2>1. At("review", "failure") /\ Goto("review", "print")
    BY <1>4, Zenon DEF RefuseReview
  <2>2. "print" # "check"
    OBVIOUS
  <2> QED BY <2>1, <2>2, GoesBy, Names, Zenon
<1>5. ASSUME CopyPhase10 PROVE Goes("review", "copy", "package")
  <2>1. At("review", "copy") /\ Goto("review", "package")
    BY <1>5, Zenon DEF CopyPhase10
  <2>2. "package" # "check"
    OBVIOUS
  <2> QED BY <2>1, <2>2, GoesBy, Names, Zenon
<1>6. ASSUME WritePackage PROVE Goes("review", "package", "final")
  <2>1. At("review", "package") /\ Goto("review", "final")
    BY <1>6, Zenon DEF WritePackage
  <2>2. "final" # "check"
    OBVIOUS
  <2> QED BY <2>1, <2>2, GoesBy, Names, Zenon
<1>7. ASSUME WriteReviewFinal PROVE Goes("review", "final", "raw")
  <2>1. At("review", "final") /\ Goto("review", "raw")
    BY <1>7, Zenon DEF WriteReviewFinal
  <2>2. "raw" # "check"
    OBVIOUS
  <2> QED BY <2>1, <2>2, GoesBy, Names, Zenon
<1>8. ASSUME WriteReviewRaw PROVE Goes("review", "raw", "print")
  <2>1. At("review", "raw") /\ Goto("review", "print")
    BY <1>8, Zenon DEF WriteReviewRaw
  <2>2. "print" # "check"
    OBVIOUS
  <2> QED BY <2>1, <2>2, GoesBy, Names, Zenon
<1>9. ASSUME RefuseHandoff PROVE Goes("handoff", "failure", "print")
  <2>1. At("handoff", "failure") /\ Goto("handoff", "print")
    BY <1>9, Zenon DEF RefuseHandoff
  <2>2. "print" # "check"
    OBVIOUS
  <2> QED BY <2>1, <2>2, GoesBy, Names, Zenon
<1>10. ASSUME CopyPhase11 PROVE Goes("handoff", "copy", "package")
  <2>1. At("handoff", "copy") /\ Goto("handoff", "package")
    BY <1>10, Zenon DEF CopyPhase11
  <2>2. "package" # "check"
    OBVIOUS
  <2> QED BY <2>1, <2>2, GoesBy, Names, Zenon
<1>11. ASSUME BuildHandoff PROVE Goes("handoff", "package", "final")
  <2>1. At("handoff", "package") /\ Goto("handoff", "final")
    BY <1>11, Zenon DEF BuildHandoff
  <2>2. "final" # "check"
    OBVIOUS
  <2> QED BY <2>1, <2>2, GoesBy, Names, Zenon
<1>12. ASSUME WriteHandoffFinal PROVE Goes("handoff", "final", "raw")
  <2>1. At("handoff", "final") /\ Goto("handoff", "raw")
    BY <1>12, Zenon DEF WriteHandoffFinal
  <2>2. "raw" # "check"
    OBVIOUS
  <2> QED BY <2>1, <2>2, GoesBy, Names, Zenon
<1>13. ASSUME WriteHandoffRaw PROVE Goes("handoff", "raw", "artifacts")
  <2>1. At("handoff", "raw") /\ Goto("handoff", "artifacts")
    BY <1>13, Zenon DEF WriteHandoffRaw
  <2>2. "artifacts" # "check"
    OBVIOUS
  <2> QED BY <2>1, <2>2, GoesBy, Names, Zenon
<1>14. ASSUME WriteArtifacts PROVE Goes("handoff", "artifacts", "hash")
  <2>1. At("handoff", "artifacts") /\ Goto("handoff", "hash")
    BY <1>14, Zenon DEF WriteArtifacts
  <2>2. "hash" # "check"
    OBVIOUS
  <2> QED BY <2>1, <2>2, GoesBy, Names, Zenon
<1>15. ASSUME RenderAndHash PROVE Goes("handoff", "hash", "validate")
  <2>1. At("handoff", "hash") /\ Goto("handoff", "validate")
    BY <1>15, Zenon DEF RenderAndHash
  <2>2. "validate" # "check"
    OBVIOUS
  <2> QED BY <2>1, <2>2, GoesBy, Names, Zenon
<1>16. ASSUME ValidateHandoff PROVE Goes("handoff", "validate", "print")
  <2>1. At("handoff", "validate") /\ Goto("handoff", "print")
    BY <1>16, Zenon DEF ValidateHandoff
  <2>2. "print" # "check"
    OBVIOUS
  <2> QED BY <2>1, <2>2, GoesBy, Names, Zenon
<1>17. ASSUME MissPhase10 PROVE Goes("review", "copy", "failure")
  <2>1. At("review", "copy") /\ Goto("review", "failure")
    BY <1>17, Zenon DEF MissPhase10
  <2>2. "failure" # "check"
    OBVIOUS
  <2> QED BY <2>1, <2>2, GoesBy, Names, Zenon
<1>18. ASSUME MissPhase11 PROVE Goes("handoff", "copy", "failure")
  <2>1. At("handoff", "copy") /\ Goto("handoff", "failure")
    BY <1>18, Zenon DEF MissPhase11
  <2>2. "failure" # "check"
    OBVIOUS
  <2> QED BY <2>1, <2>2, GoesBy, Names, Zenon
<1> QED BY <1>1, <1>2, <1>3, <1>4, <1>5, <1>6, <1>7, <1>8, <1>9, <1>10, <1>11, <1>12, <1>13,
           <1>14, <1>15, <1>16, <1>17, <1>18

\* The two that go by what their child printed.
LEMMA Checking ==
  ASSUME StackInv
  PROVE  /\ CheckPhase10 => \E label \in {"copy", "failure"} :
                Goes("review", "check", label) /\ (label = "copy" => ChildPassed)
         /\ CheckPhase11 => \E label \in {"copy", "failure"} :
                Goes("handoff", "check", label) /\ (label = "copy" => ChildPassed)
<1>1. ASSUME CheckPhase10
      PROVE  \E label \in {"copy", "failure"} :
                Goes("review", "check", label) /\ (label = "copy" => ChildPassed)
  <2> DEFINE label == IF ChildPassed THEN "copy" ELSE "failure"
  <2>1. At("review", "check") /\ Goto("review", label)
    BY <1>1, Zenon DEF CheckPhase10
  <2>2. label # "check" /\ label \in {"copy", "failure"} /\ (label = "copy" => ChildPassed)
    OBVIOUS
  <2> HIDE DEF label
  <2>3. Goes("review", "check", label)
    BY <2>1, <2>2, GoesBy, Names, Zenon
  <2> QED BY <2>2, <2>3, Zenon
<1>2. ASSUME CheckPhase11
      PROVE  \E label \in {"copy", "failure"} :
                Goes("handoff", "check", label) /\ (label = "copy" => ChildPassed)
  <2> DEFINE label == IF ChildPassed THEN "copy" ELSE "failure"
  <2>1. At("handoff", "check") /\ Goto("handoff", label)
    BY <1>2, Zenon DEF CheckPhase11
  <2>2. label # "check" /\ label \in {"copy", "failure"} /\ (label = "copy" => ChildPassed)
    OBVIOUS
  <2> HIDE DEF label
  <2>3. Goes("handoff", "check", label)
    BY <2>1, <2>2, GoesBy, Names, Zenon
  <2> QED BY <2>2, <2>3, Zenon
<1> QED BY <1>1, <1>2

\* The actions that call.
LEMMA CallMoves ==
  ASSUME StackInv, Len(results) \in Nat
  PROVE  /\ StartSmoke => \E kind \in {"leaf", "review", "handoff"} :
                Calling("all", "wait", kind)
         /\ BeginReview => Calling("review", "begin", "leaf")
         /\ BeginHandoff => Calling("handoff", "begin", "review")
<1>1. ASSUME StartSmoke
      PROVE  \E kind \in {"leaf", "review", "handoff"} : Calling("all", "wait", kind)
  <2> DEFINE kind == Smokes[Len(results) + 1]
  <2>1. At("all", "wait") /\ Call("all", kind) /\ Len(results) < Len(Smokes)
    BY <1>1, Zenon DEF StartSmoke
  <2>2. kind \in {"leaf", "review", "handoff"}
    BY <2>1, SmokesAssumption
  <2> HIDE DEF kind
  <2>3. kind \in Kinds /\ <<"all", kind>> \in Calls
    BY <2>2 DEF Kinds, Calls
  <2>4. Calling("all", "wait", kind)
    BY <2>1, <2>3, CallingBy, Names, Zenon
  <2> QED BY <2>2, <2>4, Zenon
<1>2. ASSUME BeginReview PROVE Calling("review", "begin", "leaf")
  <2>1. At("review", "begin") /\ Call("review", "leaf")
    BY <1>2, Zenon DEF BeginReview
  <2> QED BY <2>1, CallingBy, Names, Zenon
<1>3. ASSUME BeginHandoff PROVE Calling("handoff", "begin", "review")
  <2>1. At("handoff", "begin") /\ Call("handoff", "review")
    BY <1>3, Zenon DEF BeginHandoff
  <2> QED BY <2>1, CallingBy, Names, Zenon
<1> QED BY <1>1, <1>2, <1>3

\* The actions with which a command ends.
LEMMA EndMoves ==
  ASSUME StackInv
  PROVE  /\ PrintTable =>
              /\ At("all", "print")
              /\ Ends("all", ExitCode(aggregate),
                      aggregate, OwnDir)
         /\ LeafRaises =>
              /\ At("leaf", "run")
              /\ Ends("leaf", "1",
                      "error", second)
         /\ RaiseReview =>
              /\ At("review", "failure")
              /\ Ends("review", "1",
                      "error", OwnDir)
         /\ PrintReview =>
              /\ At("review", "print")
              /\ Ends("review", ExitCode(reviewDir["raw.log"]),
                      reviewDir["raw.log"], OwnDir)
         /\ RaiseHandoff =>
              /\ At("handoff", "failure")
              /\ Ends("handoff", "1",
                      "error", OwnDir)
         /\ PrintHandoff =>
              /\ At("handoff", "print")
              /\ Ends("handoff", ExitCode(handoffDir["final_state.json"]),
                      handoffDir["final_state.json"], OwnDir)
         /\ LeafReturns => \E state \in {"passed", "failed", "inputs_missing"} :
              At("leaf", "run") /\ Ends("leaf", ExitCode(state), state, leaf.dir)
         /\ KillTop => \E kind \in Kinds : Ends(kind, "killed", Nothing, NoDir)
<1>1. ASSUME PrintTable
      PROVE  /\ At("all", "print")
             /\ Ends("all", ExitCode(aggregate),
                     aggregate, OwnDir)
  <2>1. At("all", "print") /\ Return(ExitCode(aggregate), aggregate, OwnDir)
    BY <1>1, Zenon DEF PrintTable
  <2> QED BY <2>1, EndsBy, Names, Zenon
<1>2. ASSUME LeafRaises
      PROVE  /\ At("leaf", "run")
             /\ Ends("leaf", "1",
                     "error", second)
  <2>1. At("leaf", "run") /\ Return("1", "error", second)
    BY <1>2, Zenon DEF LeafRaises
  <2> QED BY <2>1, EndsBy, Names, Zenon
<1>3. ASSUME RaiseReview
      PROVE  /\ At("review", "failure")
             /\ Ends("review", "1",
                     "error", OwnDir)
  <2>1. At("review", "failure") /\ Return("1", "error", OwnDir)
    BY <1>3, Zenon DEF RaiseReview
  <2> QED BY <2>1, EndsBy, Names, Zenon
<1>4. ASSUME PrintReview
      PROVE  /\ At("review", "print")
             /\ Ends("review", ExitCode(reviewDir["raw.log"]),
                     reviewDir["raw.log"], OwnDir)
  <2>1. /\ At("review", "print")
        /\ Return(ExitCode(reviewDir["raw.log"]), reviewDir["raw.log"], OwnDir)
    BY <1>4, Zenon DEF PrintReview
  <2> QED BY <2>1, EndsBy, Names, Zenon
<1>5. ASSUME RaiseHandoff
      PROVE  /\ At("handoff", "failure")
             /\ Ends("handoff", "1",
                     "error", OwnDir)
  <2>1. At("handoff", "failure") /\ Return("1", "error", OwnDir)
    BY <1>5, Zenon DEF RaiseHandoff
  <2> QED BY <2>1, EndsBy, Names, Zenon
<1>6. ASSUME PrintHandoff
      PROVE  /\ At("handoff", "print")
             /\ Ends("handoff", ExitCode(handoffDir["final_state.json"]),
                     handoffDir["final_state.json"], OwnDir)
  <2>1. /\ At("handoff", "print")
        /\ Return(ExitCode(handoffDir["final_state.json"]), handoffDir["final_state.json"],
                  OwnDir)
    BY <1>6, Zenon DEF PrintHandoff
  <2> QED BY <2>1, EndsBy, Names, Zenon
<1>7. ASSUME LeafReturns
      PROVE  \E state \in {"passed", "failed", "inputs_missing"} :
               At("leaf", "run") /\ Ends("leaf", ExitCode(state), state, leaf.dir)
  <2>1. PICK state \in {"passed", "failed", "inputs_missing"} :
          At("leaf", "run") /\ Return(ExitCode(state), state, leaf.dir)
    BY <1>7, Zenon DEF LeafReturns
  <2>2. Ends("leaf", ExitCode(state), state, leaf.dir)
    BY <2>1, EndsBy, Names, Zenon
  <2> QED BY <2>1, <2>2, Zenon
<1>8. ASSUME KillTop PROVE \E kind \in Kinds : Ends(kind, "killed", Nothing, NoDir)
  <2>1. stack # <<>> /\ Return("killed", Nothing, NoDir)
    BY <1>8, Zenon DEF KillTop
  <2>2. Top \in Kinds
    BY <2>1, ReturnKeeps, Zenon
  <2>3. Ends(Top, "killed", Nothing, NoDir)
    BY <2>1, ReturnKeeps, Zenon DEF Ends
  <2> QED BY <2>2, <2>3, Zenon
<1> QED BY <1>1, <1>2, <1>3, <1>4, <1>5, <1>6, <1>7, <1>8

\* The environment leaves the stack alone.
LEMMA RestMoves ==
  ASSUME StackInv, Tick \/ Flip \/ UNCHANGED vars
  PROVE  Rests
BY RestsBy DEF Tick, Flip, vars

-----------------------------------------------------------------------------
(* What the chain of calls says of the one that moves.                     *)

\* Who waits is below the one that moves.
LEMMA Waiting ==
  ASSUME StackInv, NEW k \in Kinds, Inside(k), k # Top
  PROVE  pc[k] = "check" /\ Top \in Kinds /\ Rank[k] < Rank[Top]
<1>1. PICK i \in DOMAIN stack : stack[i] = k
  BY DEF Inside
<1>2. Len(stack) \in Nat /\ DOMAIN stack = 1 .. Len(stack) /\ i # Len(stack)
  BY <1>1 DEF StackInv, Top
<1>3. i \in 1 .. Len(stack)
  BY <1>1, <1>2
<1>4. i < Len(stack) /\ i \in 1 .. (Len(stack) - 1) /\ Len(stack) \in 1 .. Len(stack)
  BY <1>2, <1>3, Below, Zenon
<1>5. pc[stack[i]] = "check"
  BY <1>4 DEF StackInv
<1>6. Rank[stack[i]] < Rank[stack[Len(stack)]]
  BY <1>2, <1>3, <1>4 DEF StackInv
<1>7. Top \in Kinds
  BY <1>4 DEF StackInv, Top
<1> QED BY <1>1, <1>5, <1>6, <1>7 DEF Top

\* What runs below whom.
LEMMA BelowWhom ==
  ASSUME StackInv
  PROVE  /\ Top = "all" => ~Inside("leaf") /\ ~Inside("review") /\ ~Inside("handoff")
         /\ Top = "handoff" => ~Inside("leaf") /\ ~Inside("review")
         /\ Top = "review" => ~Inside("leaf")
         /\ \A k \in Kinds : Inside(k) /\ k # Top => pc[k] = "check"
<1>1. \A k \in Kinds : Inside(k) /\ k # Top => pc[k] = "check" /\ Rank[k] < Rank[Top]
  BY Waiting
<1> QED BY <1>1 DEF Kinds, Rank

\* The last to end was called by none that runs.
LEMMA Returned ==
  ASSUME StackInv, NEW k \in Kinds, Inside(k), ret.who # Nothing
  PROVE  ret.who \in Kinds /\ Rank[k] < Rank[ret.who]
BY DEF StackInv, Inside

\* What has ended when one runs.
LEMMA ReturnedWhom ==
  ASSUME StackInv
  PROVE  /\ Inside("leaf") => ret.who = Nothing
         /\ Inside("review") => ret.who \in {Nothing, "leaf"}
         /\ Inside("handoff") => ret.who \in {Nothing, "leaf", "review"}
         /\ ret.who = "all" => stack = <<>>
<1>0. stack # <<>> => 1 \in DOMAIN stack /\ stack[1] \in Kinds
  BY DEF StackInv
<1>1. \A k \in Kinds : Inside(k) /\ ret.who # Nothing =>
        ret.who \in Kinds /\ Rank[k] < Rank[ret.who]
  BY Returned
<1>2. stack # <<>> => \E k \in Kinds : Inside(k)
  BY <1>0 DEF Inside
<1>3. "all" # Nothing /\ Rank["all"] = 0 /\ \A k \in Kinds : Rank[k] \in Nat
  BY DEF Nothing, Rank, Kinds
<1>4. ret.who = "all" => stack = <<>>
  BY <1>1, <1>2, <1>3
<1> QED BY <1>1, <1>4 DEF Kinds, Rank

\* The aggregator is the first.
LEMMA AllFirst ==
  ASSUME StackInv, Inside("all")
  PROVE  stack # <<>> /\ stack[1] = "all"
<1>1. PICK i \in DOMAIN stack : stack[i] = "all"
  BY DEF Inside
<1>2. Len(stack) \in Nat /\ DOMAIN stack = 1 .. Len(stack) /\ i \in 1 .. Len(stack)
  BY <1>1 DEF StackInv
<1>3. 1 \in DOMAIN stack /\ stack[1] \in Kinds
  BY <1>2 DEF StackInv
<1>4. i = 1 \/ 1 < i
  BY <1>2
<1>5. \A k \in Kinds : ~(Rank[k] < Rank["all"])
  BY DEF Kinds, Rank
<1>6. 1 < i => Rank[stack[1]] < Rank[stack[i]]
  BY <1>1, <1>3 DEF StackInv
<1>7. stack[1] = "all"
  BY <1>1, <1>3, <1>4, <1>5, <1>6
<1> QED BY <1>2, <1>3, <1>7

-----------------------------------------------------------------------------
(* The clock, the directories of the leaves and the records.               *)

\* A move that is none of the aggregator's, but perhaps its end.
Aside(k) == Inside(k)' => Inside(k) /\ pc'[k] = pc[k]
AsideAll ==
    /\ Aside("all")
    /\ stack' = <<>> \/ (stack # <<>> /\ stack'[1] = stack[1])
    /\ stack' # <<>> => (Inside("all") => Inside("all")')

\* What does not move the aggregator, and no later ret of its.
LEMMA AsideBy ==
  ASSUME StackInv
  PROVE  /\ \A from, label : \A k \in Kinds \ {"all"} : Goes(k, from, label) => AsideAll
         /\ \A from : \A c, k \in Kinds \ {"all"} : Calling(c, from, k) => AsideAll
         /\ \A exit, said, dir : \A k \in Kinds : Ends(k, exit, said, dir) => AsideAll
         /\ Rests => AsideAll
<1>0. \A k \in Kinds : Inside(k) => stack # <<>>
  BY DEF Inside
<1>1. ASSUME NEW from, NEW label, NEW k \in Kinds \ {"all"}, Goes(k, from, label) PROVE AsideAll
  BY <1>0, <1>1, Names DEF Goes, AsideAll, Aside
<1>2. ASSUME NEW from, NEW c \in Kinds \ {"all"}, NEW k \in Kinds \ {"all"}, Calling(c, from, k)
      PROVE  AsideAll
  BY <1>0, <1>2, Names DEF Calling, AsideAll, Aside
<1>3. ASSUME NEW exit, NEW said, NEW dir, NEW k \in Kinds, Ends(k, exit, said, dir) PROVE AsideAll
  <2>1. CASE k # "all"
    BY <1>0, <1>3, <2>1, Names DEF Ends, AsideAll, Aside
  <2>2. CASE k = "all"
    <3>1. StackInv' /\ ret'.who = "all"
      BY <1>3, <2>2 DEF Ends
    <3>2. stack' = <<>>
      <4>1. \A k1 \in Kinds : ~(Rank[k1] < Rank["all"])
        BY DEF Kinds, Rank
      <4>2. stack' # <<>> => 1 \in DOMAIN stack' /\ stack'[1] \in Kinds
        BY <3>1 DEF StackInv
      <4>3. stack' # <<>> => Rank[stack'[1]] < Rank["all"]
        BY <3>1, <4>2 DEF StackInv, Nothing
      <4> QED BY <4>1, <4>2, <4>3
    <3> QED BY <1>3, <2>2, <3>2, Names DEF Ends, AsideAll, Aside
  <2> QED BY <2>1, <2>2
<1>4. ASSUME Rests PROVE AsideAll
  BY <1>4, Names DEF Rests, AsideAll, Aside, StackInv
<1> QED BY <1>1, <1>2, <1>3, <1>4

\* The clock is kept by what does not touch it.
LEMMA ClockAside ==
  ASSUME ClockInv, AsideAll, UNCHANGED <<second, lastStart, results>>, leaf'.number \in Nat
  PROVE  ClockInv'
BY DEF ClockInv, AsideAll, Aside

\* Each entry is one.
LEMMA EntryTypes ==
  ASSUME ClockInv
  PROVE  /\ Len(results) \in Nat /\ DOMAIN results = 1 .. Len(results)
         /\ \A i \in DOMAIN results : results[i] \in Entries /\ results[i].started \in Nat
<1>1. /\ Len(results) \in Nat /\ DOMAIN results = 1 .. Len(results)
      /\ \A i \in DOMAIN results : results[i] \in Entries
  BY DEF ClockInv
<1> QED BY <1>1 DEF Entries

\* A sequence with one element more.
LEMMA Appended ==
  ASSUME NEW S, NEW s \in Seq(S), NEW e \in S
  PROVE  /\ Append(s, e) \in Seq(S) /\ Len(Append(s, e)) = Len(s) + 1
         /\ \A i \in DOMAIN Append(s, e) : \/ i \in DOMAIN s /\ Append(s, e)[i] = s[i]
                                           \/ i = Len(s) + 1 /\ Append(s, e)[i] = e
<1>1. /\ Append(s, e) \in Seq(S) /\ Len(Append(s, e)) = Len(s) + 1 /\ Len(s) \in Nat
      /\ DOMAIN s = 1 .. Len(s)
  OBVIOUS
<1>2. DOMAIN Append(s, e) = 1 .. (Len(s) + 1)
  BY <1>1
<1>3. ASSUME NEW i \in 1 .. (Len(s) + 1), i # Len(s) + 1
      PROVE  i \in DOMAIN s /\ Append(s, e)[i] = s[i]
  <2>1. i \in 1 .. Len(s)
    BY <1>1, <1>3
  <2> QED BY <2>1, <1>1
<1>4. Append(s, e)[Len(s) + 1] = e
  OBVIOUS
<1> QED BY <1>1, <1>2, <1>3, <1>4

\* A product grows with its factor.
LEMMA Product ==
  ASSUME NEW m \in Nat, NEW n \in Nat, NEW d \in Nat
  PROVE  /\ n * d \in Nat /\ (n + 1) * d = n * d + d
         /\ m <= n => m * d <= n * d
<1>1. n * d \in Nat /\ (n + 1) * d = n * d + d
  OBVIOUS
<1>2. ASSUME m <= n PROVE m * d <= n * d
  <2>1. PICK k \in Nat : n = m + k
    BY <1>2
  <2>2. n * d = m * d + k * d /\ k * d \in Nat /\ m * d \in Nat
    BY <2>1
  <2> QED BY <2>2
<1> QED BY <1>1, <1>2

\* The second is one of those the model has while a command runs.
LEMMA SecondInRange ==
  ASSUME StackInv, ClockInv, stack # <<>>
  PROVE  second \in Seconds
<1>0. MaxDelay \in Nat /\ MaxDelay >= 1 /\ Len(Smokes) \in Nat /\ Len(results) \in Nat
  BY BoundsAssumption, SmokesAssumption DEF ClockInv
<1>1. lastStart <= Len(Smokes) * MaxDelay
  <2>1. CASE Inside("all") /\ pc["all"] = "check"
    <3>1. lastStart <= (Len(results) + 1) * MaxDelay /\ Len(results) + 1 <= Len(Smokes)
      BY <2>1, <1>0 DEF ClockInv
    <3>2. (Len(results) + 1) * MaxDelay <= Len(Smokes) * MaxDelay
      BY <3>1, <1>0, Product
    <3>3. (Len(results) + 1) * MaxDelay \in Nat /\ Len(Smokes) * MaxDelay \in Nat
      BY <1>0, Product
    <3> QED BY <3>1, <3>2, <3>3 DEF ClockInv
  <2>2. CASE Inside("all") /\ pc["all"] # "check"
    <3>1. lastStart <= Len(results) * MaxDelay /\ Len(results) <= Len(Smokes)
      BY <2>2, <1>0 DEF ClockInv
    <3>2. Len(results) * MaxDelay <= Len(Smokes) * MaxDelay
      BY <3>1, <1>0, Product
    <3> QED BY <3>1, <3>2, <1>0, Product DEF ClockInv
  <2>3. CASE ~Inside("all")
    <3>1. lastStart = 0
      BY <2>3 DEF ClockInv
    <3> QED BY <3>1, <1>0, Product
  <2> QED BY <2>1, <2>2, <2>3
<1>2. second <= Len(Smokes) * MaxDelay + MaxDelay /\ second \in Nat /\ 1 <= second
  BY <1>0, <1>1, Product DEF ClockInv
<1>3. (Len(Smokes) + 1) * MaxDelay = Len(Smokes) * MaxDelay + MaxDelay
  BY <1>0, Product
<1>4. Len(Smokes) * MaxDelay \in Nat
  BY <1>0, Product
<1> QED BY <1>0, <1>2, <1>3, <1>4 DEF Seconds

\* Every step keeps the clock.
LEMMA ClockStep ==
  ASSUME StackInv, ClockInv, LeafInv, [Next]_vars
  PROVE  ClockInv'
<1>0. /\ Len(results) \in Nat /\ MaxDelay \in Nat /\ MaxDelay >= 1 /\ Len(Smokes) \in Nat
      /\ leaf.number \in Nat
  BY BoundsAssumption, SmokesAssumption DEF ClockInv
<1>1. CASE StartSmoke
  <2>1. PICK kind \in {"leaf", "review", "handoff"} : Calling("all", "wait", kind)
    BY <1>1, <1>0, CallMoves, Zenon
  <2>2. /\ lastStart' = second /\ second' = second /\ results' = results /\ leaf' = leaf
        /\ Len(results) < Len(Smokes) /\ second # lastStart
    BY <1>1 DEF StartSmoke, leaves
  <2>3. Inside("all") /\ Inside("all")' /\ pc'["all"] = "check" /\ pc["all"] = "wait"
    BY <2>1, Names DEF Calling
  <2>4. stack # <<>> /\ stack[1] = "all" /\ stack' # <<>> /\ stack'[1] = "all"
    BY <2>1, <2>3, AllFirst DEF Calling
  <2>5. lastStart <= Len(results) * MaxDelay
    BY <2>3 DEF ClockInv
  <2>6. second <= (Len(results) + 1) * MaxDelay /\ lastStart < second
    <3>1. /\ (Len(results) + 1) * MaxDelay = Len(results) * MaxDelay + MaxDelay
          /\ Len(results) * MaxDelay \in Nat
      BY <1>0, Product
    <3>2. second <= lastStart + MaxDelay /\ second \in Nat /\ lastStart \in Nat
          /\ lastStart <= second
      BY DEF ClockInv
    <3> QED BY <3>1, <3>2, <2>2, <2>5, <1>0
  <2>7. \A i \in DOMAIN results : results[i].started < second
    <3> TAKE i \in DOMAIN results
    <3>1. results[i].started <= lastStart /\ results[i].started \in Nat
      <4>1. results[i].started <= lastStart
        BY <2>3 DEF ClockInv
      <4> QED BY <4>1, EntryTypes
    <3> QED BY <3>1, <2>6 DEF ClockInv
  <2> QED BY <2>2, <2>3, <2>4, <2>6, <2>7, <1>0 DEF ClockInv
<1>2. CASE Record
  <2>1. Goes("all", "check", "wait")
    BY <1>2, Going, Zenon
  <2>2. /\ lastStart' = lastStart /\ second' = second /\ leaf' = leaf
        /\ results' = Append(results, [passed |-> ChildPassed, dir |-> ret.dir,
                                   leaf |-> leaf.number, started |-> lastStart])
    BY <1>2 DEF Record, leaves
  <2>3. Inside("all") /\ Inside("all")' /\ pc'["all"] = "wait" /\ pc["all"] = "check"
    BY <2>1, Names DEF Goes
  <2>4. stack' = stack /\ stack # <<>> /\ stack[1] = "all"
    BY <2>1, <2>3, AllFirst DEF Goes
  <2>5. /\ lastStart <= (Len(results) + 1) * MaxDelay /\ Len(results) < Len(Smokes)
        /\ \A i \in DOMAIN results : results[i].started < lastStart
    BY <2>3 DEF ClockInv
  <2> DEFINE new == [passed |-> ChildPassed, dir |-> ret.dir, leaf |-> leaf.number,
                     started |-> lastStart]
  <2>6. new \in Entries /\ new.started = lastStart
    BY DEF LeafInv, ClockInv, ChildPassed, Entries
  <2> HIDE DEF new
  <2>appended. results \in Seq(Entries) /\ results' = Append(results, new)
    BY <2>2 DEF ClockInv, new
  <2>7. /\ results' \in Seq(Entries)
        /\ Len(results') = Len(results) + 1
        /\ \A i \in DOMAIN results' : \/ i \in DOMAIN results /\ results'[i] = results[i]
                                      \/ i = Len(results) + 1 /\ results'[i] = new
    BY <2>appended, <2>6, Appended, Zenon
  <2>8. \A i \in DOMAIN results' : results'[i].started <= lastStart
    <3> TAKE i \in DOMAIN results'
    <3>1. CASE i \in DOMAIN results /\ results'[i] = results[i]
      <4>1. results[i].started < lastStart /\ results[i].started \in Nat
        BY <3>1, <2>5, EntryTypes
      <4> QED BY <3>1, <4>1 DEF ClockInv
    <3>2. CASE results'[i] = new
      BY <3>2, <2>6 DEF ClockInv
    <3> QED BY <3>1, <3>2, <2>7
  <2> QED BY <2>2, <2>3, <2>4, <2>5, <2>7, <2>8, <1>0 DEF ClockInv
<1>3. CASE WriteAggregate
  <2>1. Goes("all", "wait", "print")
    BY <1>3, Going, Zenon
  <2>2. /\ lastStart' = lastStart /\ second' = second /\ leaf' = leaf /\ results' = results
    BY <1>3 DEF WriteAggregate, leaves
  <2>3. /\ Inside("all") /\ Inside("all")' /\ pc'["all"] = "print" /\ pc["all"] = "wait"
        /\ stack' = stack
    BY <2>1, Names DEF Goes
  <2> QED BY <2>2, <2>3 DEF ClockInv
<1>4. CASE PrintTable \/ LeafReturns \/ LeafRaises \/ RaiseReview \/ PrintReview
           \/ RaiseHandoff \/ PrintHandoff \/ KillTop
  <2>1. \E kind \in Kinds : \E exit, said, dir : Ends(kind, exit, said, dir)
    <3>1. CASE PrintTable \/ LeafReturns \/ LeafRaises \/ RaiseReview
      BY <3>1, EndMoves, Names, Zenon
    <3>2. CASE PrintReview \/ RaiseHandoff \/ PrintHandoff \/ KillTop
      BY <3>2, EndMoves, Names, Zenon
    <3> QED BY <1>4, <3>1, <3>2
  <2>2. AsideAll
    BY <2>1, AsideBy, Zenon
  <2>3. UNCHANGED <<second, lastStart, results, leaf>>
    BY <1>4 DEF PrintTable, LeafReturns, LeafRaises, RaiseReview, PrintReview, RaiseHandoff,
                PrintHandoff, KillTop, all, leaves
  <2> QED BY <1>0, <2>2, <2>3, ClockAside
<1>5. CASE BeginReview \/ BeginHandoff
  <2>1. Calling("review", "begin", "leaf") \/ Calling("handoff", "begin", "review")
    BY <1>5, <1>0, CallMoves, Zenon
  <2>2. {"review", "leaf", "handoff"} \subseteq Kinds \ {"all"}
    BY DEF Kinds
  <2>3. AsideAll
    BY <2>1, <2>2, AsideBy
  <2>4. UNCHANGED <<second, lastStart, results, leaf>>
    BY <1>5 DEF BeginReview, BeginHandoff, all, leaves
  <2> QED BY <1>0, <2>3, <2>4, ClockAside
<1>6. CASE \/ NameDirectory \/ CheckPhase10 \/ RefuseReview \/ MissPhase10 \/ CopyPhase10
           \/ WritePackage \/ WriteReviewFinal \/ WriteReviewRaw
           \/ CheckPhase11 \/ RefuseHandoff \/ MissPhase11 \/ CopyPhase11
           \/ BuildHandoff \/ WriteHandoffFinal \/ WriteHandoffRaw \/ WriteArtifacts
           \/ RenderAndHash \/ ValidateHandoff
  <2>1. \E kind \in Kinds \ {"all"} : \E from, label : Goes(kind, from, label)
    <3>0. "review" \in Kinds \ {"all"} /\ "leaf" \in Kinds \ {"all"}
          /\ "handoff" \in Kinds \ {"all"}
      BY DEF Kinds
    <3>1. CASE CheckPhase10 \/ CheckPhase11
      BY <3>0, <3>1, Checking, Zenon
    <3>2. CASE \/ NameDirectory \/ RefuseReview \/ MissPhase10 \/ CopyPhase10
               \/ WritePackage \/ WriteReviewFinal \/ WriteReviewRaw
      BY <3>0, <3>2, Going, Zenon
    <3>3. CASE \/ RefuseHandoff \/ MissPhase11 \/ CopyPhase11 \/ BuildHandoff \/ WriteHandoffFinal
      BY <3>0, <3>3, Going, Zenon
    <3>4. CASE \/ WriteHandoffRaw \/ WriteArtifacts \/ RenderAndHash \/ ValidateHandoff
      BY <3>0, <3>4, Going, Zenon
    <3> QED BY <1>6, <3>1, <3>2, <3>3, <3>4
  <2>2. AsideAll
    BY <2>1, AsideBy, Zenon
  <2>3. UNCHANGED <<second, lastStart, results>> /\ leaf'.number \in Nat
    <3>1. CASE NameDirectory
      BY <3>1, <1>0 DEF NameDirectory, all
    <3>2. CASE ~NameDirectory
      BY <1>0, <1>6, <3>2 DEF CheckPhase10, RefuseReview, MissPhase10, CopyPhase10, WritePackage,
         WriteReviewFinal, WriteReviewRaw, CheckPhase11, RefuseHandoff, MissPhase11, CopyPhase11,
         BuildHandoff, WriteHandoffFinal, WriteHandoffRaw, WriteArtifacts,
         RenderAndHash, ValidateHandoff, all, leaves
    <3> QED BY <3>1, <3>2
  <2> QED BY <2>2, <2>3, ClockAside
<1>7. CASE Tick \/ Flip \/ UNCHANGED vars
  <2>1. Rests
    BY <1>7, RestMoves
  <2>2. UNCHANGED <<lastStart, results, leaf>> /\ second' \in {second, second + 1}
        /\ (second' = second \/ second < lastStart + MaxDelay)
    BY <1>7 DEF Tick, Flip, vars, all, leaves
  <2>3. /\ second' \in Nat /\ lastStart <= second' /\ second' <= lastStart + MaxDelay
        /\ 1 <= second'
    BY <2>2, <1>0 DEF ClockInv
  <2>4. Inside("all")' <=> Inside("all")
    BY <2>1, Names DEF Rests
  <2> QED BY <2>1, <2>2, <2>3, <2>4 DEF ClockInv, Rests
<1> QED BY <1>1, <1>2, <1>3, <1>4, <1>5, <1>6, <1>7, Zenon DEF Next, Step, Terminating

-----------------------------------------------------------------------------
(* Which actions move whom.                                                *)

AllGoes == Record \/ WriteAggregate
LeafGoes == NameDirectory
ReviewGoes ==
    \/ CheckPhase10 \/ RefuseReview \/ MissPhase10 \/ CopyPhase10 \/ WritePackage \/ WriteReviewFinal
    \/ WriteReviewRaw
HandoffGoes ==
    \/ CheckPhase11 \/ RefuseHandoff \/ MissPhase11 \/ CopyPhase11 \/ BuildHandoff \/ WriteHandoffFinal
    \/ WriteHandoffRaw \/ WriteArtifacts \/ RenderAndHash \/ ValidateHandoff
Ending ==
    \/ PrintTable \/ LeafReturns \/ LeafRaises \/ RaiseReview \/ PrintReview
    \/ RaiseHandoff \/ PrintHandoff \/ KillTop
Beginning == StartSmoke \/ BeginReview \/ BeginHandoff
Outside == Tick \/ Flip \/ UNCHANGED vars

\* These are all the steps.
LEMMA Sorted ==
  ASSUME [Next]_vars
  PROVE  \/ AllGoes \/ LeafGoes \/ ReviewGoes \/ HandoffGoes \/ Ending \/ Beginning \/ Outside
BY Zenon DEF Next, Step, Terminating, AllGoes, LeafGoes, ReviewGoes, HandoffGoes, Ending,
             Beginning, Outside

\* Each goes on with its own statements only.
LEMMA OwnMoves ==
  ASSUME StackInv, Len(results) \in Nat
  PROVE  /\ AllGoes => \E from, label : Goes("all", from, label)
         /\ LeafGoes => \E from, label : Goes("leaf", from, label)
         /\ ReviewGoes => \E from, label : Goes("review", from, label)
         /\ HandoffGoes => \E from, label : Goes("handoff", from, label)
         /\ Ending => \E k \in Kinds : \E exit, said, dir : Ends(k, exit, said, dir)
         /\ Beginning => \E c, k \in Kinds : \E from : Calling(c, from, k)
         /\ Outside => Rests
<1>1. AllGoes => \E from, label : Goes("all", from, label)
  BY Going, Zenon DEF AllGoes
<1>2. LeafGoes => \E from, label : Goes("leaf", from, label)
  BY Going, Zenon DEF LeafGoes
<1>3. ReviewGoes => \E from, label : Goes("review", from, label)
  <2>1. CheckPhase10 => \E from, label : Goes("review", from, label)
    BY Checking, Zenon
  <2>2. RefuseReview \/ MissPhase10 \/ CopyPhase10 \/ WritePackage \/ WriteReviewFinal \/ WriteReviewRaw
          => \E from, label : Goes("review", from, label)
    BY Going, Zenon
  <2> QED BY <2>1, <2>2, Zenon DEF ReviewGoes
<1>4. HandoffGoes => \E from, label : Goes("handoff", from, label)
  <2>1. CheckPhase11 => \E from, label : Goes("handoff", from, label)
    BY Checking, Zenon
  <2>2. RefuseHandoff \/ MissPhase11 \/ CopyPhase11 \/ BuildHandoff \/ WriteHandoffFinal
          => \E from, label : Goes("handoff", from, label)
    BY Going, Zenon
  <2>3. WriteHandoffRaw \/ WriteArtifacts \/ RenderAndHash \/ ValidateHandoff
          => \E from, label : Goes("handoff", from, label)
    BY Going, Zenon
  <2> QED BY <2>1, <2>2, <2>3, Zenon DEF HandoffGoes
<1>5. Ending => \E k \in Kinds : \E exit, said, dir : Ends(k, exit, said, dir)
  <2>1. CASE PrintTable \/ LeafReturns \/ LeafRaises \/ RaiseReview
    BY <2>1, EndMoves, Names, Zenon
  <2>2. CASE PrintReview \/ RaiseHandoff \/ PrintHandoff \/ KillTop
    BY <2>2, EndMoves, Names, Zenon
  <2> QED BY <2>1, <2>2, Zenon DEF Ending
<1>6. Beginning => \E c, k \in Kinds : \E from : Calling(c, from, k)
  <2>1. {"leaf", "review", "handoff"} \subseteq Kinds
    BY DEF Kinds
  <2>2. StartSmoke => \E k \in {"leaf", "review", "handoff"} : Calling("all", "wait", k)
    BY CallMoves, Zenon
  <2>3. StartSmoke => \E c, k \in Kinds : \E from : Calling(c, from, k)
    BY <2>1, <2>2, Names
  <2>4. BeginReview \/ BeginHandoff => \E c, k \in Kinds : \E from : Calling(c, from, k)
    BY CallMoves, Names, Zenon
  <2> QED BY <2>3, <2>4, Zenon DEF Beginning
<1>7. Outside => Rests
  BY RestMoves DEF Outside
<1> QED BY <1>1, <1>2, <1>3, <1>4, <1>5, <1>6, <1>7

\* Every step keeps the chain of calls.
LEMMA StackStep ==
  ASSUME StackInv, Len(results) \in Nat, [Next]_vars
  PROVE  StackInv'
BY Sorted, OwnMoves, Zenon DEF Goes, Ends, Calling, Rests

\* A command that takes none of its own statements stays where it is, is called or has gone.
LEMMA Others ==
  ASSUME StackInv, Len(results) \in Nat, [Next]_vars
  PROVE  /\ ~AllGoes /\ ~StartSmoke => Aside("all")
         /\ ~LeafGoes => Aside("leaf") \/ pc'["leaf"] = "begin"
         /\ ~ReviewGoes /\ ~BeginReview => Aside("review") \/ pc'["review"] = "begin"
         /\ ~HandoffGoes /\ ~BeginHandoff => Aside("handoff") \/ pc'["handoff"] = "begin"
<1>0. "all" \in Kinds /\ "handoff" \in Kinds /\ "review" \in Kinds /\ "leaf" \in Kinds
  BY Names
<1>1. \A k, o \in Kinds : \A from, label : Goes(o, from, label) => k = o \/ Aside(k)
  BY DEF Goes, Aside
<1>2. \A k, o \in Kinds : \A exit, said, dir : Ends(o, exit, said, dir) => Aside(k)
  BY DEF Ends, Aside
<1>3. \A k, o, c \in Kinds : \A from :
        Calling(c, from, o) => k = c \/ (k # o /\ Aside(k)) \/ (k = o /\ pc'[k] = "begin")
  BY DEF Calling, Aside
<1>4. Rests => \A k \in Kinds : Aside(k)
  BY DEF Rests, Aside, StackInv
<1>5. Ending => \A k \in Kinds : Aside(k)
  BY <1>2, OwnMoves, Zenon
<1>6. Outside => \A k \in Kinds : Aside(k)
  BY <1>4, OwnMoves, Zenon
<1>8. "all" # "leaf" /\ "all" # "review" /\ "all" # "handoff" /\ "leaf" # "review"
      /\ "leaf" # "handoff" /\ "review" # "handoff"
  OBVIOUS
<1>7. /\ StartSmoke => /\ Aside("leaf") \/ pc'["leaf"] = "begin"
                       /\ Aside("review") \/ pc'["review"] = "begin"
                       /\ Aside("handoff") \/ pc'["handoff"] = "begin"
      /\ BeginReview => Aside("all") /\ Aside("handoff")
                        /\ (Aside("leaf") \/ pc'["leaf"] = "begin")
      /\ BeginHandoff => Aside("all") /\ Aside("leaf")
                        /\ (Aside("review") \/ pc'["review"] = "begin")
  <2>1. StartSmoke => \E o \in {"leaf", "review", "handoff"} : Calling("all", "wait", o)
    BY CallMoves, Zenon
  <2>2. {"leaf", "review", "handoff"} \subseteq Kinds
    BY DEF Kinds
  <2>3. BeginReview => Calling("review", "begin", "leaf")
    BY CallMoves, Zenon
  <2>4. BeginHandoff => Calling("handoff", "begin", "review")
    BY CallMoves, Zenon
  <2> QED BY <2>1, <2>2, <2>3, <2>4, <1>0, <1>3, <1>8
<1>9. AllGoes => Aside("leaf") /\ Aside("review") /\ Aside("handoff")
  BY <1>0, <1>1, <1>8, OwnMoves, Zenon
<1>10. LeafGoes => Aside("all") /\ Aside("review") /\ Aside("handoff")
  BY <1>0, <1>1, <1>8, OwnMoves, Zenon
<1>11. ReviewGoes => Aside("all") /\ Aside("leaf") /\ Aside("handoff")
  BY <1>0, <1>1, <1>8, OwnMoves, Zenon
<1>12. HandoffGoes => Aside("all") /\ Aside("leaf") /\ Aside("review")
  BY <1>0, <1>1, <1>8, OwnMoves, Zenon
<1> QED BY <1>0, <1>5, <1>6, <1>7, <1>9, <1>10, <1>11, <1>12, Sorted, Zenon DEF Beginning

\* Only the end of a command tells its caller anything.
LEMMA NotTold ==
  ASSUME StackInv, Len(results) \in Nat, [Next]_vars, ~Ending
  PROVE  ret' = ret \/ ret' = NoReturn
BY Sorted, OwnMoves, Zenon DEF Goes, Calling, Rests

-----------------------------------------------------------------------------
(* What each step leaves alone.                                            *)

LeavesAlone ==
    /\ NameDirectory \/ LeafReturns \/ UNCHANGED leaves
    /\ Record \/ UNCHANGED results
    /\ StartSmoke \/ UNCHANGED lastStart
    /\ WriteAggregate \/ UNCHANGED aggregate
    /\ ReviewGoes \/ BeginReview \/ UNCHANGED reviewDir
    /\ WritePackage \/ UNCHANGED matrix
    /\ HandoffGoes \/ BeginHandoff \/ UNCHANGED handoffDir
    /\ HandoffGoes \/ UNCHANGED <<handoffVendor, prerequisites, manifest>>

\* No step changes what another one is for.
LEMMA Kept ==
  ASSUME [Next]_vars
  PROVE  LeavesAlone
<1>1. CASE AllGoes
  BY <1>1 DEF LeavesAlone, AllGoes, Record, WriteAggregate, leaves, all, review, handoff
<1>2. CASE LeafGoes
  BY <1>2 DEF LeavesAlone, LeafGoes, NameDirectory, leaves, all, review, handoff
<1>3. CASE ReviewGoes
  BY <1>3 DEF LeavesAlone, ReviewGoes, CheckPhase10, RefuseReview, MissPhase10, CopyPhase10,
     WritePackage, WriteReviewFinal, WriteReviewRaw, leaves, all, review, handoff
<1>4. CASE HandoffGoes
  BY <1>4 DEF LeavesAlone, HandoffGoes, CheckPhase11, RefuseHandoff, MissPhase11, CopyPhase11,
     BuildHandoff, WriteHandoffFinal, WriteHandoffRaw, WriteArtifacts, RenderAndHash,
     ValidateHandoff, leaves, all, review, handoff
<1>5. CASE Ending
  BY <1>5 DEF LeavesAlone, Ending, PrintTable, LeafReturns, LeafRaises, RaiseReview,
     PrintReview, RaiseHandoff, PrintHandoff, KillTop, leaves, all, review, handoff
<1>6. CASE Beginning
  BY <1>6 DEF LeavesAlone, Beginning, StartSmoke, BeginReview, BeginHandoff, leaves, all,
     review, handoff
<1>7. CASE Outside
  BY <1>7 DEF LeavesAlone, Outside, Tick, Flip, leaves, all, review, handoff, vars
<1> QED BY <1>1, <1>2, <1>3, <1>4, <1>5, <1>6, <1>7, Sorted, Zenon

\* A number of seconds is one of a directory, and these two are not.
LEMMA Directories ==
  /\ OwnDir \in Int /\ NoDir \in Int /\ OwnDir # NoDir
  /\ \A s \in Seconds : s \in Int /\ s # OwnDir /\ s # NoDir
<1>1. Seconds \subseteq Nat \ {0}
  BY DEF Seconds
<1> QED BY <1>1 DEF OwnDir, NoDir

\* What ended says where it was and how it ended.
LEMMA Told ==
  ASSUME StackInv, Ending
  PROVE  \/ LeafReturns
         \/ LeafRaises /\ ret'.who = "leaf" /\ ret'.exit = "1" /\ ret'.dir = second
         \/ KillTop /\ ret'.who \in Kinds /\ ret'.exit = "killed" /\ ret'.dir = NoDir
                    /\ ret'.said = Nothing
         \/ /\ PrintTable \/ RaiseReview \/ PrintReview \/ RaiseHandoff \/ PrintHandoff
            /\ ret'.who \in Kinds \ {"leaf"} /\ ret'.exit \in {"0", "1"} /\ ret'.dir = OwnDir
<1>0. \A s : ExitCode(s) \in {"0", "1"}
  BY DEF ExitCode
<1>1. CASE LeafReturns
  BY <1>1
<1>2. CASE LeafRaises
  <2>1. Ends("leaf", "1", "error", second)
    BY <1>2, EndMoves, Zenon
  <2> QED BY <1>2, <2>1 DEF Ends
<1>3. CASE KillTop
  <2>1. PICK kind \in Kinds : Ends(kind, "killed", Nothing, NoDir)
    BY <1>3, EndMoves, Zenon
  <2> QED BY <1>3, <2>1 DEF Ends
<1>4. CASE PrintTable
  <2>1. Ends("all", ExitCode(aggregate), aggregate, OwnDir)
    BY <1>4, EndMoves, Zenon
  <2> QED BY <1>0, <1>4, <2>1 DEF Ends, Kinds
<1>5. CASE RaiseReview
  <2>1. Ends("review", "1", "error", OwnDir)
    BY <1>5, EndMoves, Zenon
  <2> QED BY <1>5, <2>1 DEF Ends, Kinds
<1>6. CASE PrintReview
  <2>1. Ends("review", ExitCode(reviewDir["raw.log"]), reviewDir["raw.log"], OwnDir)
    BY <1>6, EndMoves, Zenon
  <2> QED BY <1>0, <1>6, <2>1 DEF Ends, Kinds
<1>7. CASE RaiseHandoff
  <2>1. Ends("handoff", "1", "error", OwnDir)
    BY <1>7, EndMoves, Zenon
  <2> QED BY <1>7, <2>1 DEF Ends, Kinds
<1>8. CASE PrintHandoff
  <2>1. Ends("handoff", ExitCode(handoffDir["final_state.json"]), handoffDir["final_state.json"],
             OwnDir)
    BY <1>8, EndMoves, Zenon
  <2> QED BY <1>0, <1>8, <2>1 DEF Ends, Kinds
<1> QED BY <1>1, <1>2, <1>3, <1>4, <1>5, <1>6, <1>7, <1>8, Zenon DEF Ending

\* What a leaf that returns did.
LEMMA LeafTold ==
  ASSUME StackInv, LeafInv, LeafReturns
  PROVE  /\ Inside("leaf") /\ Top = "leaf" /\ leaf.dir \in Seconds /\ lastStart <= leaf.dir
         /\ ret'.who = "leaf" /\ ret'.exit \in {"0", "1"} /\ ret'.dir = leaf.dir
         /\ leaf' = leaf /\ DOMAIN wrote' = Seconds /\ wrote'[leaf.dir] = leaf.number
         /\ \A s \in Seconds : s # leaf.dir => wrote'[s] = wrote[s]
<1>1. PICK state \in {"passed", "failed", "inputs_missing"} :
        At("leaf", "run") /\ Ends("leaf", ExitCode(state), state, leaf.dir)
  BY EndMoves, Zenon
<1>2. ExitCode(state) \in {"0", "1"}
  BY DEF ExitCode
<1>3. /\ Inside("leaf") /\ Top = "leaf" /\ pc["leaf"] = "run"
      /\ ret'.who = "leaf" /\ ret'.exit \in {"0", "1"} /\ ret'.dir = leaf.dir
  BY <1>1, <1>2 DEF Ends, At
<1>4. leaf.dir \in Seconds /\ lastStart <= leaf.dir /\ DOMAIN wrote = Seconds
  BY <1>3 DEF LeafInv
<1>5. wrote' = [wrote EXCEPT ![leaf.dir] = leaf.number] /\ leaf' = leaf
  BY DEF LeafReturns
<1> QED BY <1>3, <1>4, <1>5

\* Who writes now writes to none of the recorded directories of the smokes' own seconds.
LEMMA NotAgain ==
  ASSUME StackInv, ClockInv, LeafInv, LeafReturns
  PROVE  \A i \in DOMAIN results : results[i].started # leaf.dir
<1>1. Inside("leaf") /\ Top = "leaf" /\ leaf.dir \in Seconds /\ lastStart <= leaf.dir
  BY LeafTold
<1>2. leaf.dir \in Int /\ lastStart \in Nat
  BY <1>1, Directories DEF ClockInv
<1>3. CASE Inside("all")
  <2>1. pc["all"] = "check"
    BY <1>1, <1>3, BelowWhom, Names
  <2>2. \A i \in DOMAIN results : results[i].started < lastStart /\ results[i].started \in Nat
    BY <1>3, <2>1, EntryTypes DEF ClockInv
  <2> QED BY <2>2, <1>1, <1>2
<1>4. CASE ~Inside("all")
  <2>1. stack # <<>>
    BY <1>1 DEF Inside
  <2>2. 1 \in DOMAIN stack
    BY <2>1 DEF StackInv
  <2>3. stack[1] # "all"
    BY <2>2, <1>4 DEF Inside
  <2>4. results = <<>>
    BY <2>1, <2>3 DEF ClockInv
  <2> QED BY <2>4
<1> QED BY <1>3, <1>4

\* Every step keeps what is known of the directories.
LEMMA LeafStep ==
  ASSUME StackInv, ClockInv, LeafInv, [Next]_vars
  PROVE  LeafInv'
<1>0. Len(results) \in Nat /\ LeavesAlone
  BY EntryTypes, Kept
<1>1. DOMAIN wrote' = Seconds
  <2>1. CASE LeafReturns
    BY <2>1, LeafTold
  <2>2. CASE NameDirectory
    BY <2>2 DEF NameDirectory, LeafInv
  <2>3. CASE UNCHANGED leaves
    BY <2>3 DEF leaves, LeafInv
  <2> QED BY <1>0, <2>1, <2>2, <2>3 DEF LeavesAlone
<1>2. CASE NameDirectory
  <2>1. Goes("leaf", "begin", "run")
    BY <1>2, Going, Zenon
  <2>2. leaf' = [number |-> leaf.number + 1, dir |-> second]
    BY <1>2 DEF NameDirectory
  <2>3. UNCHANGED <<lastStart, results, wrote>>
    BY <1>2 DEF NameDirectory, all
  <2>4. Inside("leaf") /\ pc'["leaf"] = "run" /\ ret' = ret /\ stack # <<>>
    BY <2>1 DEF Goes, At
  <2>5. ret.who = Nothing
    BY <2>4, ReturnedWhom
  <2>6. second \in Seconds /\ lastStart <= second
    BY <2>4, SecondInRange DEF ClockInv
  <2>7. ret'.who # "leaf" /\ (ret'.who = "leaf") = FALSE
    BY <2>4, <2>5 DEF Nothing
  <2> QED BY <2>2, <2>3, <2>4, <2>5, <2>6, <2>7, <1>1 DEF LeafInv, Nothing, ChildPassed
<1>3. CASE ~NameDirectory
  <2>1. Aside("leaf") \/ pc'["leaf"] = "begin"
    BY <1>0, <1>3, Others DEF LeafGoes
  <2>2. leaf' = leaf
    <3>1. CASE LeafReturns
      BY <3>1, LeafTold
    <3>2. CASE ~LeafReturns
      BY <3>2, <1>0, <1>3 DEF LeavesAlone, leaves
    <3> QED BY <3>1, <3>2
  <2>3. Inside("leaf")' => pc'["leaf"] \in {"begin", "run"}
    BY <2>1 DEF LeafInv, Aside
  <2>4. Inside("leaf")' /\ pc'["leaf"] = "run" => leaf'.dir \in Seconds /\ lastStart' <= leaf'.dir
    <3>1. CASE StartSmoke
      <4>1. PICK kind \in {"leaf", "review", "handoff"} : Calling("all", "wait", kind)
        BY <3>1, <1>0, CallMoves, Zenon
      <4>2. ~Inside("leaf")
        BY <4>1, BelowWhom DEF Calling
      <4> QED BY <2>1, <4>2 DEF Aside
    <3>2. CASE ~StartSmoke
      <4>1. lastStart' = lastStart
        BY <3>2, <1>0 DEF LeavesAlone
      <4> QED BY <2>1, <2>2, <4>1 DEF Aside, LeafInv
    <3> QED BY <3>1, <3>2
  <2>5. CASE LeafReturns
    <3>1. /\ ret'.who = "leaf" /\ ret'.exit \in {"0", "1"} /\ ret'.dir = leaf.dir
          /\ leaf.dir \in Seconds /\ wrote'[leaf.dir] = leaf.number
          /\ \A s \in Seconds : s # leaf.dir => wrote'[s] = wrote[s]
      BY <2>5, LeafTold
    <3>2. ret'.dir \in Int
      BY <3>1, Directories
    <3>3. results' = results
      BY <2>5 DEF LeafReturns, all
    <3>4. \A i \in DOMAIN results' :
            results'[i].passed /\ results'[i].dir = results'[i].started =>
              wrote'[results'[i].dir] = results'[i].leaf
      <4>1. \A i \in DOMAIN results : results[i].started # leaf.dir
        BY <2>5, NotAgain
      <4>2. wrote' = [wrote EXCEPT ![leaf.dir] = leaf.number]
        BY <2>5 DEF LeafReturns
      <4>3. ASSUME NEW i \in DOMAIN results, results[i].passed,
                   results[i].dir = results[i].started
            PROVE  wrote'[results[i].dir] = results[i].leaf
        <5>1. wrote[results[i].dir] = results[i].leaf /\ results[i].dir # leaf.dir
          BY <4>1, <4>3 DEF LeafInv
        <5> QED BY <4>2, <5>1
      <4> QED BY <3>3, <4>3
    <3> QED BY <1>1, <2>2, <2>3, <2>4, <3>1, <3>2, <3>4 DEF LeafInv
  <2>6. CASE ~LeafReturns
    <3>1. wrote' = wrote
      BY <2>6, <1>0, <1>3 DEF LeavesAlone, leaves
    <3>2. /\ ret'.dir \in Int /\ ret'.exit \in {Nothing, "0", "1", "killed"}
          /\ ret'.who # "leaf" => ret'.dir \in {OwnDir, NoDir}
          /\ ret'.who = "leaf" /\ ret'.exit = "0" => ret' = ret
      <4>1. CASE Ending
        <5>1. \/ LeafRaises /\ ret'.who = "leaf" /\ ret'.exit = "1" /\ ret'.dir = second
              \/ ret'.exit = "killed" /\ ret'.dir = NoDir
              \/ ret'.who \in Kinds \ {"leaf"} /\ ret'.exit \in {"0", "1"} /\ ret'.dir = OwnDir
          BY <2>6, <4>1, Told
        <5>2. second \in Int
          BY DEF ClockInv
        <5> QED BY <5>1, <5>2, Directories
      <4>2. CASE ~Ending
        BY <4>2, <1>0, NotTold, Directories DEF LeafInv, NoReturn
      <4> QED BY <4>1, <4>2
    <3>3. ret'.who = "leaf" /\ ChildPassed' =>
            ret'.dir \in Seconds /\ wrote'[ret'.dir] = leaf'.number
      BY <2>2, <3>1, <3>2 DEF LeafInv, ChildPassed
    <3>4. \A i \in DOMAIN results' :
            results'[i].passed /\ results'[i].dir = results'[i].started =>
              wrote'[results'[i].dir] = results'[i].leaf
      <4>1. CASE Record
        <5>1. Goes("all", "check", "wait")
          BY <4>1, Going, Zenon
        <5>2. Inside("all") /\ pc["all"] = "check"
          BY <5>1 DEF Goes
        <5> DEFINE new == [passed |-> ChildPassed, dir |-> ret.dir,
                           leaf |-> leaf.number, started |-> lastStart]
        <5>3. results' = Append(results, new)
          BY <4>1 DEF Record
        <5>4. new \in Entries /\ results \in Seq(Entries)
          BY DEF LeafInv, ClockInv, ChildPassed, Entries
        <5>5. 1 <= lastStart /\ lastStart \in Nat
          BY <5>2 DEF ClockInv
        <5>6. new.passed /\ new.dir = new.started => wrote[new.dir] = new.leaf
          <6>1. ASSUME ChildPassed, ret.dir = lastStart PROVE wrote[ret.dir] = leaf.number
            <7>1. ret.dir \notin {OwnDir, NoDir}
              BY <6>1, <5>5 DEF OwnDir, NoDir
            <7> QED BY <6>1, <7>1 DEF LeafInv
          <6> QED BY <6>1
        <5> HIDE DEF new
        <5>7. \A i \in DOMAIN results' : \/ i \in DOMAIN results /\ results'[i] = results[i]
                                        \/ results'[i] = new
          BY <5>3, <5>4, Appended, Zenon
        <5> QED BY <5>6, <5>7, <3>1 DEF LeafInv
      <4>2. CASE ~Record
        BY <4>2, <1>0, <3>1 DEF LeavesAlone, LeafInv
      <4> QED BY <4>1, <4>2
    <3> QED BY <1>1, <2>3, <2>4, <3>2, <3>3, <3>4 DEF LeafInv
  <2> QED BY <2>5, <2>6
<1> QED BY <1>2, <1>3

\* Every step keeps that the aggregate says what its records say.
LEMMA AllStep ==
  ASSUME StackInv, ClockInv, AllInv, [Next]_vars
  PROVE  AllInv'
<1>0. Len(results) \in Nat /\ LeavesAlone
  BY EntryTypes, Kept
<1>1. Inside("all")' /\ pc'["all"] = "print" =>
        /\ Len(results') = Len(Smokes)
        /\ aggregate' = IF AllPassed' THEN "passed" ELSE "failed"
  <2>1. CASE WriteAggregate
    BY <2>1 DEF WriteAggregate, AllPassed
  <2>2. CASE Record
    <3>1. Goes("all", "check", "wait")
      BY <2>2, Going, Zenon
    <3> QED BY <3>1 DEF Goes
  <2>3. CASE StartSmoke
    <3>1. PICK kind \in {"leaf", "review", "handoff"} : Calling("all", "wait", kind)
      BY <2>3, <1>0, CallMoves, Zenon
    <3> QED BY <3>1 DEF Calling
  <2>4. CASE ~WriteAggregate /\ ~Record /\ ~StartSmoke
    <3>1. Aside("all") /\ results' = results /\ aggregate' = aggregate
      BY <2>4, <1>0, Others DEF AllGoes, LeavesAlone
    <3> QED BY <3>1 DEF Aside, AllInv, AllPassed
  <2> QED BY <2>1, <2>2, <2>3, <2>4
<1>2. ret'.who = "all" /\ ret'.said # Nothing =>
        /\ aggregate' = ret'.said
        /\ ret'.exit = "0" <=> \A i \in DOMAIN Smokes : results'[i].passed
  <2>1. CASE PrintTable
    <3>1. At("all", "print") /\ Ends("all", ExitCode(aggregate), aggregate, OwnDir)
      BY <2>1, EndMoves, Zenon
    <3>2. /\ Len(results) = Len(Smokes)
          /\ aggregate = IF AllPassed THEN "passed" ELSE "failed"
      BY <3>1 DEF Ends, At, AllInv
    <3>3. DOMAIN results = DOMAIN Smokes
      BY <3>2, EntryTypes, SmokesAssumption
    <3>4. UNCHANGED <<results, aggregate>>
      BY <2>1 DEF PrintTable, all
    <3> QED BY <3>1, <3>2, <3>3, <3>4 DEF Ends, ExitCode, AllPassed
  <2>2. CASE Ending /\ ~PrintTable
    <3>1. ret'.who = "all" => ret'.said = Nothing
      <4>1. CASE KillTop
        BY <4>1, EndMoves DEF Ends
      <4>2. CASE LeafReturns \/ LeafRaises
        BY <4>2, EndMoves DEF Ends
      <4>3. CASE RaiseReview \/ PrintReview
        BY <4>3, EndMoves DEF Ends
      <4>4. CASE RaiseHandoff \/ PrintHandoff
        BY <4>4, EndMoves DEF Ends
      <4> QED BY <2>2, <4>1, <4>2, <4>3, <4>4 DEF Ending
    <3> QED BY <3>1
  <2>3. CASE ~Ending
    <3>1. ret' = ret \/ ret' = NoReturn
      BY <2>3, <1>0, NotTold
    <3>2. CASE ret' = NoReturn
      BY <3>2 DEF NoReturn, Nothing
    <3>3. CASE ret' = ret /\ ret.who = "all"
      <4>1. stack = <<>>
        BY <3>3, ReturnedWhom
      <4>2. ~At("all", "check") /\ ~At("all", "wait")
        BY <4>1 DEF At
      <4>3. results' = results /\ aggregate' = aggregate
        BY <4>2, <1>0 DEF LeavesAlone, Record, WriteAggregate
      <4> QED BY <3>3, <4>3 DEF AllInv
    <3> QED BY <3>1, <3>2, <3>3
  <2> QED BY <2>1, <2>2, <2>3
<1> QED BY <1>1, <1>2 DEF AllInv

-----------------------------------------------------------------------------
(* The command of phase 11.                                                *)

\* The files with names of their own.
LEMMA ReviewNames ==
  /\ "human_review_package.json" \in Phase11Artifacts
  /\ "final_state.json" \notin Phase11Artifacts /\ "raw.log" \notin Phase11Artifacts
  /\ "summary.md" \notin Phase11Artifacts
BY DEF Phase11Artifacts

\* A chain of files has none of the names that every phase has.
LEMMA ChainNames ==
  /\ "final_state.json" \notin Chain /\ "raw.log" \notin Chain /\ "summary.md" \notin Chain
  /\ Chain \cap Phase11Artifacts = {} /\ "phase10_final_state.json" \notin Chain
BY DEF Chain, Phase11Artifacts, Phase7Artifacts, AuditFiles, ExternalFiles, OperatorFiles,
       RequiredArtifacts, ContractFiles, OptInFiles, Fixture

\* What copying the files of phase 10 does.
LEMMA CopyPhase10Does ==
  ASSUME CopyPhase10, ReviewInv
  PROVE  /\ DOMAIN reviewDir' = ReviewFiles
         /\ \A f \in Chain \cup {"phase10_final_state.json", "final_state.json"} :
              reviewDir'[f] # Absent
<1>1. \E content : content # Absent /\
        reviewDir' = Writing(reviewDir, Chain \cup {"phase10_final_state.json",
                                                    "final_state.json"}, content)
  BY Zenon DEF CopyPhase10, Absent
<1>2. Chain \cup {"phase10_final_state.json", "final_state.json"} \subseteq ReviewFiles
  BY DEF ReviewFiles
<1> QED BY <1>1, <1>2 DEF Writing, ReviewInv

\* A copy that misses files leaves a directory with the same names.
LEMMA MissPhase10Does ==
  ASSUME MissPhase10, ReviewInv
  PROVE  DOMAIN reviewDir' = ReviewFiles
<1>1. \E files, content : reviewDir' = Writing(reviewDir, files, content)
  BY Zenon DEF MissPhase10
<1> QED BY <1>1 DEF Writing, ReviewInv

\* What writing the package of phase 11 does.
LEMMA WritePackageDoes ==
  ASSUME WritePackage, ReviewInv
  PROVE  /\ matrix' = TheMatrix /\ DOMAIN reviewDir' = ReviewFiles
         /\ \E state \in {"passed", "failed"} :
              /\ \A f \in Phase11Artifacts \cup {"summary.md"} : reviewDir'[f] = state
              /\ \A f \in ReviewFiles \ (Phase11Artifacts \cup {"summary.md"}) :
                   reviewDir'[f] = reviewDir[f]
<1>1. matrix' = TheMatrix
  BY Zenon DEF WritePackage, TheMatrix
<1>2. \E state \in {"passed", "failed"} :
        reviewDir' = Writing(reviewDir, Phase11Artifacts \cup {"summary.md"}, state)
  <2>1. reviewDir' = Writing(reviewDir, Phase11Artifacts \cup {"summary.md"},
                      IF PackageValid(FALSE, matrix', reviewDir) THEN "passed" ELSE "failed")
    BY Zenon DEF WritePackage
  <2> DEFINE state == IF PackageValid(FALSE, matrix', reviewDir) THEN "passed" ELSE "failed"
  <2>2. state \in {"passed", "failed"}
    OBVIOUS
  <2>3. reviewDir' = Writing(reviewDir, Phase11Artifacts \cup {"summary.md"}, state)
    BY <2>1
  <2> HIDE DEF state
  <2> QED BY <2>2, <2>3
<1>3. Phase11Artifacts \cup {"summary.md"} \subseteq ReviewFiles
  BY DEF ReviewFiles
<1> QED BY <1>1, <1>2, <1>3 DEF Writing, ReviewInv

\* Where the package of phase 11 is, the files around it are what they were.
LEMMA ReviewStep ==
  ASSUME StackInv, ReviewInv, Len(results) \in Nat, [Next]_vars
  PROVE  ReviewInv'
<1>0. LeavesAlone
  BY Kept
<1> DEFINE named == {"final_state.json", "raw.log", "human_review_package.json", "summary.md",
                     "phase10_final_state.json"}
<1>names. named \subseteq ReviewFiles /\ Chain \subseteq ReviewFiles
      /\ Phase11Artifacts \subseteq ReviewFiles
      /\ ReviewFiles = Chain \cup Phase11Artifacts \cup
           {"phase10_final_state.json", "summary.md", "final_state.json", "raw.log"}
  BY ReviewNames DEF ReviewFiles
<1>1. CASE BeginReview
  <2>1. Calling("review", "begin", "leaf")
    BY <1>1, <1>0, CallMoves, Zenon
  <2>2. pc'["review"] = "check"
    BY <2>1 DEF Calling
  <2>3. DOMAIN reviewDir' = ReviewFiles
    BY <1>1 DEF BeginReview
  <2> QED BY <2>2, <2>3 DEF ReviewInv
<1>2. CASE CheckPhase10
  <2>1. \E label \in {"copy", "failure"} : Goes("review", "check", label)
    BY <1>2, Checking, Zenon
  <2>2. pc'["review"] \in {"copy", "failure"}
    BY <2>1 DEF Goes
  <2>3. reviewDir' = reviewDir
    BY <1>2 DEF CheckPhase10, review
  <2> QED BY <2>2, <2>3 DEF ReviewInv
<1>3. CASE RefuseReview
  <2>1. Goes("review", "failure", "print")
    BY <1>3, Going, Zenon
  <2>2. pc'["review"] = "print"
    BY <2>1 DEF Goes
  <2>3. /\ DOMAIN reviewDir' = ReviewFiles
        /\ reviewDir'["final_state.json"] = "inputs_missing"
        /\ reviewDir'["raw.log"] = "inputs_missing"
    BY <1>3, <1>names DEF RefuseReview, ReviewInv
  <2> QED BY <2>2, <2>3 DEF ReviewInv
<1>4. CASE CopyPhase10
  <2>1. Goes("review", "copy", "package")
    BY <1>4, Going, Zenon
  <2>2. pc'["review"] = "package"
    BY <2>1 DEF Goes
  <2> QED BY <1>4, <2>2, CopyPhase10Does DEF ReviewInv
<1>9. CASE MissPhase10
  <2>1. Goes("review", "copy", "failure")
    BY <1>9, Going, Zenon
  <2>2. pc'["review"] = "failure"
    BY <2>1 DEF Goes
  <2> QED BY <1>9, <2>2, MissPhase10Does DEF ReviewInv
<1>5. CASE WritePackage
  <2>1. Goes("review", "package", "final")
    BY <1>5, Going, Zenon
  <2>2. pc'["review"] = "final" /\ Inside("review") /\ pc["review"] = "package"
    BY <2>1 DEF Goes
  <2>3. /\ matrix' = TheMatrix /\ DOMAIN reviewDir' = ReviewFiles
        /\ \E state \in {"passed", "failed"} :
              /\ \A f \in Phase11Artifacts \cup {"summary.md"} : reviewDir'[f] = state
              /\ \A f \in ReviewFiles \ (Phase11Artifacts \cup {"summary.md"}) :
                   reviewDir'[f] = reviewDir[f]
    BY <1>5, WritePackageDoes
  <2>4. \A f \in Chain \cup {"phase10_final_state.json", "final_state.json"} :
          reviewDir[f] # Absent
    BY <2>2 DEF ReviewInv
  <2>5. "phase10_final_state.json" \notin Phase11Artifacts \cup {"summary.md"}
    BY DEF Phase11Artifacts
  <2>6. \A f \in Chain \cup {"phase10_final_state.json", "final_state.json"} :
          f \in ReviewFiles \ (Phase11Artifacts \cup {"summary.md"})
    BY <1>names, <2>5, ReviewNames, ChainNames
  <2>7. \A f \in Chain \cup {"phase10_final_state.json", "final_state.json"} :
          reviewDir'[f] # Absent
    BY <2>3, <2>4, <2>6
  <2> QED BY <2>2, <2>3, <2>7, ReviewNames DEF ReviewInv
<1>6. CASE WriteReviewFinal
  <2>1. Goes("review", "final", "raw")
    BY <1>6, Going, Zenon
  <2>2. pc'["review"] = "raw" /\ Inside("review") /\ pc["review"] = "final"
    BY <2>1 DEF Goes
  <2>3. /\ DOMAIN reviewDir' = ReviewFiles /\ matrix' = matrix
        /\ reviewDir'["final_state.json"] = reviewDir["human_review_package.json"]
        /\ \A f \in ReviewFiles : f # "final_state.json" => reviewDir'[f] = reviewDir[f]
    BY <1>6, <1>names DEF WriteReviewFinal, ReviewInv
  <2>4. /\ matrix = TheMatrix
        /\ reviewDir["human_review_package.json"] \in {"passed", "failed"}
        /\ \A f \in Phase11Artifacts \cup {"summary.md"} :
             reviewDir[f] = reviewDir["human_review_package.json"]
        /\ \A f \in Chain \cup {"phase10_final_state.json", "final_state.json"} :
             reviewDir[f] # Absent
    BY <2>2 DEF ReviewInv
  <2> QED BY <2>2, <2>3, <2>4, <1>names, Contents, ReviewNames DEF ReviewInv
<1>7. CASE WriteReviewRaw
  <2>1. Goes("review", "raw", "print")
    BY <1>7, Going, Zenon
  <2>2. pc'["review"] = "print" /\ Inside("review") /\ pc["review"] = "raw"
    BY <2>1 DEF Goes
  <2>3. /\ DOMAIN reviewDir' = ReviewFiles /\ matrix' = matrix
        /\ reviewDir'["raw.log"] = reviewDir["human_review_package.json"]
        /\ \A f \in ReviewFiles : f # "raw.log" => reviewDir'[f] = reviewDir[f]
    BY <1>7, <1>names DEF WriteReviewRaw, ReviewInv
  <2>4. /\ matrix = TheMatrix
        /\ reviewDir["human_review_package.json"] \in {"passed", "failed"}
        /\ \A f \in Phase11Artifacts \cup {"summary.md"} :
             reviewDir[f] = reviewDir["human_review_package.json"]
        /\ \A f \in Chain \cup {"phase10_final_state.json", "final_state.json"} :
             reviewDir[f] # Absent
        /\ reviewDir["final_state.json"] = reviewDir["human_review_package.json"]
    BY <2>2 DEF ReviewInv
  <2>5. reviewDir'["raw.log"] = "passed" => ReviewGood'
    BY <2>3, <2>4, <1>names, Contents DEF ReviewGood, TheMatrix
  <2> QED BY <2>2, <2>3, <2>4, <2>5, <1>names DEF ReviewInv
<1>8. CASE ~ReviewGoes /\ ~BeginReview
  <2>1. Aside("review") \/ pc'["review"] = "begin"
    BY <1>8, Others
  <2>2. reviewDir' = reviewDir /\ matrix' = matrix
    BY <1>0, <1>8 DEF LeavesAlone, ReviewGoes
  <2>3. CASE pc'["review"] = "begin"
    BY <2>2, <2>3 DEF ReviewInv
  <2>4. CASE Inside("review")' => Inside("review") /\ pc'["review"] = pc["review"]
    BY <2>2, <2>4 DEF ReviewInv, ReviewGood
  <2> QED BY <2>1, <2>3, <2>4 DEF Aside
<1> QED BY <1>1, <1>2, <1>3, <1>4, <1>5, <1>6, <1>7, <1>8, <1>9, Zenon DEF ReviewGoes

\* What the command of phase 11 told stays true.
LEMMA ReviewToldStep ==
  ASSUME StackInv, ReviewInv, ReviewTold, Len(results) \in Nat, [Next]_vars
  PROVE  ReviewTold'
<1>0. LeavesAlone
  BY Kept
<1>1. CASE PrintReview
  <2>1. At("review", "print")
        /\ Ends("review", ExitCode(reviewDir["raw.log"]), reviewDir["raw.log"], OwnDir)
    BY <1>1, EndMoves, Zenon
  <2>2. reviewDir' = reviewDir /\ matrix' = matrix
    BY <1>1 DEF PrintReview, review
  <2>3. Inside("review") /\ pc["review"] = "print"
    BY <2>1 DEF Ends, At
  <2>4. /\ reviewDir["final_state.json"] = reviewDir["raw.log"]
        /\ reviewDir["raw.log"] = "passed" => ReviewGood
    BY <2>3 DEF ReviewInv
  <2>5. ret'.said = reviewDir["raw.log"] /\ ret'.exit = ExitCode(reviewDir["raw.log"])
    BY <2>1 DEF Ends
  <2>6. ret'.exit = "0" <=> ret'.said = "passed"
    BY <2>5 DEF ExitCode
  <2> QED BY <2>2, <2>4, <2>5, <2>6 DEF ReviewTold, ReviewGood
<1>2. CASE Ending /\ ~PrintReview
  <2>1. CASE KillTop
    <3>1. ret'.said = Nothing /\ ret'.exit = "killed"
      BY <2>1, EndMoves DEF Ends
    <3> QED BY <3>1 DEF ReviewTold
  <2>2. CASE RaiseReview
    <3>1. Ends("review", "1", "error", OwnDir)
      BY <2>2, EndMoves, Zenon
    <3>2. ret'.said = "error" /\ ret'.exit = "1"
      BY <3>1 DEF Ends
    <3> QED BY <3>2 DEF ReviewTold
  <2>3. CASE PrintTable \/ LeafReturns \/ LeafRaises
    BY <2>3, EndMoves DEF Ends, ReviewTold
  <2>4. CASE RaiseHandoff \/ PrintHandoff
    BY <2>4, EndMoves DEF Ends, ReviewTold
  <2> QED BY <1>2, <2>1, <2>2, <2>3, <2>4 DEF Ending
<1>3. CASE ~Ending
  <2>1. ret' = ret \/ ret' = NoReturn
    BY <1>3, NotTold
  <2>2. CASE ret' = NoReturn
    BY <2>2 DEF NoReturn, Nothing, ReviewTold
  <2>3. CASE ret' = ret /\ ret.who = "review"
    <3>1. ~Inside("review")
      BY <2>3, ReturnedWhom DEF Nothing
    <3>2. ~BeginReview
      <4>1. BeginReview => Inside("review")
        BY CallMoves DEF Calling
      <4> QED BY <3>1, <4>1
    <3>3. ~ReviewGoes
      BY <3>1, OwnMoves DEF Goes
    <3>4. reviewDir' = reviewDir /\ matrix' = matrix
      BY <1>0, <3>2, <3>3 DEF LeavesAlone, ReviewGoes
    <3> QED BY <2>3, <3>4 DEF ReviewTold, ReviewGood
  <2>4. CASE ret' = ret /\ ret.who # "review"
    BY <2>4 DEF ReviewTold
  <2> QED BY <2>1, <2>2, <2>3, <2>4
<1> QED BY <1>1, <1>2, <1>3

-----------------------------------------------------------------------------
(* The command of phase 12.                                                *)

Package == "auditor_handoff_package.json"
Own == {"phase11_final_state.json"} \cup {Upstream} \cup Chain \cup Phase11Artifacts

\* What is copied has none of the names of phase 12.
LEMMA HandoffNames ==
  /\ \A f \in Phase12Artifacts : f \notin Own
  /\ Package \in Phase12Artifacts /\ "final_state.json" \in Phase12Artifacts
  /\ "raw.log" \in Phase12Artifacts /\ "artifact_hash_manifest.json" \in Phase12Artifacts
  /\ Upstream \notin Chain \cup Phase11Artifacts \cup {"phase11_final_state.json"}
  /\ "phase11_final_state.json" \notin Chain \cup Phase11Artifacts
<1>1. \A f \in Phase12Artifacts : f \notin {"phase11_final_state.json", Upstream}
  BY DEF Phase12Artifacts, Upstream
<1>2. \A f \in Phase12Artifacts : f \notin Phase11Artifacts
  BY DEF Phase12Artifacts, Phase11Artifacts
<1>3. \A f \in Phase12Artifacts : f \notin Chain
  BY DEF Phase12Artifacts, Chain, Phase7Artifacts, AuditFiles, ExternalFiles, OperatorFiles,
         RequiredArtifacts, ContractFiles, OptInFiles, Fixture
<1>4. "phase11_final_state.json" \notin Chain /\ Upstream \notin Chain
  BY DEF Upstream, Chain, Phase7Artifacts, AuditFiles, ExternalFiles, OperatorFiles,
         RequiredArtifacts, ContractFiles, OptInFiles, Fixture
<1>5. /\ Upstream \notin Phase11Artifacts \cup {"phase11_final_state.json"}
      /\ "phase11_final_state.json" \notin Phase11Artifacts
  BY DEF Upstream, Phase11Artifacts
<1>6. /\ Package \in Phase12Artifacts /\ "final_state.json" \in Phase12Artifacts
      /\ "raw.log" \in Phase12Artifacts /\ "artifact_hash_manifest.json" \in Phase12Artifacts
  BY DEF Package, Phase12Artifacts
<1> QED BY <1>1, <1>2, <1>3, <1>4, <1>5, <1>6 DEF Own

\* The files of a handoff, by where they come from.
LEMMA HandoffParts ==
  /\ HandoffFiles = Own \cup Phase12Artifacts
  /\ Required = ({Upstream} \cup Chain \cup Phase11Artifacts) \cup Phase12Artifacts
  /\ Chain \cup Phase11Artifacts \subseteq ReviewFiles
  /\ "human_review_package.json" \in Own /\ Upstream \in Own
BY ReviewNames DEF HandoffFiles, Required, Own, ReviewFiles

\* What copying the files of phase 11 does.
LEMMA CopyPhase11Does ==
  ASSUME CopyPhase11, HandoffInv, ReviewInv, ReviewGood, handoffDir[Upstream] # Absent,
         handoffDir[Package] = Absent
  PROVE  DOMAIN handoffDir' = HandoffFiles /\ Copied' /\ handoffDir'[Package] = Absent
<1>1. \E content : content # Absent /\ handoffDir' =
         [f \in HandoffFiles |->
            IF f \in Chain \cup Phase11Artifacts THEN reviewDir[f]
            ELSE IF f \in {"phase11_final_state.json", "final_state.json"}
              THEN content ELSE handoffDir[f]]
  BY Zenon DEF CopyPhase11, Absent
<1>2. /\ \A f \in Chain \cup Phase11Artifacts :
           f \in HandoffFiles /\ reviewDir[f] # Absent
      /\ reviewDir["human_review_package.json"] = "passed"
  BY HandoffParts DEF ReviewGood, Own
<1>3. /\ Upstream \in HandoffFiles /\ "phase11_final_state.json" \in HandoffFiles
      /\ Package \in HandoffFiles /\ Package \notin Chain \cup Phase11Artifacts
      /\ Package \notin {"phase11_final_state.json", "final_state.json"}
      /\ Upstream # "final_state.json"
  <2>1. Package \notin {"phase11_final_state.json", "final_state.json"}
        /\ Upstream # "final_state.json"
    BY DEF Package, Upstream
  <2> QED BY <2>1, HandoffParts, HandoffNames DEF Own
<1>4. DOMAIN handoffDir' = HandoffFiles /\ handoffDir'[Package] = Absent
  BY <1>1, <1>3
<1>5. \A f \in Chain \cup Phase11Artifacts : handoffDir'[f] = reviewDir[f]
  BY <1>1, <1>2
<1>6. handoffDir'[Upstream] # Absent /\ handoffDir'["phase11_final_state.json"] # Absent
  BY <1>1, <1>3, HandoffNames
<1>7. handoffDir'["human_review_package.json"] = "passed"
  BY <1>2, <1>5, ReviewNames
<1> QED BY <1>2, <1>4, <1>5, <1>6, <1>7 DEF Copied

\* A copy that misses files copies none over the commit, and no package.
LEMMA MissPhase11Does ==
  ASSUME MissPhase11, handoffDir[Upstream] # Absent, handoffDir[Package] = Absent
  PROVE  /\ DOMAIN handoffDir' = HandoffFiles
         /\ handoffDir'[Upstream] # Absent /\ handoffDir'[Package] = Absent
<1>1. PICK gone, content : handoffDir' =
         [f \in HandoffFiles |->
            IF f \in (Chain \cup Phase11Artifacts) \ gone THEN reviewDir[f]
            ELSE IF /\ f \in {"phase11_final_state.json", "final_state.json"}
                    /\ "final_state.json" \notin gone
              THEN content ELSE handoffDir[f]]
  BY Zenon DEF MissPhase11
<1>2. /\ Upstream \in HandoffFiles /\ Package \in HandoffFiles
      /\ Package \notin Chain \cup Phase11Artifacts
      /\ Upstream \notin Chain \cup Phase11Artifacts
      /\ Package \notin {"phase11_final_state.json", "final_state.json"}
      /\ Upstream \notin {"phase11_final_state.json", "final_state.json"}
  <2>1. /\ Package \notin {"phase11_final_state.json", "final_state.json"}
        /\ Upstream \notin {"phase11_final_state.json", "final_state.json"}
    BY DEF Package, Upstream
  <2> QED BY <2>1, HandoffParts, HandoffNames DEF Own
<1>3. DOMAIN handoffDir' = HandoffFiles
  BY <1>1
<1>4. handoffDir'[Upstream] = handoffDir[Upstream] /\ handoffDir'[Package] = handoffDir[Package]
  BY <1>1, <1>2
<1> QED BY <1>3, <1>4

\* Writing the files of phase 12 leaves what was copied.
LEMMA CopiedStays ==
  ASSUME Copied, \A f \in Own : handoffDir'[f] = handoffDir[f]
  PROVE  Copied'
BY HandoffParts DEF Copied, Own

\* What writing the artifacts of phase 12 does.
LEMMA WriteArtifactsDoes ==
  ASSUME WriteArtifacts, HandoffInv, handoffDir["final_state.json"] = "passed",
         handoffDir["raw.log"] = "passed"
  PROVE  /\ DOMAIN handoffDir' = HandoffFiles
         /\ \A f \in Own : handoffDir'[f] = handoffDir[f]
         /\ handoffDir'[Package] = "passed" /\ handoffDir'["final_state.json"] = "passed"
         /\ \A f \in Phase12Artifacts : handoffDir'[f] # Absent
<1> DEFINE first == {"evidence_bundle_index.json", "retention_manifest.json",
                     "auditor_handoff_package.json", "auditor_questions.md"}
           later == {"auditor_handoff_packet.md", "handoff_summary.md", "summary.md",
                      "artifact_hash_manifest.json"}
<1>1. handoffDir' = Writing(Writing(handoffDir, first, "passed"), later, "pending")
  BY Zenon DEF WriteArtifacts
<1>2. /\ Phase12Artifacts = first \cup later \cup {"final_state.json", "raw.log"}
      /\ first \cap later = {} /\ Package \in first
      /\ "final_state.json" \notin first \cup later
      /\ "raw.log" \notin first \cup later
  BY DEF Phase12Artifacts, Package
<1> HIDE DEF first, later
<1>3. DOMAIN handoffDir = HandoffFiles /\ Phase12Artifacts \subseteq HandoffFiles
      /\ Own \subseteq HandoffFiles
  BY HandoffParts DEF HandoffInv
<1>4. \A f \in HandoffFiles : handoffDir'[f] = IF f \in later THEN "pending"
                                 ELSE IF f \in first THEN "passed" ELSE handoffDir[f]
  BY <1>1, <1>3 DEF Writing
<1>5. DOMAIN handoffDir' = HandoffFiles
  BY <1>1, <1>3 DEF Writing
<1>6. \A f \in Own : f \notin first /\ f \notin later
  BY <1>2, HandoffNames
<1>7. \A f \in Phase12Artifacts : handoffDir'[f] # Absent
  BY <1>2, <1>3, <1>4, Contents
<1> QED BY <1>2, <1>3, <1>4, <1>5, <1>6, <1>7

\* What rendering the texts and hashing the files does.
LEMMA RenderAndHashDoes ==
  ASSUME RenderAndHash, HandoffInv, Copied, handoffDir[Package] = "passed",
         handoffDir["final_state.json"] = "passed",
         \A f \in Phase12Artifacts : handoffDir[f] # Absent
  PROVE  /\ DOMAIN handoffDir' = HandoffFiles
         /\ handoffDir'[Package] = "passed" /\ handoffDir'["final_state.json"] = "passed"
         /\ handoffDir'["human_review_package.json"] = "passed"
         /\ \A f \in HandoffFiles : handoffDir'[f] # Absent
         /\ \A f \in Required :
              f # "artifact_hash_manifest.json" => manifest'[f] = handoffDir'[f]
<1> DEFINE texts == {"auditor_handoff_packet.md", "handoff_summary.md", "summary.md"}
           hashes == "artifact_hash_manifest.json"
<1>1. /\ Rendered = Writing(handoffDir, texts, "passed")
      /\ manifest' = HashManifest(Rendered)
      /\ handoffDir' = [Rendered EXCEPT ![hashes] = "passed"]
  BY Zenon DEF RenderAndHash, Rendered
<1>2. texts \subseteq Phase12Artifacts /\ hashes \notin texts /\ hashes # Package
      /\ hashes # "final_state.json" /\ Package \notin texts /\ "final_state.json" \notin texts
  BY DEF Phase12Artifacts, Package
<1>3. /\ DOMAIN handoffDir = HandoffFiles /\ Phase12Artifacts \subseteq HandoffFiles
      /\ Own \subseteq HandoffFiles /\ Required \subseteq HandoffFiles
      /\ "human_review_package.json" \in Own /\ hashes \in Phase12Artifacts
  BY HandoffParts, HandoffNames DEF HandoffInv, HandoffFiles
<1>7. \A f \in Required : f # hashes => HashManifest(Rendered)[f] = Rendered[f]
  BY Zenon DEF HashManifest
<1> HIDE DEF texts, hashes
<1>4. /\ DOMAIN Rendered = HandoffFiles
      /\ \A f \in HandoffFiles : Rendered[f] = IF f \in texts THEN "passed" ELSE handoffDir[f]
  BY <1>1, <1>3 DEF Writing
<1>5. /\ DOMAIN handoffDir' = HandoffFiles /\ handoffDir'[hashes] = "passed"
      /\ \A f \in HandoffFiles : f # hashes => handoffDir'[f] = Rendered[f]
  BY <1>1, <1>3, <1>4
<1>6. \A f \in Own : f \notin texts /\ f # hashes /\ handoffDir[f] # Absent
  BY <1>2, <1>3, HandoffNames DEF Copied, Own
<1>8. \A f \in HandoffFiles : handoffDir'[f] # Absent
  <2> TAKE f \in HandoffFiles
  <2>1. CASE f \in Own
    BY <2>1, <1>4, <1>5, <1>6
  <2>2. CASE f \in Phase12Artifacts
    BY <2>2, <1>4, <1>5, Contents
  <2> QED BY <2>1, <2>2, HandoffParts
<1>9. \A f \in Required : f # hashes => manifest'[f] = handoffDir'[f]
  BY <1>1, <1>3, <1>5, <1>7
<1>10. handoffDir'[Package] = "passed" /\ handoffDir'["final_state.json"] = "passed"
  <2>1. Package \in HandoffFiles /\ "final_state.json" \in HandoffFiles
    BY <1>3, HandoffNames
  <2> QED BY <2>1, <1>2, <1>4, <1>5
<1>11. handoffDir'["human_review_package.json"] = "passed"
  BY <1>3, <1>4, <1>5, <1>6 DEF Copied
<1> QED BY <1>5, <1>8, <1>9, <1>10, <1>11 DEF hashes

\* What is in the directory of phase 12 at each statement is what its package needs.
LEMMA HandoffStep ==
  ASSUME StackInv, ReviewInv, ReviewTold, HandoffInv, Len(results) \in Nat, [Next]_vars
  PROVE  HandoffInv'
<1>0. LeavesAlone
  BY Kept
<1>names. /\ HandoffFiles = Own \cup Phase12Artifacts /\ Package \in HandoffFiles
          /\ "final_state.json" \in HandoffFiles /\ "raw.log" \in HandoffFiles
          /\ Upstream \in HandoffFiles /\ \A f \in Own : f \notin Phase12Artifacts
          /\ Package = "auditor_handoff_package.json" /\ Upstream \in Own
          /\ "final_state.json" \in Phase12Artifacts /\ "raw.log" \in Phase12Artifacts
          /\ Package \in Phase12Artifacts
          /\ Package # "final_state.json" /\ Package # "raw.log" /\ Package # Upstream
  <2>1. /\ Package = "auditor_handoff_package.json"
        /\ Package # "final_state.json" /\ Package # "raw.log" /\ Package # Upstream
    BY DEF Package, Upstream
  <2> QED BY <2>1, HandoffParts, HandoffNames
<1>1. CASE BeginHandoff
  <2>1. Calling("handoff", "begin", "review")
    BY <1>1, CallMoves, Zenon
  <2>2. pc'["handoff"] = "check"
    BY <2>1 DEF Calling
  <2>3. handoffDir' = [f \in HandoffFiles |-> IF f = Upstream THEN "commit" ELSE Absent]
    BY <1>1, Zenon DEF BeginHandoff
  <2>4. /\ DOMAIN handoffDir' = HandoffFiles /\ handoffDir'[Package] = Absent
        /\ handoffDir'[Upstream] # Absent
    BY <2>3, <1>names, Contents
  <2> QED BY <2>2, <2>4, <1>names DEF HandoffInv
<1>2. CASE CheckPhase11
  <2>1. PICK label \in {"copy", "failure"} :
          Goes("handoff", "check", label) /\ (label = "copy" => ChildPassed)
    BY <1>2, Checking, Zenon
  <2>2. /\ pc'["handoff"] = label /\ Inside("handoff") /\ pc["handoff"] = "check"
        /\ Top = "handoff" /\ stack # <<>>
    BY <2>1 DEF Goes, At
  <2>3. handoffDir' = handoffDir /\ reviewDir' = reviewDir /\ matrix' = matrix
    BY <1>2 DEF CheckPhase11, handoff, review
  <2>4. handoffDir[Upstream] # Absent /\ handoffDir[Package] = Absent
    BY <2>2, <1>names DEF HandoffInv
  <2>5. label = "copy" => ReviewGood
    <3>1. <<"handoff", ret.who>> \in Calls
      BY <2>2 DEF StackInv
    <3>2. ret.who = "review"
      BY <3>1 DEF Calls
    <3> QED BY <2>1, <3>2 DEF ChildPassed, ReviewTold
  <2>6. label = "copy" => ReviewGood'
    BY <2>3, <2>5 DEF ReviewGood
  <2> QED BY <2>2, <2>3, <2>4, <2>6, <1>names DEF HandoffInv
<1>3. CASE RefuseHandoff
  <2>1. Goes("handoff", "failure", "print")
    BY <1>3, Going, Zenon
  <2>2. pc'["handoff"] = "print" /\ Inside("handoff") /\ pc["handoff"] = "failure"
    BY <2>1 DEF Goes
  <2>3. handoffDir[Package] = Absent /\ DOMAIN handoffDir = HandoffFiles
    BY <2>2, <1>names DEF HandoffInv
  <2>4. /\ DOMAIN handoffDir' = HandoffFiles
        /\ handoffDir'["final_state.json"] = "inputs_missing" /\ handoffDir'[Package] = Absent
    BY <1>3, <1>names, <2>3 DEF RefuseHandoff
  <2> QED BY <2>2, <2>4, <1>names DEF HandoffInv
<1>4. CASE CopyPhase11
  <2>1. Goes("handoff", "copy", "package")
    BY <1>4, Going, Zenon
  <2>2. pc'["handoff"] = "package" /\ Inside("handoff") /\ pc["handoff"] = "copy"
    BY <2>1 DEF Goes
  <2>3. ReviewGood /\ handoffDir[Upstream] # Absent /\ handoffDir[Package] = Absent
    BY <2>2, <1>names DEF HandoffInv
  <2>4. DOMAIN handoffDir' = HandoffFiles /\ Copied' /\ handoffDir'[Package] = Absent
    BY <1>4, <2>3, CopyPhase11Does
  <2>5. matrix' = TheMatrix
    BY <1>4, <2>3 DEF CopyPhase11, review, ReviewGood
  <2> QED BY <2>2, <2>4, <2>5, <1>names DEF HandoffInv, TheMatrix
<1>12. CASE MissPhase11
  <2>1. Goes("handoff", "copy", "failure")
    BY <1>12, Going, Zenon
  <2>2. pc'["handoff"] = "failure" /\ Inside("handoff") /\ pc["handoff"] = "copy"
    BY <2>1 DEF Goes
  <2>3. handoffDir[Upstream] # Absent /\ handoffDir[Package] = Absent
    BY <2>2, <1>names DEF HandoffInv
  <2>4. /\ DOMAIN handoffDir' = HandoffFiles
        /\ handoffDir'[Upstream] # Absent /\ handoffDir'[Package] = Absent
    BY <1>12, <2>3, MissPhase11Does
  <2> QED BY <2>2, <2>4, <1>names DEF HandoffInv
<1>5. CASE BuildHandoff
  <2>1. Goes("handoff", "package", "final")
    BY <1>5, Going, Zenon
  <2>2. pc'["handoff"] = "final" /\ Inside("handoff") /\ pc["handoff"] = "package"
    BY <2>1 DEF Goes
  <2>3. Copied /\ handoffDir[Package] = Absent /\ matrix = TheMatrix
    BY <2>2, <1>names DEF HandoffInv
  <2>4. handoffDir' = handoffDir /\ prerequisites' = Prerequisites(TheMatrix)
    BY <1>5, <2>3, Zenon DEF BuildHandoff
  <2>5. Copied'
    BY <2>3, <2>4 DEF Copied
  <2> QED BY <2>2, <2>3, <2>4, <2>5, <1>names DEF HandoffInv, TheMatrix
<1>6. CASE WriteHandoffFinal
  <2>1. Goes("handoff", "final", "raw")
    BY <1>6, Going, Zenon
  <2>2. pc'["handoff"] = "raw" /\ Inside("handoff") /\ pc["handoff"] = "final"
    BY <2>1 DEF Goes
  <2>3. /\ Copied /\ handoffDir[Package] = Absent
        /\ prerequisites = Prerequisites(TheMatrix) /\ DOMAIN handoffDir = HandoffFiles
    BY <2>2, <1>names DEF HandoffInv
  <2>4. /\ handoffDir' = [handoffDir EXCEPT !["final_state.json"] = "passed"]
        /\ prerequisites' = prerequisites
    BY <1>6 DEF WriteHandoffFinal
  <2>5. /\ DOMAIN handoffDir' = HandoffFiles /\ handoffDir'["final_state.json"] = "passed"
        /\ handoffDir'[Package] = Absent /\ \A f \in Own : handoffDir'[f] = handoffDir[f]
    BY <1>names, <2>3, <2>4
  <2>6. Copied'
    BY <2>3, <2>5, CopiedStays
  <2> QED BY <2>2, <2>3, <2>4, <2>5, <2>6, <1>names DEF HandoffInv, TheMatrix
<1>7. CASE WriteHandoffRaw
  <2>1. Goes("handoff", "raw", "artifacts")
    BY <1>7, Going, Zenon
  <2>2. pc'["handoff"] = "artifacts" /\ Inside("handoff") /\ pc["handoff"] = "raw"
    BY <2>1 DEF Goes
  <2>3. /\ Copied /\ handoffDir[Package] = Absent /\ handoffDir["final_state.json"] = "passed"
        /\ prerequisites = Prerequisites(TheMatrix) /\ DOMAIN handoffDir = HandoffFiles
    BY <2>2, <1>names DEF HandoffInv
  <2>4. /\ handoffDir' = [handoffDir EXCEPT !["raw.log"] = "passed"]
        /\ prerequisites' = prerequisites
    BY <1>7 DEF WriteHandoffRaw
  <2>5. /\ DOMAIN handoffDir' = HandoffFiles /\ handoffDir'["final_state.json"] = "passed"
        /\ handoffDir'["raw.log"] = "passed"
        /\ handoffDir'[Package] = Absent /\ \A f \in Own : handoffDir'[f] = handoffDir[f]
    BY <1>names, <2>3, <2>4
  <2>6. Copied'
    BY <2>3, <2>5, CopiedStays
  <2> QED BY <2>2, <2>3, <2>4, <2>5, <2>6, <1>names DEF HandoffInv, TheMatrix
<1>8. CASE WriteArtifacts
  <2>1. Goes("handoff", "artifacts", "hash")
    BY <1>8, Going, Zenon
  <2>2. pc'["handoff"] = "hash" /\ Inside("handoff") /\ pc["handoff"] = "artifacts"
    BY <2>1 DEF Goes
  <2>3. /\ Copied /\ handoffDir["final_state.json"] = "passed" /\ handoffDir["raw.log"] = "passed"
        /\ prerequisites = Prerequisites(TheMatrix) /\ DOMAIN handoffDir = HandoffFiles
    BY <2>2 DEF HandoffInv
  <2>4. prerequisites' = prerequisites
    BY <1>8 DEF WriteArtifacts
  <2>5. /\ DOMAIN handoffDir' = HandoffFiles
        /\ \A f \in Own : handoffDir'[f] = handoffDir[f]
        /\ handoffDir'[Package] = "passed" /\ handoffDir'["final_state.json"] = "passed"
        /\ \A f \in Phase12Artifacts : handoffDir'[f] # Absent
    BY <1>8, <2>3, WriteArtifactsDoes
  <2>6. Copied'
    BY <2>3, <2>5, CopiedStays
  <2>7. handoffDir'["auditor_handoff_package.json"] = "passed"
    BY <2>5, <1>names
  <2>8. prerequisites' = Prerequisites(TheMatrix)'
    BY <2>3, <2>4 DEF TheMatrix
  <2> QED BY <2>2, <2>5, <2>6, <2>7, <2>8 DEF HandoffInv
<1>9. CASE RenderAndHash
  <2>1. Goes("handoff", "hash", "validate")
    BY <1>9, Going, Zenon
  <2>2. pc'["handoff"] = "validate" /\ Inside("handoff") /\ pc["handoff"] = "hash"
    BY <2>1 DEF Goes
  <2>3. /\ Copied /\ handoffDir["final_state.json"] = "passed" /\ handoffDir[Package] = "passed"
        /\ prerequisites = Prerequisites(TheMatrix)
        /\ \A f \in Phase12Artifacts : handoffDir[f] # Absent
    BY <2>2, <1>names DEF HandoffInv
  <2>4. prerequisites' = prerequisites
    BY <1>9 DEF RenderAndHash
  <2>5. /\ DOMAIN handoffDir' = HandoffFiles
        /\ handoffDir'[Package] = "passed" /\ handoffDir'["final_state.json"] = "passed"
        /\ handoffDir'["human_review_package.json"] = "passed"
        /\ \A f \in HandoffFiles : handoffDir'[f] # Absent
        /\ \A f \in Required :
             f # "artifact_hash_manifest.json" => manifest'[f] = handoffDir'[f]
    BY <1>9, <2>3, RenderAndHashDoes
  <2> QED BY <2>2, <2>3, <2>4, <2>5, <1>names DEF HandoffInv, TheMatrix
<1>10. CASE ValidateHandoff
  <2>1. Goes("handoff", "validate", "print")
    BY <1>10, Going, Zenon
  <2>2. pc'["handoff"] = "print" /\ Inside("handoff") /\ pc["handoff"] = "validate"
    BY <2>1 DEF Goes
  <2>3. /\ DOMAIN handoffDir = HandoffFiles
        /\ handoffDir["final_state.json"] = "passed" /\ handoffDir[Package] = "passed"
        /\ handoffDir["human_review_package.json"] = "passed"
        /\ prerequisites = Prerequisites(TheMatrix)
        /\ \A f \in HandoffFiles : handoffDir[f] # Absent
        /\ \A f \in Required :
             f # "artifact_hash_manifest.json" => manifest[f] = handoffDir[f]
    BY <2>2, <1>names DEF HandoffInv
  <2>4. UNCHANGED <<handoffVendor, prerequisites, manifest>>
    BY <1>10 DEF ValidateHandoff
  <2>5. \/ handoffDir' = handoffDir /\ ~handoffVendor
        \/ handoffDir' = Writing(handoffDir, {Package, "final_state.json"}, "failed")
    <3>1. handoffDir' =
           IF OutputsValid(handoffVendor, handoffDir["human_review_package.json"],
                           prerequisites, manifest)
             THEN handoffDir
             ELSE Writing(handoffDir, {"auditor_handoff_package.json", "final_state.json"},
                          "failed")
      BY <1>10, Zenon DEF ValidateHandoff
    <3>2. OutputsValid(handoffVendor, handoffDir["human_review_package.json"],
                       prerequisites, manifest) => ~handoffVendor
      BY Zenon DEF OutputsValid
    <3> QED BY <3>1, <3>2, <1>names, Zenon
  <2>6. CASE handoffDir' = handoffDir /\ ~handoffVendor
    <3>1. HandoffGood'
      BY <2>3, <2>4, <2>6 DEF HandoffGood, TheMatrix
    <3> QED BY <2>2, <2>3, <2>6, <3>1, <1>names DEF HandoffInv
  <2>7. CASE handoffDir' = Writing(handoffDir, {Package, "final_state.json"}, "failed")
    <3>1. /\ DOMAIN handoffDir' = HandoffFiles
          /\ handoffDir'["final_state.json"] = "failed" /\ handoffDir'[Package] = "failed"
      BY <2>3, <2>7, <1>names DEF Writing
    <3> QED BY <2>2, <3>1, <1>names DEF HandoffInv
  <2> QED BY <2>5, <2>6, <2>7
<1>11. CASE ~HandoffGoes /\ ~BeginHandoff
  <2>1. Aside("handoff") \/ pc'["handoff"] = "begin"
    BY <1>11, Others
  <2>2. /\ handoffDir' = handoffDir
        /\ UNCHANGED <<handoffVendor, prerequisites, manifest>>
    BY <1>0, <1>11 DEF LeavesAlone
  <2>3. CASE pc'["handoff"] = "begin"
    BY <2>2, <2>3 DEF HandoffInv
  <2>4. CASE Inside("handoff")' => Inside("handoff") /\ pc'["handoff"] = pc["handoff"]
    <3>1. CASE Inside("handoff") /\ pc["handoff"] \in {"copy", "package"}
      <4>1. Top # "review"
        BY <3>1, BelowWhom, Names
      <4>2. ~ReviewGoes
        BY <4>1, OwnMoves DEF Goes
      <4>3. ~BeginReview
        <5>1. BeginReview => Top = "review"
          BY CallMoves DEF Calling
        <5> QED BY <4>1, <5>1
      <4>4. reviewDir' = reviewDir /\ matrix' = matrix
        BY <1>0, <4>2, <4>3 DEF LeavesAlone, ReviewGoes
      <4> QED BY <2>2, <2>4, <3>1, <4>4 DEF HandoffInv, ReviewGood, Copied, TheMatrix
    <3>2. CASE Inside("handoff") /\ pc["handoff"] \notin {"copy", "package"}
      <4>1. /\ pc["handoff"] = "print" /\ handoffDir["final_state.json"] = "passed"
                 => HandoffGood
        BY <3>2 DEF HandoffInv
      <4>2. (Copied => Copied') /\ (HandoffGood => HandoffGood')
        BY <2>2 DEF Copied, HandoffGood, TheMatrix
      <4>3. Prerequisites(TheMatrix)' = Prerequisites(TheMatrix)
        BY DEF TheMatrix
      <4> QED BY <2>2, <2>4, <3>2, <4>1, <4>2, <4>3 DEF HandoffInv
    <3>3. CASE ~Inside("handoff")
      BY <2>2, <2>4, <3>3 DEF HandoffInv
    <3> QED BY <3>1, <3>2, <3>3
  <2> QED BY <2>1, <2>3, <2>4 DEF Aside
<1> QED BY <1>1, <1>2, <1>3, <1>4, <1>5, <1>6, <1>7, <1>8, <1>9, <1>10, <1>11,
           <1>12, Zenon
        DEF HandoffGoes

\* What the command of phase 12 told stays true.
LEMMA HandoffToldStep ==
  ASSUME StackInv, HandoffInv, HandoffTold, Len(results) \in Nat, [Next]_vars
  PROVE  HandoffTold'
<1>0. LeavesAlone
  BY Kept
<1>1. CASE PrintHandoff
  <2>1. /\ At("handoff", "print")
        /\ Ends("handoff", ExitCode(handoffDir["final_state.json"]),
                handoffDir["final_state.json"], OwnDir)
    BY <1>1, EndMoves, Zenon
  <2>2. handoffDir' = handoffDir /\ UNCHANGED <<handoffVendor, prerequisites, manifest>>
    BY <1>1 DEF PrintHandoff, handoff
  <2>3. Inside("handoff") /\ pc["handoff"] = "print"
    BY <2>1 DEF Ends, At
  <2>4. /\ handoffDir["auditor_handoff_package.json"] \in {handoffDir["final_state.json"], Absent}
        /\ handoffDir["final_state.json"] = "passed" => HandoffGood
    BY <2>3 DEF HandoffInv
  <2>5. /\ ret'.said = handoffDir["final_state.json"]
        /\ ret'.exit = ExitCode(handoffDir["final_state.json"])
    BY <2>1 DEF Ends
  <2>6. ret'.exit = "0" <=> ret'.said = "passed"
    BY <2>5 DEF ExitCode
  <2>7. HandoffGood => HandoffGood'
    BY <2>2 DEF HandoffGood, TheMatrix
  <2> QED BY <2>2, <2>4, <2>5, <2>6, <2>7 DEF HandoffTold
<1>2. CASE Ending /\ ~PrintHandoff
  <2>1. CASE KillTop
    <3>1. ret'.said = Nothing /\ ret'.exit = "killed"
      BY <2>1, EndMoves DEF Ends
    <3> QED BY <3>1 DEF HandoffTold
  <2>2. CASE RaiseHandoff
    <3>1. Ends("handoff", "1", "error", OwnDir)
      BY <2>2, EndMoves, Zenon
    <3>2. ret'.said = "error" /\ ret'.exit = "1"
      BY <3>1 DEF Ends
    <3> QED BY <3>2 DEF HandoffTold
  <2>3. CASE PrintTable \/ LeafReturns \/ LeafRaises
    BY <2>3, EndMoves DEF Ends, HandoffTold
  <2>4. CASE RaiseReview \/ PrintReview
    BY <2>4, EndMoves DEF Ends, HandoffTold
  <2> QED BY <1>2, <2>1, <2>2, <2>3, <2>4 DEF Ending
<1>3. CASE ~Ending
  <2>1. ret' = ret \/ ret' = NoReturn
    BY <1>3, NotTold
  <2>2. CASE ret' = NoReturn
    BY <2>2 DEF NoReturn, Nothing, HandoffTold
  <2>3. CASE ret' = ret /\ ret.who = "handoff"
    <3>1. ~Inside("handoff")
      BY <2>3, ReturnedWhom DEF Nothing
    <3>2. ~BeginHandoff
      <4>1. BeginHandoff => Inside("handoff")
        BY CallMoves DEF Calling
      <4> QED BY <3>1, <4>1
    <3>3. ~HandoffGoes
      BY <3>1, OwnMoves DEF Goes
    <3>4. handoffDir' = handoffDir /\ UNCHANGED <<handoffVendor, prerequisites, manifest>>
      BY <1>0, <3>2, <3>3 DEF LeavesAlone
    <3> QED BY <2>3, <3>4 DEF HandoffTold, HandoffGood, TheMatrix
  <2>4. CASE ret' = ret /\ ret.who # "handoff"
    BY <2>4 DEF HandoffTold
  <2> QED BY <2>1, <2>2, <2>3, <2>4
<1> QED BY <1>1, <1>2, <1>3

-----------------------------------------------------------------------------
(* Retention.                                                              *)

\* The groups of phases 1 to 5, and the later ones.
LEMMA Groups ==
  /\ DOMAIN EarlyGroups = {"source_provenance", "trace_events", "activegraph_projection",
                           "state_packets", "manager_plans"}
  /\ DOMAIN LateGroups = {"safety_contracts", "live_readiness", "audit_logs",
                          "credential_and_sandbox", "external_readiness",
                          "operator_incident", "human_review", "auditor_handoff"}
  /\ EarlyGroups["source_provenance"] = {Upstream}
  /\ EarlyGroups["trace_events"] = {"events.jsonl"}
  /\ EarlyGroups["activegraph_projection"] = {"activegraph_trace.json"}
  /\ EarlyGroups["state_packets"] = {"state_packets.jsonl", "state_packet_index.json"}
  /\ EarlyGroups["manager_plans"] = Plans
  /\ LateGroups["safety_contracts"] = ContractFiles
  /\ LateGroups["live_readiness"] = OptInFiles \cup {"live_readiness_audit_report.json"}
  /\ LateGroups["audit_logs"] = {"audit_log.jsonl", "audit_integrity_report.json"}
  /\ LateGroups["credential_and_sandbox"] =
       {"credential_policy_report.json", "sandbox_policy_report.json"}
  /\ LateGroups["external_readiness"] = ExternalFiles \cap Chain
  /\ LateGroups["operator_incident"] = OperatorFiles
  /\ LateGroups["human_review"] = Phase11Artifacts
  /\ LateGroups["auditor_handoff"] = Phase12Artifacts
BY DEF EarlyGroups, LateGroups

\* A file that is in one group and in no other is retained once.
LEMMA OneGroup ==
  ASSUME NEW f, NEW g,
         \/ g \in DOMAIN EarlyGroups /\ f \in EarlyGroups[g]
         \/ g \in DOMAIN LateGroups /\ f \in LateGroups[g],
         \A h \in DOMAIN EarlyGroups : f \in EarlyGroups[h] => h = g,
         \A h \in DOMAIN LateGroups : f \in LateGroups[h] => h = g
  PROVE  Cardinality(GroupsOf(f)) = 1
<1>1. GroupsOf(f) = {g}
  BY DEF GroupsOf
<1> QED BY <1>1, FS_Singleton

OptIn == OptInFiles \cup {"live_readiness_audit_report.json"}
Audit == {"audit_log.jsonl", "audit_integrity_report.json"}
Policies == {"credential_policy_report.json", "sandbox_policy_report.json"}
External == ExternalFiles \cap Chain

\* The groups have no file in common.
LEMMA GroupsApart ==
  /\ \A f \in {Upstream} :
       f \notin {"events.jsonl"} /\ f \notin {"activegraph_trace.json"} /\ f \notin
       {"state_packets.jsonl", "state_packet_index.json"} /\ f \notin Plans /\ f \notin
       ContractFiles /\ f \notin OptIn /\ f \notin Audit /\ f \notin Policies /\ f
       \notin External /\ f \notin OperatorFiles /\ f \notin Phase11Artifacts /\ f
       \notin Phase12Artifacts
  /\ \A f \in {"events.jsonl"} :
       f \notin {Upstream} /\ f \notin {"activegraph_trace.json"} /\ f \notin
       {"state_packets.jsonl", "state_packet_index.json"} /\ f \notin Plans /\ f \notin
       ContractFiles /\ f \notin OptIn /\ f \notin Audit /\ f \notin Policies /\ f
       \notin External /\ f \notin OperatorFiles /\ f \notin Phase11Artifacts /\ f
       \notin Phase12Artifacts
  /\ \A f \in {"activegraph_trace.json"} :
       f \notin {Upstream} /\ f \notin {"events.jsonl"} /\ f \notin
       {"state_packets.jsonl", "state_packet_index.json"} /\ f \notin Plans /\ f \notin
       ContractFiles /\ f \notin OptIn /\ f \notin Audit /\ f \notin Policies /\ f
       \notin External /\ f \notin OperatorFiles /\ f \notin Phase11Artifacts /\ f
       \notin Phase12Artifacts
  /\ \A f \in {"state_packets.jsonl", "state_packet_index.json"} :
       f \notin {Upstream} /\ f \notin {"events.jsonl"} /\ f \notin
       {"activegraph_trace.json"} /\ f \notin Plans /\ f \notin ContractFiles /\ f
       \notin OptIn /\ f \notin Audit /\ f \notin Policies /\ f \notin External /\ f
       \notin OperatorFiles /\ f \notin Phase11Artifacts /\ f \notin Phase12Artifacts
  /\ \A f \in Plans :
       f \notin {Upstream} /\ f \notin {"events.jsonl"} /\ f \notin
       {"activegraph_trace.json"} /\ f \notin {"state_packets.jsonl",
       "state_packet_index.json"} /\ f \notin ContractFiles /\ f \notin OptIn /\ f
       \notin Audit /\ f \notin Policies /\ f \notin External /\ f \notin OperatorFiles
       /\ f \notin Phase11Artifacts /\ f \notin Phase12Artifacts
  /\ \A f \in ContractFiles :
       f \notin {Upstream} /\ f \notin {"events.jsonl"} /\ f \notin
       {"activegraph_trace.json"} /\ f \notin {"state_packets.jsonl",
       "state_packet_index.json"} /\ f \notin Plans /\ f \notin OptIn /\ f \notin Audit
       /\ f \notin Policies /\ f \notin External /\ f \notin OperatorFiles /\ f \notin
       Phase11Artifacts /\ f \notin Phase12Artifacts
  /\ \A f \in OptIn :
       f \notin {Upstream} /\ f \notin {"events.jsonl"} /\ f \notin
       {"activegraph_trace.json"} /\ f \notin {"state_packets.jsonl",
       "state_packet_index.json"} /\ f \notin Plans /\ f \notin ContractFiles /\ f
       \notin Audit /\ f \notin Policies /\ f \notin External /\ f \notin OperatorFiles
       /\ f \notin Phase11Artifacts /\ f \notin Phase12Artifacts
  /\ \A f \in Audit :
       f \notin {Upstream} /\ f \notin {"events.jsonl"} /\ f \notin
       {"activegraph_trace.json"} /\ f \notin {"state_packets.jsonl",
       "state_packet_index.json"} /\ f \notin Plans /\ f \notin ContractFiles /\ f
       \notin OptIn /\ f \notin Policies /\ f \notin External /\ f \notin OperatorFiles
       /\ f \notin Phase11Artifacts /\ f \notin Phase12Artifacts
  /\ \A f \in Policies :
       f \notin {Upstream} /\ f \notin {"events.jsonl"} /\ f \notin
       {"activegraph_trace.json"} /\ f \notin {"state_packets.jsonl",
       "state_packet_index.json"} /\ f \notin Plans /\ f \notin ContractFiles /\ f
       \notin OptIn /\ f \notin Audit /\ f \notin External /\ f \notin OperatorFiles /\
       f \notin Phase11Artifacts /\ f \notin Phase12Artifacts
  /\ \A f \in External :
       f \notin {Upstream} /\ f \notin {"events.jsonl"} /\ f \notin
       {"activegraph_trace.json"} /\ f \notin {"state_packets.jsonl",
       "state_packet_index.json"} /\ f \notin Plans /\ f \notin ContractFiles /\ f
       \notin OptIn /\ f \notin Audit /\ f \notin Policies /\ f \notin OperatorFiles /\
       f \notin Phase11Artifacts /\ f \notin Phase12Artifacts
  /\ \A f \in OperatorFiles :
       f \notin {Upstream} /\ f \notin {"events.jsonl"} /\ f \notin
       {"activegraph_trace.json"} /\ f \notin {"state_packets.jsonl",
       "state_packet_index.json"} /\ f \notin Plans /\ f \notin ContractFiles /\ f
       \notin OptIn /\ f \notin Audit /\ f \notin Policies /\ f \notin External /\ f
       \notin Phase11Artifacts /\ f \notin Phase12Artifacts
  /\ \A f \in Phase11Artifacts :
       f \notin {Upstream} /\ f \notin {"events.jsonl"} /\ f \notin
       {"activegraph_trace.json"} /\ f \notin {"state_packets.jsonl",
       "state_packet_index.json"} /\ f \notin Plans /\ f \notin ContractFiles /\ f
       \notin OptIn /\ f \notin Audit /\ f \notin Policies /\ f \notin External /\ f
       \notin OperatorFiles /\ f \notin Phase12Artifacts
  /\ \A f \in Phase12Artifacts :
       f \notin {Upstream} /\ f \notin {"events.jsonl"} /\ f \notin
       {"activegraph_trace.json"} /\ f \notin {"state_packets.jsonl",
       "state_packet_index.json"} /\ f \notin Plans /\ f \notin ContractFiles /\ f
       \notin OptIn /\ f \notin Audit /\ f \notin Policies /\ f \notin External /\ f
       \notin OperatorFiles /\ f \notin Phase11Artifacts
<1>1. \A f \in {Upstream} :
       f \notin {"events.jsonl"} /\ f \notin {"activegraph_trace.json"} /\ f \notin
       {"state_packets.jsonl", "state_packet_index.json"} /\ f \notin Plans /\ f \notin
       ContractFiles /\ f \notin OptIn /\ f \notin Audit /\ f \notin Policies /\ f
       \notin External /\ f \notin OperatorFiles /\ f \notin Phase11Artifacts /\ f
       \notin Phase12Artifacts
  BY DEF Upstream, Plans, ContractFiles, OptIn, OptInFiles, Audit, Policies, External,
         ExternalFiles, OperatorFiles, Phase11Artifacts, Phase12Artifacts, RequiredArtifacts,
         Fixture
<1>2. \A f \in {"events.jsonl"} :
       f \notin {Upstream} /\ f \notin {"activegraph_trace.json"} /\ f \notin
       {"state_packets.jsonl", "state_packet_index.json"} /\ f \notin Plans /\ f \notin
       ContractFiles /\ f \notin OptIn /\ f \notin Audit /\ f \notin Policies /\ f
       \notin External /\ f \notin OperatorFiles /\ f \notin Phase11Artifacts /\ f
       \notin Phase12Artifacts
  BY DEF Upstream, Plans, ContractFiles, OptIn, OptInFiles, Audit, Policies, External,
         ExternalFiles, OperatorFiles, Phase11Artifacts, Phase12Artifacts, RequiredArtifacts,
         Fixture
<1>3. \A f \in {"activegraph_trace.json"} :
       f \notin {Upstream} /\ f \notin {"events.jsonl"} /\ f \notin
       {"state_packets.jsonl", "state_packet_index.json"} /\ f \notin Plans /\ f \notin
       ContractFiles /\ f \notin OptIn /\ f \notin Audit /\ f \notin Policies /\ f
       \notin External /\ f \notin OperatorFiles /\ f \notin Phase11Artifacts /\ f
       \notin Phase12Artifacts
  BY DEF Upstream, Plans, ContractFiles, OptIn, OptInFiles, Audit, Policies, External,
         ExternalFiles, OperatorFiles, Phase11Artifacts, Phase12Artifacts, RequiredArtifacts,
         Fixture
<1>4. \A f \in {"state_packets.jsonl", "state_packet_index.json"} :
       f \notin {Upstream} /\ f \notin {"events.jsonl"} /\ f \notin
       {"activegraph_trace.json"} /\ f \notin Plans /\ f \notin ContractFiles /\ f
       \notin OptIn /\ f \notin Audit /\ f \notin Policies /\ f \notin External /\ f
       \notin OperatorFiles /\ f \notin Phase11Artifacts /\ f \notin Phase12Artifacts
  BY DEF Upstream, Plans, ContractFiles, OptIn, OptInFiles, Audit, Policies, External,
         ExternalFiles, OperatorFiles, Phase11Artifacts, Phase12Artifacts, RequiredArtifacts,
         Fixture
<1>5. \A f \in Plans :
       f \notin {Upstream} /\ f \notin {"events.jsonl"} /\ f \notin
       {"activegraph_trace.json"} /\ f \notin {"state_packets.jsonl",
       "state_packet_index.json"} /\ f \notin ContractFiles /\ f \notin OptIn /\ f
       \notin Audit /\ f \notin Policies /\ f \notin External /\ f \notin OperatorFiles
       /\ f \notin Phase11Artifacts /\ f \notin Phase12Artifacts
  BY DEF Upstream, Plans, ContractFiles, OptIn, OptInFiles, Audit, Policies, External,
         ExternalFiles, OperatorFiles, Phase11Artifacts, Phase12Artifacts, RequiredArtifacts,
         Fixture
<1>6. \A f \in ContractFiles :
       f \notin {Upstream} /\ f \notin {"events.jsonl"} /\ f \notin
       {"activegraph_trace.json"} /\ f \notin {"state_packets.jsonl",
       "state_packet_index.json"} /\ f \notin Plans /\ f \notin OptIn /\ f \notin Audit
       /\ f \notin Policies /\ f \notin External /\ f \notin OperatorFiles /\ f \notin
       Phase11Artifacts /\ f \notin Phase12Artifacts
  BY DEF Upstream, Plans, ContractFiles, OptIn, OptInFiles, Audit, Policies, External,
         ExternalFiles, OperatorFiles, Phase11Artifacts, Phase12Artifacts, RequiredArtifacts,
         Fixture
<1>7. \A f \in OptIn :
       f \notin {Upstream} /\ f \notin {"events.jsonl"} /\ f \notin
       {"activegraph_trace.json"} /\ f \notin {"state_packets.jsonl",
       "state_packet_index.json"} /\ f \notin Plans /\ f \notin ContractFiles /\ f
       \notin Audit /\ f \notin Policies /\ f \notin External /\ f \notin OperatorFiles
       /\ f \notin Phase11Artifacts /\ f \notin Phase12Artifacts
  BY DEF Upstream, Plans, ContractFiles, OptIn, OptInFiles, Audit, Policies, External,
         ExternalFiles, OperatorFiles, Phase11Artifacts, Phase12Artifacts, RequiredArtifacts,
         Fixture
<1>8. \A f \in Audit :
       f \notin {Upstream} /\ f \notin {"events.jsonl"} /\ f \notin
       {"activegraph_trace.json"} /\ f \notin {"state_packets.jsonl",
       "state_packet_index.json"} /\ f \notin Plans /\ f \notin ContractFiles /\ f
       \notin OptIn /\ f \notin Policies /\ f \notin External /\ f \notin OperatorFiles
       /\ f \notin Phase11Artifacts /\ f \notin Phase12Artifacts
  BY DEF Upstream, Plans, ContractFiles, OptIn, OptInFiles, Audit, Policies, External,
         ExternalFiles, OperatorFiles, Phase11Artifacts, Phase12Artifacts, RequiredArtifacts,
         Fixture
<1>9. \A f \in Policies :
       f \notin {Upstream} /\ f \notin {"events.jsonl"} /\ f \notin
       {"activegraph_trace.json"} /\ f \notin {"state_packets.jsonl",
       "state_packet_index.json"} /\ f \notin Plans /\ f \notin ContractFiles /\ f
       \notin OptIn /\ f \notin Audit /\ f \notin External /\ f \notin OperatorFiles /\
       f \notin Phase11Artifacts /\ f \notin Phase12Artifacts
  BY DEF Upstream, Plans, ContractFiles, OptIn, OptInFiles, Audit, Policies, External,
         ExternalFiles, OperatorFiles, Phase11Artifacts, Phase12Artifacts, RequiredArtifacts,
         Fixture
<1>10. \A f \in External :
       f \notin {Upstream} /\ f \notin {"events.jsonl"} /\ f \notin
       {"activegraph_trace.json"} /\ f \notin {"state_packets.jsonl",
       "state_packet_index.json"} /\ f \notin Plans /\ f \notin ContractFiles /\ f
       \notin OptIn /\ f \notin Audit /\ f \notin Policies /\ f \notin OperatorFiles /\
       f \notin Phase11Artifacts /\ f \notin Phase12Artifacts
  BY DEF Upstream, Plans, ContractFiles, OptIn, OptInFiles, Audit, Policies, External,
         ExternalFiles, OperatorFiles, Phase11Artifacts, Phase12Artifacts, RequiredArtifacts,
         Fixture
<1>11. \A f \in OperatorFiles :
       f \notin {Upstream} /\ f \notin {"events.jsonl"} /\ f \notin
       {"activegraph_trace.json"} /\ f \notin {"state_packets.jsonl",
       "state_packet_index.json"} /\ f \notin Plans /\ f \notin ContractFiles /\ f
       \notin OptIn /\ f \notin Audit /\ f \notin Policies /\ f \notin External /\ f
       \notin Phase11Artifacts /\ f \notin Phase12Artifacts
  BY DEF Upstream, Plans, ContractFiles, OptIn, OptInFiles, Audit, Policies, External,
         ExternalFiles, OperatorFiles, Phase11Artifacts, Phase12Artifacts, RequiredArtifacts,
         Fixture
<1>12. \A f \in Phase11Artifacts :
       f \notin {Upstream} /\ f \notin {"events.jsonl"} /\ f \notin
       {"activegraph_trace.json"} /\ f \notin {"state_packets.jsonl",
       "state_packet_index.json"} /\ f \notin Plans /\ f \notin ContractFiles /\ f
       \notin OptIn /\ f \notin Audit /\ f \notin Policies /\ f \notin External /\ f
       \notin OperatorFiles /\ f \notin Phase12Artifacts
  BY DEF Upstream, Plans, ContractFiles, OptIn, OptInFiles, Audit, Policies, External,
         ExternalFiles, OperatorFiles, Phase11Artifacts, Phase12Artifacts, RequiredArtifacts,
         Fixture
<1>13. \A f \in Phase12Artifacts :
       f \notin {Upstream} /\ f \notin {"events.jsonl"} /\ f \notin
       {"activegraph_trace.json"} /\ f \notin {"state_packets.jsonl",
       "state_packet_index.json"} /\ f \notin Plans /\ f \notin ContractFiles /\ f
       \notin OptIn /\ f \notin Audit /\ f \notin Policies /\ f \notin External /\ f
       \notin OperatorFiles /\ f \notin Phase11Artifacts
  BY DEF Upstream, Plans, ContractFiles, OptIn, OptInFiles, Audit, Policies, External,
         ExternalFiles, OperatorFiles, Phase11Artifacts, Phase12Artifacts, RequiredArtifacts,
         Fixture
<1> QED BY <1>1, <1>2, <1>3, <1>4, <1>5, <1>6, <1>7, <1>8, <1>9, <1>10, <1>11, <1>12, <1>13

\* Every file of the chain is in a group.
LEMMA Retained ==
  Required \subseteq {Upstream} \cup {"events.jsonl"} \cup {"activegraph_trace.json"}
     \cup {"state_packets.jsonl", "state_packet_index.json"} \cup Plans \cup ContractFiles
     \cup OptIn \cup Audit \cup Policies \cup External \cup OperatorFiles
     \cup Phase11Artifacts \cup Phase12Artifacts
<1>1. Chain \subseteq RequiredArtifacts \cup ContractFiles \cup OptInFiles \cup AuditFiles
        \cup External \cup OperatorFiles
  BY DEF Chain, External, Phase7Artifacts
<1>2. RequiredArtifacts \subseteq {"events.jsonl"} \cup {"activegraph_trace.json"}
        \cup {"state_packets.jsonl", "state_packet_index.json"} \cup Plans
  BY DEF Plans, Fixture
<1>3. AuditFiles \subseteq Audit \cup Policies \cup OptIn
  BY DEF AuditFiles, Audit, Policies, OptIn
<1>4. OptInFiles \subseteq OptIn
  BY DEF OptIn
<1> QED BY <1>1, <1>2, <1>3, <1>4 DEF Required

\* Every file that is required is retained under exactly one group.
LEMMA RetainedOnce ==
  ASSUME NEW f \in Required
  PROVE  Cardinality(GroupsOf(f)) = 1
<1>0. /\ LateGroups["live_readiness"] = OptIn /\ LateGroups["audit_logs"] = Audit
      /\ LateGroups["credential_and_sandbox"] = Policies
      /\ LateGroups["external_readiness"] = External
  BY Groups DEF OptIn, Audit, Policies, External
<1>1. CASE f \in {Upstream}
  <2>1. "source_provenance" \in DOMAIN EarlyGroups /\ f \in EarlyGroups["source_provenance"]
    BY <1>0, <1>1, Groups
  <2>2. \A h \in DOMAIN EarlyGroups : f \in EarlyGroups[h] => h = "source_provenance"
    BY <1>1, Groups, GroupsApart
  <2>3. \A h \in DOMAIN LateGroups : f \in LateGroups[h] => h = "source_provenance"
    BY <1>0, <1>1, Groups, GroupsApart
  <2> QED BY <2>1, <2>2, <2>3, OneGroup, Zenon
<1>2. CASE f \in {"events.jsonl"}
  <2>1. "trace_events" \in DOMAIN EarlyGroups /\ f \in EarlyGroups["trace_events"]
    BY <1>0, <1>2, Groups
  <2>2. \A h \in DOMAIN EarlyGroups : f \in EarlyGroups[h] => h = "trace_events"
    BY <1>2, Groups, GroupsApart
  <2>3. \A h \in DOMAIN LateGroups : f \in LateGroups[h] => h = "trace_events"
    BY <1>0, <1>2, Groups, GroupsApart
  <2> QED BY <2>1, <2>2, <2>3, OneGroup, Zenon
<1>3. CASE f \in {"activegraph_trace.json"}
  <2>1. /\ "activegraph_projection" \in DOMAIN EarlyGroups
        /\ f \in EarlyGroups["activegraph_projection"]
    BY <1>0, <1>3, Groups
  <2>2. \A h \in DOMAIN EarlyGroups : f \in EarlyGroups[h] => h = "activegraph_projection"
    BY <1>3, Groups, GroupsApart
  <2>3. \A h \in DOMAIN LateGroups : f \in LateGroups[h] => h = "activegraph_projection"
    BY <1>0, <1>3, Groups, GroupsApart
  <2> QED BY <2>1, <2>2, <2>3, OneGroup, Zenon
<1>4. CASE f \in {"state_packets.jsonl", "state_packet_index.json"}
  <2>1. "state_packets" \in DOMAIN EarlyGroups /\ f \in EarlyGroups["state_packets"]
    BY <1>0, <1>4, Groups
  <2>2. \A h \in DOMAIN EarlyGroups : f \in EarlyGroups[h] => h = "state_packets"
    BY <1>4, Groups, GroupsApart
  <2>3. \A h \in DOMAIN LateGroups : f \in LateGroups[h] => h = "state_packets"
    BY <1>0, <1>4, Groups, GroupsApart
  <2> QED BY <2>1, <2>2, <2>3, OneGroup, Zenon
<1>5. CASE f \in Plans
  <2>1. "manager_plans" \in DOMAIN EarlyGroups /\ f \in EarlyGroups["manager_plans"]
    BY <1>0, <1>5, Groups
  <2>2. \A h \in DOMAIN EarlyGroups : f \in EarlyGroups[h] => h = "manager_plans"
    BY <1>5, Groups, GroupsApart
  <2>3. \A h \in DOMAIN LateGroups : f \in LateGroups[h] => h = "manager_plans"
    BY <1>0, <1>5, Groups, GroupsApart
  <2> QED BY <2>1, <2>2, <2>3, OneGroup, Zenon
<1>6. CASE f \in ContractFiles
  <2>1. "safety_contracts" \in DOMAIN LateGroups /\ f \in LateGroups["safety_contracts"]
    BY <1>0, <1>6, Groups
  <2>2. \A h \in DOMAIN EarlyGroups : f \in EarlyGroups[h] => h = "safety_contracts"
    BY <1>6, Groups, GroupsApart
  <2>3. \A h \in DOMAIN LateGroups : f \in LateGroups[h] => h = "safety_contracts"
    BY <1>0, <1>6, Groups, GroupsApart
  <2> QED BY <2>1, <2>2, <2>3, OneGroup, Zenon
<1>7. CASE f \in OptIn
  <2>1. "live_readiness" \in DOMAIN LateGroups /\ f \in LateGroups["live_readiness"]
    BY <1>0, <1>7, Groups
  <2>2. \A h \in DOMAIN EarlyGroups : f \in EarlyGroups[h] => h = "live_readiness"
    BY <1>7, Groups, GroupsApart
  <2>3. \A h \in DOMAIN LateGroups : f \in LateGroups[h] => h = "live_readiness"
    BY <1>0, <1>7, Groups, GroupsApart
  <2> QED BY <2>1, <2>2, <2>3, OneGroup, Zenon
<1>8. CASE f \in Audit
  <2>1. "audit_logs" \in DOMAIN LateGroups /\ f \in LateGroups["audit_logs"]
    BY <1>0, <1>8, Groups
  <2>2. \A h \in DOMAIN EarlyGroups : f \in EarlyGroups[h] => h = "audit_logs"
    BY <1>8, Groups, GroupsApart
  <2>3. \A h \in DOMAIN LateGroups : f \in LateGroups[h] => h = "audit_logs"
    BY <1>0, <1>8, Groups, GroupsApart
  <2> QED BY <2>1, <2>2, <2>3, OneGroup, Zenon
<1>9. CASE f \in Policies
  <2>1. "credential_and_sandbox" \in DOMAIN LateGroups /\ f \in LateGroups["credential_and_sandbox"]
    BY <1>0, <1>9, Groups
  <2>2. \A h \in DOMAIN EarlyGroups : f \in EarlyGroups[h] => h = "credential_and_sandbox"
    BY <1>9, Groups, GroupsApart
  <2>3. \A h \in DOMAIN LateGroups : f \in LateGroups[h] => h = "credential_and_sandbox"
    BY <1>0, <1>9, Groups, GroupsApart
  <2> QED BY <2>1, <2>2, <2>3, OneGroup, Zenon
<1>10. CASE f \in External
  <2>1. "external_readiness" \in DOMAIN LateGroups /\ f \in LateGroups["external_readiness"]
    BY <1>0, <1>10, Groups
  <2>2. \A h \in DOMAIN EarlyGroups : f \in EarlyGroups[h] => h = "external_readiness"
    BY <1>10, Groups, GroupsApart
  <2>3. \A h \in DOMAIN LateGroups : f \in LateGroups[h] => h = "external_readiness"
    BY <1>0, <1>10, Groups, GroupsApart
  <2> QED BY <2>1, <2>2, <2>3, OneGroup, Zenon
<1>11. CASE f \in OperatorFiles
  <2>1. "operator_incident" \in DOMAIN LateGroups /\ f \in LateGroups["operator_incident"]
    BY <1>0, <1>11, Groups
  <2>2. \A h \in DOMAIN EarlyGroups : f \in EarlyGroups[h] => h = "operator_incident"
    BY <1>11, Groups, GroupsApart
  <2>3. \A h \in DOMAIN LateGroups : f \in LateGroups[h] => h = "operator_incident"
    BY <1>0, <1>11, Groups, GroupsApart
  <2> QED BY <2>1, <2>2, <2>3, OneGroup, Zenon
<1>12. CASE f \in Phase11Artifacts
  <2>1. "human_review" \in DOMAIN LateGroups /\ f \in LateGroups["human_review"]
    BY <1>0, <1>12, Groups
  <2>2. \A h \in DOMAIN EarlyGroups : f \in EarlyGroups[h] => h = "human_review"
    BY <1>12, Groups, GroupsApart
  <2>3. \A h \in DOMAIN LateGroups : f \in LateGroups[h] => h = "human_review"
    BY <1>0, <1>12, Groups, GroupsApart
  <2> QED BY <2>1, <2>2, <2>3, OneGroup, Zenon
<1>13. CASE f \in Phase12Artifacts
  <2>1. "auditor_handoff" \in DOMAIN LateGroups /\ f \in LateGroups["auditor_handoff"]
    BY <1>0, <1>13, Groups
  <2>2. \A h \in DOMAIN EarlyGroups : f \in EarlyGroups[h] => h = "auditor_handoff"
    BY <1>13, Groups, GroupsApart
  <2>3. \A h \in DOMAIN LateGroups : f \in LateGroups[h] => h = "auditor_handoff"
    BY <1>0, <1>13, Groups, GroupsApart
  <2> QED BY <2>1, <2>2, <2>3, OneGroup, Zenon
<1> QED BY Retained, <1>1, <1>2, <1>3, <1>4, <1>5, <1>6, <1>7, <1>8, <1>9, <1>10, <1>11, <1>12,
           <1>13

-----------------------------------------------------------------------------
(* The invariant and the theorems.                                         *)

\* Every run begins within the invariant.
LEMMA InitInv ==
  ASSUME Init
  PROVE  Inv
<1>1. PICK root \in {"all", "review", "handoff"} : stack = <<root>>
  BY DEF Init
<1>2. /\ Len(stack) = 1 /\ DOMAIN stack = 1 .. 1 /\ stack[1] = root /\ stack \in Seq(Kinds)
      /\ stack # <<>> /\ Top = root
  BY <1>1 DEF Kinds, Top
<1>3. /\ pc = [all |-> "wait", review |-> "begin", handoff |-> "begin", leaf |-> "begin"]
      /\ ret = NoReturn /\ second = 1 /\ lastStart = 0 /\ results = <<>>
      /\ leaf = [number |-> 0, dir |-> OwnDir] /\ wrote = [s \in Seconds |-> 0]
      /\ reviewDir = [f \in ReviewFiles |-> Absent]
      /\ handoffDir = [f \in HandoffFiles |-> Absent]
  BY Zenon DEF Init
<1>4. /\ DOMAIN pc = Kinds /\ pc["all"] = "wait" /\ pc["review"] = "begin"
      /\ pc["handoff"] = "begin" /\ pc["leaf"] = "begin" /\ pc[root] # "check"
  BY <1>1, <1>3 DEF Kinds
<1>5. \A k \in Kinds : Inside(k) <=> k = root
  BY <1>2 DEF Inside
<1>6. ret.who = Nothing /\ ret.exit = Nothing /\ ret.dir = NoDir
  BY <1>3 DEF NoReturn
<1>7. StackInv
  BY <1>2, <1>4, <1>6 DEF StackInv
<1>8. ClockInv
  <2>1. MaxDelay \in Nat /\ 1 <= MaxDelay /\ Len(Smokes) \in Nat /\ 0 * MaxDelay = 0
    BY BoundsAssumption, SmokesAssumption
  <2>2. Len(results) = 0 /\ results \in Seq(Entries) /\ DOMAIN results = {}
    BY <1>3
  <2>3. leaf.number = 0
    BY <1>3
  <2> QED BY <1>3, <1>4, <2>1, <2>2, <2>3 DEF ClockInv
<1>9. LeafInv
  <2>1. DOMAIN wrote = Seconds /\ DOMAIN results = {}
    BY <1>3
  <2> QED BY <1>4, <1>6, <2>1, Directories DEF LeafInv, Nothing, ChildPassed
<1>10. AllInv
  BY <1>4, <1>6 DEF AllInv, Nothing
<1>11. ReviewInv /\ HandoffInv
  BY <1>3, <1>4 DEF ReviewInv, HandoffInv
<1>12. ReviewTold /\ HandoffTold
  BY <1>6 DEF ReviewTold, HandoffTold, Nothing
<1> QED BY <1>7, <1>8, <1>9, <1>10, <1>11, <1>12 DEF Inv

\* Every step stays within it.
LEMMA StepInv ==
  ASSUME Inv, [Next]_vars
  PROVE  Inv'
<1>1. /\ StackInv /\ ClockInv /\ LeafInv /\ AllInv
      /\ ReviewInv /\ ReviewTold /\ HandoffInv /\ HandoffTold
  BY DEF Inv
<1>2. Len(results) \in Nat
  BY <1>1, EntryTypes
<1>3. StackInv' /\ ClockInv'
  BY <1>1, <1>2, StackStep, ClockStep
<1>4. LeafInv' /\ AllInv'
  BY <1>1, LeafStep, AllStep
<1>5. ReviewInv' /\ ReviewTold'
  BY <1>1, <1>2, ReviewStep, ReviewToldStep
<1>6. HandoffInv' /\ HandoffTold'
  BY <1>1, <1>2, HandoffStep, HandoffToldStep
<1> QED BY <1>3, <1>4, <1>5, <1>6 DEF Inv

\* The inductive invariant: the commands form a chain of calls, the seconds rise with the
\* smokes, each directory is at each statement what its command has made of it, and what
\* the last command told is what it left.
THEOREM Invariant == Spec => []Inv
<1>1. Init => Inv
  BY InitInv
<1>2. Inv /\ [Next]_vars => Inv'
  BY StepInv
<1> QED BY <1>1, <1>2, PTL DEF Spec

\* Whatever is killed, raises or fails and however deep: the final state a package command
\* leaves is the one it printed, exit code 0 says "passed", the aggregate passes exactly if
\* each smoke did, and a recorded directory holds what its smoke wrote.
THEOREM EndsAgreeAlways == Spec => []EndsAgree
<1>1. Inv => EndsAgree
  <2> SUFFICES ASSUME Inv PROVE EndsAgree
    OBVIOUS
  <2>1. ret.who = "review" /\ ret.said \notin {Nothing, "error"} =>
         /\ reviewDir["final_state.json"] = ret.said
         /\ ret.exit = "0" <=> ret.said = "passed"
    BY DEF Inv, ReviewTold
  <2>2. ret.who = "handoff" /\ ret.said \notin {Nothing, "error"} =>
         /\ handoffDir["final_state.json"] = ret.said
         /\ handoffDir["auditor_handoff_package.json"] \in {ret.said, Absent}
         /\ ret.exit = "0" <=> ret.said = "passed"
    BY DEF Inv, HandoffTold
  <2>3. ret.who = "all" /\ ret.said # Nothing =>
         /\ aggregate = ret.said
         /\ ret.exit = "0" <=> \A i \in DOMAIN Smokes : results[i].passed
    BY DEF Inv, AllInv
  <2>4. RecordedOutputs
    BY DEF Inv, LeafInv, RecordedOutputs
  <2> QED BY <2>1, <2>2, <2>3, <2>4 DEF EndsAgree
<1> QED BY <1>1, Invariant, PTL

\* What a decision named as its blockers is named by the package.
LEMMA BlockersKept ==
  ASSUME NEW operator, NEW incident
  PROVE  operator \cup incident
           \subseteq {p[2] : p \in Prerequisites(MatrixOf(operator, incident))}
<1> DEFINE m == MatrixOf(operator, incident)
<1>1. /\ "operator_authorization" \in DOMAIN m /\ operator \subseteq m["operator_authorization"]
      /\ "incident_response" \in DOMAIN m /\ incident \subseteq m["incident_response"]
  BY DEF MatrixOf
<1> HIDE DEF m
<1>2. ASSUME NEW c \in DOMAIN m, NEW b \in m[c]
      PROVE  b \in {p[2] : p \in Prerequisites(m)}
  <2>1. <<c, b>> \in Prerequisites(m)
    BY DEF Prerequisites
  <2> QED BY <2>1
<1>3. operator \cup incident \subseteq {p[2] : p \in Prerequisites(m)}
  BY <1>1, <1>2
<1> QED BY <1>3 DEF m

\* Exit code 0 of the package of phase 11 means that every file it names is there, and exit
\* code 0 of the handoff of phase 12 that it was built of such a package, on a clean tree,
\* names every blocker that was ever observed, and has a manifest that tells the files as
\* they are, each retained under exactly one group.
THEOREM PackageRestsAlways == Spec => []PackageRests
<1>1. Inv => PackageRests
  <2> SUFFICES ASSUME Inv PROVE PackageRests
    OBVIOUS
  <2>1. ASSUME ret.who = "review", ret.exit = "0" PROVE Missing(reviewDir) = {}
    <3>1. ReviewGood /\ DOMAIN reviewDir = ReviewFiles
      BY <2>1 DEF Inv, ReviewTold, ReviewInv
    <3> QED BY <3>1 DEF Missing, ReviewGood
  <2>2. ASSUME ret.who = "handoff", ret.exit = "0"
        PROVE  /\ Missing(handoffDir) = {}
               /\ handoffDir["human_review_package.json"] = "passed"
               /\ ~handoffVendor
               /\ Observed(OperatorDecisions) \cup Observed(IncidentDecisions)
                    \subseteq {p[2] : p \in prerequisites}
               /\ ManifestFits
    <3>1. HandoffGood /\ DOMAIN handoffDir = HandoffFiles
      BY <2>2 DEF Inv, HandoffTold, HandoffInv
    <3>2. Missing(handoffDir) = {}
      BY <3>1 DEF Missing, HandoffGood
    <3>3. prerequisites =
            Prerequisites(MatrixOf(Observed(OperatorDecisions), Observed(IncidentDecisions)))
      BY <3>1, Zenon DEF HandoffGood, TheMatrix, BlockerMatrix
    <3>4. Observed(OperatorDecisions) \cup Observed(IncidentDecisions)
            \subseteq {p[2] : p \in prerequisites}
      BY <3>3, BlockersKept, Zenon
    <3>5. ManifestFits
      BY <3>1, RetainedOnce DEF ManifestFits, HandoffGood
    <3> QED BY <3>1, <3>2, <3>4, <3>5 DEF HandoffGood
  <2> QED BY <2>1, <2>2 DEF PackageRests
<1> QED BY <1>1, Invariant, PTL

\* What is left of the type invariant.
Typed ==
    /\ second \in Seconds
    /\ flips \in 0 .. MaxFlips /\ dirty \in BOOLEAN
    /\ wrote \in [Seconds -> 0 .. leaf.number]
    /\ DOMAIN manifest = Required

\* Every step keeps it, given that the clock stays in its range while a command runs.
LEMMA TypedStep ==
  ASSUME Inv, Inv', Typed, stack' # <<>> => second' \in Seconds, [Next]_vars
  PROVE  Typed'
<1>0. LeavesAlone
  BY Kept
<1>1. second' \in Seconds
  <2>1. CASE Tick
    BY <2>1 DEF Tick
  <2>2. CASE ~Tick
    <3>1. second' = second
      <4>1. CASE AllGoes \/ LeafGoes
        BY <4>1 DEF AllGoes, LeafGoes, Record, WriteAggregate, NameDirectory
      <4>2. CASE ReviewGoes
        BY <4>2 DEF ReviewGoes, CheckPhase10, RefuseReview, MissPhase10, CopyPhase10, WritePackage,
           WriteReviewFinal, WriteReviewRaw
      <4>3. CASE HandoffGoes
        BY <4>3 DEF HandoffGoes, CheckPhase11, RefuseHandoff, MissPhase11, CopyPhase11, BuildHandoff,
           WriteHandoffFinal, WriteHandoffRaw, WriteArtifacts, RenderAndHash, ValidateHandoff
      <4>4. CASE Ending
        BY <4>4 DEF Ending, PrintTable, LeafReturns, LeafRaises, RaiseReview, PrintReview,
           RaiseHandoff, PrintHandoff, KillTop
      <4>5. CASE Beginning
        BY <4>5 DEF Beginning, StartSmoke, BeginReview, BeginHandoff
      <4>6. CASE Outside
        BY <2>2, <4>6 DEF Outside, Flip, vars
      <4> QED BY <4>1, <4>2, <4>3, <4>4, <4>5, <4>6, Sorted, Zenon
    <3> QED BY <3>1 DEF Typed
  <2> QED BY <2>1, <2>2
<1>2. flips' \in 0 .. MaxFlips /\ dirty' \in BOOLEAN
  <2>1. CASE Flip
    BY <2>1, BoundsAssumption DEF Flip, Typed
  <2>2. CASE ~Flip
    <3>1. flips' = flips /\ dirty' = dirty
      <4>1. CASE AllGoes \/ LeafGoes
        BY <4>1 DEF AllGoes, LeafGoes, Record, WriteAggregate, NameDirectory, tree
      <4>2. CASE ReviewGoes
        BY <4>2 DEF ReviewGoes, CheckPhase10, RefuseReview, MissPhase10, CopyPhase10, WritePackage,
           WriteReviewFinal, WriteReviewRaw, tree
      <4>3. CASE HandoffGoes
        BY <4>3 DEF HandoffGoes, CheckPhase11, RefuseHandoff, MissPhase11, CopyPhase11, BuildHandoff,
           WriteHandoffFinal, WriteHandoffRaw, WriteArtifacts, RenderAndHash, ValidateHandoff,
           tree
      <4>4. CASE Ending
        BY <4>4 DEF Ending, PrintTable, LeafReturns, LeafRaises, RaiseReview, PrintReview,
           RaiseHandoff, PrintHandoff, KillTop, tree
      <4>5. CASE Beginning
        BY <4>5 DEF Beginning, StartSmoke, BeginReview, BeginHandoff, tree
      <4>6. CASE Outside
        BY <2>2, <4>6 DEF Outside, Tick, vars, tree
      <4> QED BY <4>1, <4>2, <4>3, <4>4, <4>5, <4>6, Sorted, Zenon
    <3> QED BY <3>1 DEF Typed
  <2> QED BY <2>1, <2>2
<1>3. wrote' \in [Seconds -> 0 .. leaf'.number]
  <2>0. leaf.number \in Nat /\ wrote \in [Seconds -> 0 .. leaf.number]
    BY DEF Inv, ClockInv, Typed
  <2>1. CASE NameDirectory
    <3>1. wrote' = wrote /\ leaf'.number = leaf.number + 1
      BY <2>1 DEF NameDirectory
    <3>2. 0 .. leaf.number \subseteq 0 .. (leaf.number + 1)
      BY <2>0
    <3> QED BY <2>0, <3>1, <3>2
  <2>2. CASE LeafReturns
    <3>1. wrote' = [wrote EXCEPT ![leaf.dir] = leaf.number] /\ leaf' = leaf
      BY <2>2 DEF LeafReturns
    <3>2. leaf.number \in 0 .. leaf.number
      BY <2>0
    <3> QED BY <2>0, <3>1, <3>2
  <2>3. CASE UNCHANGED leaves
    BY <2>0, <2>3 DEF leaves
  <2> QED BY <1>0, <2>1, <2>2, <2>3 DEF LeavesAlone
<1>4. DOMAIN manifest' = Required
  <2>1. CASE HandoffGoes
    <3>1. CASE RenderAndHash
      <4>1. manifest' = HashManifest(Rendered)
        BY <3>1, Zenon DEF RenderAndHash
      <4>2. DOMAIN HashManifest(Rendered) = Required
        BY Zenon DEF HashManifest
      <4> QED BY <4>1, <4>2
    <3>2. CASE ~RenderAndHash
      <4>1. manifest' = manifest
        BY <2>1, <3>2 DEF HandoffGoes, CheckPhase11, RefuseHandoff, MissPhase11, CopyPhase11, BuildHandoff,
           WriteHandoffFinal, WriteHandoffRaw, WriteArtifacts, ValidateHandoff, handoff
      <4> QED BY <4>1 DEF Typed
    <3> QED BY <3>1, <3>2
  <2>2. CASE ~HandoffGoes
    BY <1>0, <2>2 DEF LeavesAlone, Typed
  <2> QED BY <2>1, <2>2
<1> QED BY <1>1, <1>2, <1>3, <1>4 DEF Typed

\* The variables stay in their ranges, the clock among them: no smoke is started later than
\* MaxDelay seconds after the one before it, so the directories are those of the model.
THEOREM TypeCorrect == Spec => []TypeOK
<1> DEFINE Ranged == stack # <<>> => second \in Seconds
<1>1. Inv => Ranged
  BY SecondInRange DEF Inv
<1>2. Init => Typed
  <2> SUFFICES ASSUME Init PROVE Typed
    OBVIOUS
  <2>1. Inv /\ stack # <<>>
    <3>1. PICK root \in {"all", "review", "handoff"} : stack = <<root>>
      BY DEF Init
    <3> QED BY <3>1, InitInv
  <2>2. second \in Seconds
    BY <1>1, <2>1
  <2>3. /\ flips = 0 /\ dirty \in BOOLEAN /\ leaf = [number |-> 0, dir |-> OwnDir]
        /\ wrote = [s \in Seconds |-> 0]
    BY Zenon DEF Init
  <2>4. DOMAIN manifest = Required
    BY Zenon DEF Init
  <2> QED BY <2>2, <2>3, <2>4, BoundsAssumption DEF Typed
<1>3. Inv /\ Inv' /\ Typed /\ Ranged' /\ [Next]_vars => Typed'
  BY TypedStep
<1>4. Inv /\ Typed => TypeOK
  <2> SUFFICES ASSUME Inv, Typed PROVE TypeOK
    OBVIOUS
  <2>1. stack \in Seq({"all", "leaf", "review", "handoff"})
    <3>1. {"all", "leaf", "review", "handoff"} = Kinds
      BY DEF Kinds
    <3> QED BY <3>1 DEF Inv, StackInv
  <2>2. lastStart \in 0 .. second /\ Len(results) <= Len(Smokes)
    BY DEF Inv, ClockInv
  <2>3. /\ DOMAIN reviewDir = ReviewFiles /\ DOMAIN handoffDir = HandoffFiles
        /\ ret.exit \in {Nothing, "0", "1", "killed"}
    BY DEF Inv, ReviewInv, HandoffInv, LeafInv
  <2> QED BY <2>1, <2>2, <2>3 DEF TypeOK, Typed
<1> HIDE DEF Ranged
<1> QED BY <1>1, <1>2, <1>3, <1>4, Invariant, PTL DEF Spec

====
