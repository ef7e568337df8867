------------------------- MODULE RuntimeTraceProofs -------------------------
(***************************************************************************)
(* Proofs about RuntimeTrace, for all threads, hooks and write failures:   *)
(* TypeCorrect, IdsUnique, ExceptionsPropagate, ChildrenFollowStarts,      *)
(* TraceNests, BatchEnclosesWorkers, CountsBounded and SummaryIsExact, each *)
(* after the invariant it needs.                                           *)
(***************************************************************************)
EXTENDS RuntimeTrace, SequenceTheorems, FiniteSetTheorems, TLAPS

RecordSet == [at : {"idle", "write", "count", "store"}, id : Nat,
              type : Types, parent : Nat, seen : Nat]

(* The record a thread begins, and the frames wrappers go through, have     *)
(* their types.                                                             *)
LEMMA FrameFacts ==
    /\ NoRecord \in RecordSet
    /\ \A f \in Frame : f.stage \in Recording =>
          /\ <<f.kind, MarkOf(f.stage)>> \in Types
          /\ ParentOf(f) \in Nat
    /\ \A f \in Frame : f.stage \in Recording => AfterRecord(f) \subseteq Frame
    /\ \A f \in Frame : AfterFailure(f) \in Frame
    /\ \A f \in Frame : \A outcome \in Outcomes : AfterBody(f, outcome) \in Frame
<1>1. NoRecord \in RecordSet
  BY DEF NoRecord, RecordSet, Types, Kinds, Marks
<1>2. ASSUME NEW f \in Frame, f.stage \in Recording
      PROVE  <<f.kind, MarkOf(f.stage)>> \in Types /\ ParentOf(f) \in Nat
  BY <1>2 DEF Frame, Recording, MarkOf, ParentOf, Types, Marks
<1>3. ASSUME NEW f \in Frame, f.stage \in Recording
      PROVE  AfterRecord(f) \subseteq Frame
  <2>1. CASE f.stage = "start"
    BY <2>1 DEF Frame, Recording, AfterRecord, Outcomes
  <2>2. CASE f.stage = "request"
    BY <2>2 DEF Frame, Recording, AfterRecord, Outcomes
  <2>3. CASE f.stage = "observed"
    BY <2>3 DEF Frame, Recording, AfterRecord, Outcomes
  <2>4. CASE f.stage = "end"
    BY <2>4 DEF Frame, Recording, AfterRecord, Outcomes
  <2>5. CASE f.stage = "error_end"
    BY <2>5 DEF Frame, Recording, AfterRecord, Outcomes
  <2> QED BY <1>3, <2>1, <2>2, <2>3, <2>4, <2>5 DEF Recording
<1>4. ASSUME NEW f \in Frame PROVE AfterFailure(f) \in Frame
  BY DEF Frame, Recording, AfterFailure, Outcomes
<1>5. ASSUME NEW f \in Frame, NEW outcome \in Outcomes
      PROVE  AfterBody(f, outcome) \in Frame
  BY DEF Frame, Recording, AfterBody, Outcomes
<1> QED BY <1>1, <1>2, <1>3, <1>4, <1>5

(* Only calls of known kinds are made.                                      *)
LEMMA CalleesFacts == \A kind : Callees(kind) \subseteq Kinds
  BY ZenonT(30) DEF Callees, Kinds

(* A thread goes on with well-typed frames: stack, rec and counter keep     *)
(* their types, and a record it begins has the next id.                     *)
LEMMA ContinueFacts ==
  ASSUME TypeOK, NEW t \in Threads, NEW frames \in Seq(Frame), Continue(t, frames)
  PROVE  /\ stack' \in [Threads -> Seq(Frame)]
         /\ rec' \in [Threads -> RecordSet]
         /\ counter' \in Nat
         /\ \A u \in Threads : u # t => rec'[u] = rec[u] /\ stack'[u] = stack[u]
         /\ rec'[t].at # "idle" =>
              stack'[t] # <<>> /\ stack'[t][Len(stack'[t])].stage \in Recording
         /\ \/ counter' = counter /\ rec'[t] = NoRecord
            \/ counter' = counter + 1 /\ rec'[t].at = "write" /\ rec'[t].id = counter + 1
<1> DEFINE top == frames[Len(frames)]
<1>1. stack \in [Threads -> Seq(Frame)] /\ rec \in [Threads -> RecordSet] /\ counter \in Nat
  BY DEF TypeOK, RecordSet
<1>2. stack' \in [Threads -> Seq(Frame)]
  BY <1>1 DEF Continue
<1>5. stack'[t] = frames /\ \A u \in Threads : u # t => stack'[u] = stack[u]
  BY <1>1 DEF Continue
<1>3. CASE frames # <<>> /\ top.stage \in Recording
  <2>1. top \in Frame
    BY <1>3
  <2> DEFINE r == [at |-> "write", id |-> NextId, seen |-> 0,
                   type |-> <<top.kind, MarkOf(top.stage)>>, parent |-> ParentOf(top)]
  <2>2. <<top.kind, MarkOf(top.stage)>> \in Types /\ ParentOf(top) \in Nat
    BY <1>3, <2>1, FrameFacts
  <2>3. r \in RecordSet /\ r.at = "write" /\ r.id = counter + 1
    BY <1>1, <2>2 DEF RecordSet, NextId
  <2>4. rec' = [rec EXCEPT ![t] = r] /\ counter' = counter + 1
    BY <1>3 DEF Continue
  <2> HIDE DEF r
  <2> QED BY <1>1, <1>2, <1>3, <1>5, <2>3, <2>4
<1>4. CASE ~(frames # <<>> /\ top.stage \in Recording)
  <2>1. rec' = [rec EXCEPT ![t] = NoRecord] /\ counter' = counter
    BY <1>4 DEF Continue
  <2>2. NoRecord.at = "idle"
    BY DEF NoRecord
  <2> QED BY <1>1, <1>2, <1>5, <2>1, <2>2, FrameFacts
<1> QED BY <1>3, <1>4

-----------------------------------------------------------------------------
(* A thread in the middle of record() stands in a wrapper that records: this *)
(* is what makes the next stage of the wrapper well defined.                 *)
RecordOpen ==
    \A t \in Threads :
        rec[t].at # "idle" => stack[t] # <<>> /\ Top(t).stage \in Recording

TraceInv == TypeOK /\ RecordOpen

(* What the steps do to the calls and records, seen by RecordOpen.          *)
LEMMA OpenFacts ==
  ASSUME TraceInv, NEW t \in Threads, NEW frames \in Seq(Frame), Continue(t, frames)
  PROVE  RecordOpen'
<1> SUFFICES ASSUME NEW u \in Threads, rec'[u].at # "idle"
             PROVE  stack'[u] # <<>> /\ stack'[u][Len(stack'[u])].stage \in Recording
  BY DEF RecordOpen, Top
<1>1. CASE u = t
  BY <1>1, ContinueFacts DEF TraceInv
<1>2. CASE u # t
  BY <1>2, ContinueFacts DEF TraceInv, RecordOpen, Top
<1> QED BY <1>1, <1>2

(* The topmost call of a thread is a frame, and replacing it leaves frames.  *)
LEMMA TopFacts ==
  ASSUME TypeOK, NEW t \in Threads, stack[t] # <<>>
  PROVE  /\ Top(t) \in Frame
         /\ \A f \in Frame : [stack[t] EXCEPT ![Len(stack[t])] = f] \in Seq(Frame)
<1>1. stack[t] \in Seq(Frame)
  BY DEF TypeOK
<1>2. Len(stack[t]) \in 1 .. Len(stack[t])
  BY <1>1, EmptySeq
<1>3. Top(t) \in Frame
  BY <1>1, <1>2 DEF Top
<1>4. ASSUME NEW f \in Frame
      PROVE  [stack[t] EXCEPT ![Len(stack[t])] = f] \in Seq(Frame)
  BY <1>1, <1>2, ExceptSeq
<1> QED BY <1>3, <1>4

\* Every step keeps the types.
LEMMA TraceInvStep == TraceInv /\ [Next]_vars => TraceInv'
<1> SUFFICES ASSUME TraceInv, [Next]_vars PROVE TraceInv'
  OBVIOUS
<1>0. TypeOK /\ RecordOpen
  BY DEF TraceInv
<1>1. ASSUME NEW t \in Threads, NEW frames \in Seq(Frame), Continue(t, frames),
             process' = process, final_counts' = final_counts, calls' \in Nat,
             file' = file, buffer' \in Seq(LineSet),
             event_counts' \in [Types -> Nat], last_event_id' \in Nat
      PROVE  TraceInv'
  BY <1>0, <1>1, ContinueFacts, OpenFacts DEF TypeOK, TraceInv, RecordSet
<1>2. ASSUME NEW t \in Threads, Call(t) PROVE TraceInv'
  <2>1. PICK kind \in CallableNow(t) : Continue(t, Append(stack[t], NewFrame(kind)))
    BY <1>2 DEF Call
  <2>2. kind \in Kinds
    BY <2>1, CalleesFacts DEF CallableNow, Kinds
  <2>3. NewFrame(kind) \in Frame
    BY <1>0, <2>2 DEF NewFrame, Frame, Recording, NextId, TypeOK
  <2>4. Append(stack[t], NewFrame(kind)) \in Seq(Frame)
    BY <1>0, <2>3 DEF TypeOK
  <2>5. calls' \in Nat /\ UNCHANGED <<process, log, final_counts>>
    BY <1>0, <1>2 DEF Call, TypeOK
  <2> HIDE DEF Call
  <2> QED BY <1>0, <1>1, <2>1, <2>4, <2>5 DEF log, TypeOK
<1>3. ASSUME NEW t \in Threads, BodyEnds(t) PROVE TraceInv'
  <2>1. PICK outcome \in Outcomes : ContinueTop(t, AfterBody(Top(t), outcome))
    BY <1>3 DEF BodyEnds
  <2>2. stack[t] # <<>>
    BY <1>3 DEF BodyEnds, InBody
  <2>3. AfterBody(Top(t), outcome) \in Frame
    BY <1>0, <2>2, TopFacts, FrameFacts
  <2> QED BY <1>0, <1>1, <1>3, <2>1, <2>2, <2>3, TopFacts
          DEF BodyEnds, ContinueTop, log, TypeOK
<1>4. ASSUME NEW t \in Threads, Leave(t) PROVE TraceInv'
  <2> DEFINE rest == SubSeq(stack[t], 1, Len(stack[t]) - 1)
             caller == rest[Len(rest)]
             raised == [rest EXCEPT ![Len(rest)] = AfterBody(caller, "raise")]
  <2>1. stack[t] \in Seq(Frame) /\ stack[t] # <<>>
    BY <1>0, <1>4 DEF TypeOK, Leave
  <2>2. rest \in Seq(Frame)
    BY <2>1, EmptySeq
  <2>3. Continue(t, rest) \/ (rest # <<>> /\ Continue(t, raised))
    BY <1>4 DEF Leave
  <2>4. rest # <<>> => raised \in Seq(Frame)
    <3> SUFFICES ASSUME rest # <<>> PROVE raised \in Seq(Frame)
      OBVIOUS
    <3> HIDE DEF rest
    <3>1. Len(rest) \in 1 .. Len(rest) /\ caller \in Frame
      BY <2>2, EmptySeq
    <3>2. AfterBody(caller, "raise") \in Frame
      BY <3>1, FrameFacts DEF Outcomes
    <3> QED BY <2>2, <3>1, <3>2, ExceptSeq
  <2>5. UNCHANGED <<process, log, final_counts, calls>>
    BY <1>4 DEF Leave
  <2> HIDE DEF rest, raised
  <2> QED BY <1>0, <1>1, <2>2, <2>3, <2>4, <2>5 DEF log, TypeOK
<1>5. ASSUME NEW t \in Threads, rec[t].at # "idle"
      PROVE  /\ stack[t] # <<>> /\ Top(t).stage \in Recording /\ Top(t) \in Frame
             /\ rec[t] \in RecordSet /\ Line(t) \in LineSet
  <2>1. rec[t] \in RecordSet
    BY <1>0 DEF TypeOK, RecordSet
  <2>2. Line(t) \in LineSet
    BY <2>1 DEF Line, LineSet, RecordSet
  <2> QED BY <1>0, <1>5, <2>1, <2>2, TopFacts DEF RecordOpen
<1>6. ASSUME NEW t \in Threads, Write(t) PROVE TraceInv'
  <2>1. rec[t].at # "idle" /\ rec' = [rec EXCEPT ![t].at = "count"]
          /\ UNCHANGED <<process, stack, counter, event_counts, last_event_id,
                         final_counts, calls>>
    BY <1>6 DEF Write
  <2>2. file' \in Seq(LineSet) /\ buffer' \in Seq(LineSet)
    BY <1>0, <1>5, <1>6, <2>1, EmptySeq DEF Write, BufferFirst, TypeOK
  <2>3. rec' \in [Threads -> RecordSet]
    BY <1>0, <2>1 DEF TypeOK, RecordSet
  <2>4. RecordOpen'
    BY <1>0, <2>1 DEF RecordOpen, TypeOK, Top
  <2> QED BY <1>0, <2>1, <2>2, <2>3, <2>4 DEF TraceInv, TypeOK, RecordSet
<1>7. ASSUME NEW t \in Threads, WriteFails(t) PROVE TraceInv'
  <2>1. rec[t].at # "idle" /\ ContinueTop(t, AfterFailure(Top(t)))
          /\ buffer' = Append(buffer, Line(t))
          /\ UNCHANGED <<process, file, event_counts, last_event_id, final_counts, calls>>
    BY <1>7 DEF WriteFails
  <2>2. AfterFailure(Top(t)) \in Frame
    BY <1>5, <2>1, FrameFacts
  <2>3. buffer' \in Seq(LineSet)
    BY <1>0, <1>5, <2>1 DEF TypeOK
  <2> QED BY <1>0, <1>1, <1>5, <2>1, <2>2, <2>3, TopFacts DEF ContinueTop, TypeOK
<1>8. ASSUME NEW t \in Threads, ReadCount(t) PROVE TraceInv'
  <2>1. rec[t].at # "idle"
          /\ rec' = [rec EXCEPT ![t].at = "store", ![t].seen = event_counts[rec[t].type]]
          /\ UNCHANGED <<process, stack, counter, log, final_counts, calls>>
    BY <1>8 DEF ReadCount
  <2>2. rec[t] \in RecordSet /\ event_counts[rec[t].type] \in Nat
    BY <1>0, <1>5, <2>1 DEF RecordSet, TypeOK
  <2>3. rec' \in [Threads -> RecordSet]
    BY <1>0, <2>1, <2>2 DEF TypeOK, RecordSet
  <2>4. RecordOpen'
    BY <1>0, <2>1 DEF RecordOpen, TypeOK, Top
  <2> QED BY <1>0, <2>1, <2>3, <2>4 DEF TraceInv, TypeOK, RecordSet, log
<1>9. ASSUME NEW t \in Threads, StoreCount(t) PROVE TraceInv'
  <2>1. rec[t].at # "idle"
          /\ event_counts' = [event_counts EXCEPT ![rec[t].type] = Counted(rec[t].seen)]
          /\ last_event_id' = rec[t].id
          /\ UNCHANGED <<process, buffer, file, final_counts, calls>>
    BY <1>9 DEF StoreCount, Newest
  <2>2. PICK f \in AfterRecord(Top(t)) : ContinueTop(t, f)
    BY <1>9 DEF StoreCount
  <2>3. f \in Frame /\ rec[t] \in RecordSet /\ stack[t] # <<>>
    BY <1>5, <2>1, <2>2, FrameFacts
  <2>4. event_counts' \in [Types -> Nat] /\ last_event_id' \in Nat
    BY <1>0, <2>1, <2>3 DEF TypeOK, RecordSet, Counted
  <2> QED BY <1>0, <1>1, <2>1, <2>2, <2>3, <2>4, TopFacts DEF ContinueTop, TypeOK
<1>10. CASE Finish \/ Interrupt
  <2>0. file \in Seq(LineSet) /\ buffer \in Seq(LineSet) /\ file \o buffer \in Seq(LineSet)
    BY <1>0, ConcatProperties DEF TypeOK
  <2>1. file' \in Seq(LineSet) /\ buffer' \in Seq(LineSet)
    BY <1>10, <2>0, EmptySeq DEF Finish, Interrupt, WriteFinalState
  <2> QED
    BY <1>0, <1>10, <2>1
       DEF Finish, Interrupt, WriteFinalState, TraceInv, TypeOK, RecordOpen, Top
<1>11. CASE Kill
  <2>1. buffer' \in Seq(LineSet)
    BY <1>11, EmptySeq DEF Kill
  <2> QED BY <1>0, <1>11, <2>1 DEF Kill, TraceInv, TypeOK, RecordOpen, Top
<1>12. CASE UNCHANGED vars
  BY <1>0, <1>12 DEF vars, log, TraceInv, TypeOK, RecordOpen, Top
<1> QED
  BY <1>2, <1>3, <1>4, <1>6, <1>7, <1>8, <1>9, <1>10, <1>11, <1>12
     DEF Next, Step, Over

\* The tracer starts well typed.
LEMMA TraceInvInit == Init => TraceInv
<1> SUFFICES ASSUME Init PROVE TraceInv
  OBVIOUS
<1>1. <<>> \in Seq(Frame) /\ <<>> \in Seq(LineSet)
  BY EmptySeq
<1>2. NoRecord \in RecordSet /\ NoRecord.at = "idle"
  BY FrameFacts DEF NoRecord
<1>3. TypeOK
  BY <1>1, <1>2 DEF Init, TypeOK, RecordSet
<1>4. RecordOpen
  BY <1>2 DEF Init, RecordOpen
<1> QED BY <1>3, <1>4 DEF TraceInv

\* The types hold throughout.
LEMMA TraceInvHolds == Spec => []TraceInv
  BY TraceInvInit, TraceInvStep, PTL DEF Spec

(* The type invariant of the tracer.                                        *)
THEOREM TypeCorrect == Spec => []TypeOK
<1>1. TraceInv => TypeOK
  BY DEF TraceInv
<1> QED BY <1>1, TraceInvHolds, PTL

-----------------------------------------------------------------------------
(* Unique ids: an id belongs to at most one written or buffered line or to   *)
(* the one record still to be written, and was taken from the counter.       *)
IdsOk(lines, records, last) ==
    /\ \A i \in 1 .. Len(lines) : lines[i].id <= last
    /\ \A i, j \in 1 .. Len(lines) : lines[i].id = lines[j].id => i = j
    /\ \A t \in Threads : records[t].at = "write" =>
          /\ records[t].id <= last
          /\ \A i \in 1 .. Len(lines) : lines[i].id # records[t].id
    /\ \A t, u \in Threads :
          records[t].at = "write" /\ records[u].at = "write"
            /\ records[t].id = records[u].id => t = u

IdsInv == IdsOk(file \o buffer, rec, counter)

(* Only thread t's record changes, and if it is one to be written it took the *)
(* next id.                                                                   *)
Advances(r, r2, c, c2, t) ==
    /\ \A u \in Threads : u # t => r2[u] = r[u]
    /\ (c2 = c /\ r2[t].at # "write") \/ (c2 = c + 1 /\ r2[t].id = c + 1)

(* Taking the next id keeps ids unique.                                     *)
LEMMA NextIdIsFresh ==
  ASSUME NEW lines \in Seq(LineSet), NEW r \in [Threads -> RecordSet], NEW c \in Nat,
         NEW r2 \in [Threads -> RecordSet], NEW c2 \in Nat, NEW t \in Threads,
         IdsOk(lines, r, c), Advances(r, r2, c, c2, t)
  PROVE  IdsOk(lines, r2, c2)
<1>0. /\ \A u \in Threads : u # t => r2[u] = r[u]
      /\ (c2 = c /\ r2[t].at # "write") \/ (c2 = c + 1 /\ r2[t].id = c + 1)
  BY DEF Advances
<1>1. c <= c2
  BY <1>0
<1>2. \A i \in 1 .. Len(lines) : lines[i].id \in Nat /\ lines[i].id <= c
  <2>1. \A i \in 1 .. Len(lines) : lines[i] \in LineSet
    OBVIOUS
  <2>2. \A x \in LineSet : x.id \in Nat
    BY DEF LineSet
  <2> QED BY <2>1, <2>2 DEF IdsOk
<1>3. \A u \in Threads : r[u].id \in Nat /\ r2[u].id \in Nat
  BY DEF RecordSet
<1>4. \A i \in 1 .. Len(lines) : lines[i].id <= c2
  BY <1>1, <1>2
<1>5. ASSUME NEW u \in Threads, r2[u].at = "write"
      PROVE  /\ r2[u].id <= c2
             /\ \A i \in 1 .. Len(lines) : lines[i].id # r2[u].id
  <2>1. CASE u = t
    BY <1>0, <1>2, <1>5, <2>1
  <2>2. CASE u # t
    BY <1>0, <1>1, <1>3, <1>5, <2>2 DEF IdsOk
  <2> QED BY <2>1, <2>2
<1>6. ASSUME NEW u \in Threads, NEW v \in Threads, r2[u].at = "write",
             r2[v].at = "write", r2[u].id = r2[v].id
      PROVE  u = v
  <2>1. CASE u # t /\ v # t
    BY <1>0, <1>6, <2>1 DEF IdsOk
  <2>2. CASE u = t /\ v # t
    BY <1>0, <1>3, <1>6, <2>2 DEF IdsOk
  <2>3. CASE u # t /\ v = t
    BY <1>0, <1>3, <1>6, <2>3 DEF IdsOk
  <2> QED BY <2>1, <2>2, <2>3
<1> QED BY <1>4, <1>5, <1>6 DEF IdsOk

(* Writing the line of a record in progress keeps ids unique.               *)
LEMMA WrittenOnce ==
  ASSUME NEW lines \in Seq(LineSet), NEW r \in [Threads -> RecordSet], NEW c \in Nat,
         NEW r2 \in [Threads -> RecordSet], NEW t \in Threads, NEW x \in LineSet,
         IdsOk(lines, r, c), r[t].at = "write", x.id = r[t].id,
         \A u \in Threads : u # t => r2[u] = r[u],
         r2[t].at # "write"
  PROVE  IdsOk(Append(lines, x), r2, c)
<1> DEFINE longer == Append(lines, x)
<1>1. /\ Len(longer) = Len(lines) + 1 /\ Len(lines) \in Nat
      /\ longer[Len(lines) + 1] = x
      /\ \A i \in 1 .. Len(lines) : longer[i] = lines[i]
  BY AppendProperties
<1> HIDE DEF longer
<1>2. \A i \in 1 .. Len(longer) : i \in 1 .. Len(lines) \/ i = Len(lines) + 1
  BY <1>1
<1>3. \A i \in 1 .. Len(longer) : longer[i].id <= c
  BY <1>1, <1>2 DEF IdsOk
<1>4. ASSUME NEW i \in 1 .. Len(longer), NEW j \in 1 .. Len(longer),
             longer[i].id = longer[j].id
      PROVE  i = j
  <2>1. \A k \in 1 .. Len(lines) : longer[k].id # x.id
    BY <1>1 DEF IdsOk
  <2>2. CASE i \in 1 .. Len(lines) /\ j \in 1 .. Len(lines)
    BY <1>1, <1>4, <2>2 DEF IdsOk
  <2>3. CASE i = Len(lines) + 1 /\ j \in 1 .. Len(lines)
    BY <1>1, <1>4, <2>1, <2>3
  <2>4. CASE i \in 1 .. Len(lines) /\ j = Len(lines) + 1
    BY <1>1, <1>4, <2>1, <2>4
  <2> QED BY <1>2, <2>2, <2>3, <2>4
<1>5. ASSUME NEW u \in Threads, r2[u].at = "write"
      PROVE  /\ u # t /\ r2[u] = r[u]
             /\ r2[u].id <= c
             /\ \A i \in 1 .. Len(longer) : longer[i].id # r2[u].id
  <2>1. u # t /\ r2[u] = r[u]
    BY <1>5
  <2>2. r[u].id # x.id
    BY <1>5, <2>1 DEF IdsOk
  <2> QED BY <1>1, <1>2, <1>5, <2>1, <2>2 DEF IdsOk
<1>6. \A u, v \in Threads :
        r2[u].at = "write" /\ r2[v].at = "write" /\ r2[u].id = r2[v].id => u = v
  BY <1>5 DEF IdsOk
<1> QED BY <1>3, <1>4, <1>5, <1>6 DEF IdsOk, longer

(* Losing the buffer keeps ids unique.                                      *)
LEMMA PrefixIdsOk ==
  ASSUME NEW f \in Seq(LineSet), NEW b \in Seq(LineSet), NEW r, NEW c,
         IdsOk(f \o b, r, c)
  PROVE  IdsOk(f, r, c)
<1>1. /\ Len(f) \in Nat /\ Len(f \o b) \in Nat /\ Len(f) <= Len(f \o b)
      /\ \A i \in 1 .. Len(f) : (f \o b)[i] = f[i]
  BY ConcatProperties
<1> DEFINE whole == f \o b
<1> HIDE DEF whole
<1>2. \A i \in 1 .. Len(f) : i \in 1 .. Len(whole) /\ whole[i] = f[i]
  BY <1>1 DEF whole
<1>3. IdsOk(whole, r, c)
  BY DEF whole
<1> QED BY <1>2, <1>3 DEF IdsOk

\* Every step keeps the ids apart.
LEMMA IdsInvStep == TraceInv /\ IdsInv /\ [Next]_vars => IdsInv'
<1> SUFFICES ASSUME TraceInv, IdsInv, [Next]_vars PROVE IdsInv'
  OBVIOUS
<1>0. /\ TypeOK /\ RecordOpen
      /\ file \in Seq(LineSet) /\ buffer \in Seq(LineSet) /\ counter \in Nat
      /\ rec \in [Threads -> RecordSet] /\ stack \in [Threads -> Seq(Frame)]
  BY DEF TraceInv, TypeOK, RecordSet
<1>00. TypeOK' /\ file' \in Seq(LineSet) /\ buffer' \in Seq(LineSet)
          /\ counter' \in Nat /\ rec' \in [Threads -> RecordSet]
          /\ stack' \in [Threads -> Seq(Frame)]
  <2>1. TraceInv'
    BY TraceInvStep
  <2> QED BY <2>1 DEF TraceInv, TypeOK, RecordSet
<1>01. file \o buffer \in Seq(LineSet)
  BY <1>0, ConcatProperties
<1>1. ASSUME NEW t \in Threads, NEW frames, Continue(t, frames),
             UNCHANGED <<file, buffer>>
      PROVE  IdsInv'
  <2>1. frames = stack'[t]
    BY <1>0, <1>1 DEF Continue
  <2>2. frames \in Seq(Frame)
    BY <1>00, <2>1
  <2>3. /\ \A u \in Threads : u # t => rec'[u] = rec[u]
        /\ \/ counter' = counter /\ rec'[t].at # "write"
           \/ counter' = counter + 1 /\ rec'[t].id = counter + 1
    BY <1>0, <1>1, <2>2, ContinueFacts DEF NoRecord
  <2>4. IdsOk(file \o buffer, rec', counter')
    <3>1. Advances(rec, rec', counter, counter', t)
      BY <2>3 DEF Advances
    <3> QED BY <1>0, <1>00, <1>01, <3>1, NextIdIsFresh DEF IdsInv
  <2> QED BY <1>1, <2>4 DEF IdsInv
<1>2. ASSUME NEW t \in Threads, Call(t) PROVE IdsInv'
  BY <1>1, <1>2 DEF Call, log
<1>3. ASSUME NEW t \in Threads, BodyEnds(t) PROVE IdsInv'
  BY <1>1, <1>3 DEF BodyEnds, ContinueTop, log
<1>4. ASSUME NEW t \in Threads, Leave(t) PROVE IdsInv'
  BY <1>1, <1>4 DEF Leave, log
<1>5. ASSUME NEW t \in Threads, StoreCount(t) PROVE IdsInv'
  BY <1>1, <1>5 DEF StoreCount, ContinueTop
<1>6. ASSUME NEW t \in Threads, rec[t].at = "write"
      PROVE  /\ Line(t) \in LineSet /\ Line(t).id = rec[t].id
             /\ Append(file \o buffer, Line(t)) = file \o Append(buffer, Line(t))
  <2>1. Line(t) \in LineSet /\ Line(t).id = rec[t].id
    BY <1>0 DEF Line, LineSet, RecordSet
  <2> DEFINE x == Line(t)
  <2> HIDE DEF x
  <2>2. x \in LineSet
    BY <2>1 DEF x
  <2>3. Append(file \o buffer, x) = file \o Append(buffer, x)
    <3>1. <<x>> \in Seq(LineSet)
      BY <2>2
    <3>2. Append(file \o buffer, x) = (file \o buffer) \o <<x>>
      BY <1>01, <2>2, AppendIsConcat
    <3>3. Append(buffer, x) = buffer \o <<x>>
      BY <1>0, <2>2, AppendIsConcat
    <3> QED BY <1>0, <3>1, <3>2, <3>3, ConcatAssociative
  <2> QED BY <2>1, <2>3 DEF x
<1>7. ASSUME NEW t \in Threads, Write(t) PROVE IdsInv'
  <2>1. /\ rec[t].at = "write" /\ counter' = counter
        /\ rec' = [rec EXCEPT ![t].at = "count"]
        /\ file' = file \o Append(buffer, Line(t)) /\ buffer' = <<>>
    BY <1>7 DEF Write, BufferFirst
  <2>2. rec'[t].at = "count" /\ \A u \in Threads : u # t => rec'[u] = rec[u]
    BY <1>0, <2>1
  <2>3. IdsOk(Append(file \o buffer, Line(t)), rec', counter)
    BY <1>0, <1>00, <1>01, <1>6, <2>1, <2>2, WrittenOnce DEF IdsInv
  <2>4. file' \o buffer' = Append(file \o buffer, Line(t))
    BY <1>00, <1>6, <2>1, ConcatEmptySeq
  <2> QED BY <2>1, <2>3, <2>4 DEF IdsInv
<1>8. ASSUME NEW t \in Threads, WriteFails(t) PROVE IdsInv'
  <2> DEFINE closed == [rec EXCEPT ![t] = NoRecord]
             frames == [stack[t] EXCEPT ![Len(stack[t])] = AfterFailure(Top(t))]
  <2>1. /\ rec[t].at = "write" /\ file' = file /\ buffer' = Append(buffer, Line(t))
        /\ Continue(t, frames)
    BY <1>8 DEF WriteFails, ContinueTop
  <2> HIDE DEF frames
  <2>2. closed \in [Threads -> RecordSet] /\ closed[t].at # "write"
          /\ \A u \in Threads : u # t => closed[u] = rec[u]
    BY <1>0, FrameFacts DEF NoRecord
  <2> HIDE DEF closed
  <2>3. IdsOk(Append(file \o buffer, Line(t)), closed, counter)
    BY <1>0, <1>01, <1>6, <2>1, <2>2, WrittenOnce DEF IdsInv
  <2>4. file' \o buffer' = Append(file \o buffer, Line(t))
    BY <1>6, <2>1
  <2>5. file' \o buffer' \in Seq(LineSet)
    BY <1>00, ConcatProperties
  <2>6. frames \in Seq(Frame)
    <3>1. frames = stack'[t]
      BY <1>0, <2>1 DEF Continue
    <3> QED BY <1>00, <3>1
  <2>7. /\ \A u \in Threads : u # t => rec'[u] = rec[u]
        /\ \/ counter' = counter /\ rec'[t].at # "write"
           \/ counter' = counter + 1 /\ rec'[t].id = counter + 1
    BY <1>0, <2>1, <2>6, ContinueFacts DEF NoRecord
  <2>8. \A u \in Threads : u # t => rec'[u] = closed[u]
    BY <2>2, <2>7
  <2>9. IdsOk(file' \o buffer', rec', counter')
    <3>1. Advances(closed, rec', counter, counter', t)
      BY <2>7, <2>8 DEF Advances
    <3> QED BY <1>0, <1>00, <2>2, <2>3, <2>4, <2>5, <3>1, NextIdIsFresh
  <2> QED BY <2>9 DEF IdsInv
<1>9. ASSUME NEW t \in Threads, ReadCount(t) PROVE IdsInv'
  <2>1. rec'[t].at = "store" /\ \A u \in Threads : u # t => rec'[u] = rec[u]
    BY <1>0, <1>9 DEF ReadCount
  <2>2. UNCHANGED <<counter, file, buffer>>
    BY <1>9 DEF ReadCount, log
  <2>3. IdsOk(file \o buffer, rec', counter)
    <3>1. Advances(rec, rec', counter, counter, t)
      BY <1>0, <2>1 DEF Advances
    <3> QED BY <1>0, <1>00, <1>01, <3>1, NextIdIsFresh DEF IdsInv
  <2> QED BY <2>2, <2>3 DEF IdsInv
<1>10. CASE Finish \/ Interrupt
  <2>1. /\ file' = file \o buffer \/ file' = file
        /\ buffer' = <<>> /\ UNCHANGED <<rec, counter>>
    BY <1>10 DEF Finish, Interrupt, WriteFinalState
  <2>2. file' \o buffer' = file'
    BY <1>00, <2>1, ConcatEmptySeq
  <2>3. IdsOk(file, rec, counter) /\ IdsOk(file \o buffer, rec, counter)
    BY <1>0, PrefixIdsOk DEF IdsInv
  <2> QED BY <2>1, <2>2, <2>3 DEF IdsInv
<1>11. CASE Kill
  <2>1. file' = file /\ buffer' = <<>> /\ UNCHANGED <<rec, counter>>
    BY <1>11 DEF Kill
  <2>2. file' \o buffer' = file
    BY <1>0, <2>1, ConcatEmptySeq
  <2>3. IdsOk(file, rec, counter)
    BY <1>0, PrefixIdsOk DEF IdsInv
  <2> QED BY <2>1, <2>2, <2>3 DEF IdsInv
<1>12. CASE UNCHANGED vars
  BY <1>12 DEF vars, log, IdsInv
<1> QED
  BY <1>2, <1>3, <1>4, <1>5, <1>7, <1>8, <1>9, <1>10, <1>11, <1>12
     DEF Next, Step, Over

\* The ids are apart throughout.
LEMMA IdsInvHolds == Spec => [](TraceInv /\ IdsInv)
<1>1. Init => IdsInv
  <2> SUFFICES ASSUME Init PROVE IdsInv
    OBVIOUS
  <2>1. file \o buffer = <<>>
    BY DEF Init
  <2>2. Len(<<>>) = 0 /\ NoRecord.at = "idle"
    BY DEF NoRecord
  <2> QED BY <2>1, <2>2 DEF Init, IdsInv, IdsOk
<1> QED BY <1>1, IdsInvStep, TraceInvHolds, PTL DEF Spec

(* No two lines of the trace share an id, whatever the threads and the disk  *)
(* do (RuntimeTraceWriter.record).                                           *)
THEOREM IdsUnique == Spec => []UniqueIds
<1>1. TraceInv /\ IdsInv => UniqueIds
  <2> SUFFICES ASSUME TraceInv, IdsInv PROVE UniqueIds
    OBVIOUS
  <2>1. file \in Seq(LineSet) /\ buffer \in Seq(LineSet)
    BY DEF TraceInv, TypeOK
  <2>2. IdsOk(file, rec, counter)
    BY <2>1, PrefixIdsOk DEF IdsInv
  <2>3. DOMAIN file = 1 .. Len(file)
    BY <2>1
  <2> QED BY <2>2, <2>3 DEF IdsOk, UniqueIds
<1> QED BY <1>1, IdsInvHolds, PTL

-----------------------------------------------------------------------------
(* How a step changes the calls of one thread: a call is entered, the        *)
(* topmost one goes on, or it is left.                                       *)
Pushed(old, new, f) ==
    /\ Len(new) = Len(old) + 1 /\ new[Len(old) + 1] = f
    /\ \A n \in 1 .. Len(old) : new[n] = old[n]
Replaced(old, new, f) ==
    /\ Len(old) > 0 /\ Len(new) = Len(old) /\ new[Len(old)] = f
    /\ \A n \in 1 .. Len(old) - 1 : new[n] = old[n]
Popped(old, new) ==
    /\ Len(old) > 0 /\ Len(new) = Len(old) - 1
    /\ \A n \in 1 .. Len(old) - 1 : new[n] = old[n]

(* How a wrapper goes on: after its original, after a failed record and      *)
(* after a good one.                                                         *)
SameCall(f, g) == g.kind = f.kind /\ g.id = f.id
EndsWith(f, g, outcome) ==
    /\ SameCall(f, g) /\ g.original = outcome
    /\ \/ g.kind \notin Hooked /\ g.stage = "leave" /\ g.result = outcome
       \/ g.kind \in Hooked /\ outcome = "raise" /\ g.stage = "error_end"
       \/ g.kind \in Hooked /\ outcome = "ok" /\ g.stage \in {"observed", "end"}
FailsTo(f, g) ==
    /\ SameCall(f, g) /\ g.original = f.original
    /\ \/ /\ g.stage = "error_end"
          /\ f.stage \in {"observed", "end"} \/ (f.kind = "bootstrap" /\ f.stage = "start")
       \/ g.stage = "leave" /\ g.result = "raise"
RecordsTo(f, g) ==
    /\ SameCall(f, g) /\ g.original = f.original
    /\ \/ f.stage = "start" /\ g.stage \in {"body", "request"}
       \/ f.stage = "request" /\ g.stage = "body"
       \/ f.stage = "observed" /\ g.stage = "end"
       \/ f.stage = "end" /\ g.stage = "leave" /\ g.result = "ok"
       \/ f.stage = "error_end" /\ g.stage = "leave" /\ g.result = "raise"

\* What the code of each wrapper does to its frame is one of three kinds of change.
LEMMA WrapperSteps ==
  ASSUME NEW f \in Frame
  PROVE  /\ \A outcome \in Outcomes : EndsWith(f, AfterBody(f, outcome), outcome)
         /\ FailsTo(f, AfterFailure(f))
         /\ f.stage \in Recording => \A g \in AfterRecord(f) : RecordsTo(f, g)
<1>0. /\ f = [kind |-> f.kind, stage |-> f.stage, id |-> f.id,
              original |-> f.original, result |-> f.result]
  BY DEF Frame
<1>1. ASSUME NEW outcome \in Outcomes PROVE EndsWith(f, AfterBody(f, outcome), outcome)
  BY DEF AfterBody, EndsWith, SameCall, Frame, Outcomes
<1>2. FailsTo(f, AfterFailure(f))
  BY DEF AfterFailure, FailsTo, SameCall, Frame
<1>3. ASSUME f.stage \in Recording, NEW g \in AfterRecord(f) PROVE RecordsTo(f, g)
  <2>1. CASE f.stage = "start"
    BY <1>3, <2>1 DEF Frame, AfterRecord, RecordsTo, SameCall
  <2>2. CASE f.stage = "request"
    BY <1>3, <2>2 DEF Frame, AfterRecord, RecordsTo, SameCall
  <2>3. CASE f.stage = "observed"
    BY <1>3, <2>3 DEF Frame, AfterRecord, RecordsTo, SameCall
  <2>4. CASE f.stage = "end"
    BY <1>3, <2>4 DEF Frame, AfterRecord, RecordsTo, SameCall
  <2>5. CASE f.stage = "error_end"
    BY <1>3, <2>5 DEF Frame, AfterRecord, RecordsTo, SameCall
  <2> QED BY <1>3, <2>1, <2>2, <2>3, <2>4, <2>5 DEF Recording
<1> QED BY <1>1, <1>2, <1>3

(* The three changes on sequences.                                           *)
LEMMA SequenceSteps ==
  ASSUME NEW S, NEW old \in Seq(S), NEW f \in S
  PROVE  /\ Pushed(old, Append(old, f), f)
         /\ old # <<>> =>
              /\ Replaced(old, [old EXCEPT ![Len(old)] = f], f)
              /\ Popped(old, SubSeq(old, 1, Len(old) - 1))
              /\ SubSeq(old, 1, Len(old) - 1) \in Seq(S)
<1>1. Pushed(old, Append(old, f), f)
  BY AppendProperties DEF Pushed
<1>2. ASSUME old # <<>>
      PROVE  /\ Len(old) > 0 /\ Len(old) \in Nat /\ Len(old) \in 1 .. Len(old)
             /\ Replaced(old, [old EXCEPT ![Len(old)] = f], f)
  <2>1. Len(old) > 0 /\ Len(old) \in Nat
    BY <1>2, EmptySeq
  <2> DEFINE new == [old EXCEPT ![Len(old)] = f]
  <2>2. Len(old) \in 1 .. Len(old)
    BY <2>1
  <2>3. Len(new) = Len(old)
          /\ \A j \in 1 .. Len(old) : new[j] = IF j = Len(old) THEN f ELSE old[j]
    BY <2>2, ExceptSeq
  <2> HIDE DEF new
  <2>4. Replaced(old, new, f)
    BY <2>1, <2>3 DEF Replaced
  <2> QED BY <2>1, <2>2, <2>4 DEF new
<1>3. ASSUME old # <<>>
      PROVE  /\ Popped(old, SubSeq(old, 1, Len(old) - 1))
             /\ SubSeq(old, 1, Len(old) - 1) \in Seq(S)
  <2> DEFINE new == SubSeq(old, 1, Len(old) - 1)
  <2>1. Len(old) > 0 /\ Len(old) \in Nat
    BY <1>2, <1>3
  <2>2. \A i \in 1 .. Len(old) - 1 : old[i] \in S
    BY <2>1
  <2>3. 1 \in Int /\ Len(old) - 1 \in Int
    BY <2>1
  <2>4. /\ new \in Seq(S)
        /\ Len(new) = IF 1 <= Len(old) - 1 THEN (Len(old) - 1) - 1 + 1 ELSE 0
        /\ \A i \in 1 .. (Len(old) - 1) - 1 + 1 : new[i] = old[1 + i - 1]
    BY <2>2, <2>3, SubSeqProperties
  <2> HIDE DEF new
  <2>5. Len(new) = Len(old) - 1
    <3> DEFINE L == Len(old)
    <3>1. L \in Nat /\ L > 0 /\ Len(new) = IF 1 <= L - 1 THEN (L - 1) - 1 + 1 ELSE 0
      BY <2>1, <2>4
    <3> HIDE DEF L
    <3>2. Len(new) = L - 1
      BY <3>1
    <3> QED BY <3>2 DEF L
  <2>6. ASSUME NEW i \in 1 .. Len(old) - 1 PROVE new[i] = old[i]
    <3>1. i \in 1 .. (Len(old) - 1) - 1 + 1 /\ 1 + i - 1 = i
      BY <2>1
    <3> QED BY <2>4, <3>1
  <2> QED BY <2>1, <2>4, <2>5, <2>6 DEF Popped, new
<1> QED BY <1>1, <1>2, <1>3

(* Thread t goes on: no other thread changes, and t begins a record exactly  *)
(* when its topmost wrapper stands at one.                                   *)
GoesOn(t) ==
    /\ \A u \in Threads : u # t => stack'[u] = stack[u] /\ rec'[u] = rec[u]
    /\ LET top == stack'[t][Len(stack'[t])]
       IN  \/ /\ Len(stack'[t]) > 0 /\ top.stage \in Recording
              /\ counter' = counter + 1
              /\ rec'[t].at = "write" /\ rec'[t].id = counter + 1
              /\ rec'[t].type = <<top.kind, MarkOf(top.stage)>>
              /\ rec'[t].parent = ParentOf(top)
           \/ /\ Len(stack'[t]) = 0 \/ top.stage \notin Recording
              /\ counter' = counter /\ rec'[t].at = "idle"

\* Continuing a thread's stack is a step of that thread alone.
LEMMA ContinueGoesOn ==
  ASSUME TypeOK, NEW t \in Threads, NEW frames \in Seq(Frame), Continue(t, frames)
  PROVE  GoesOn(t) /\ stack'[t] = frames
<1>1. stack'[t] = frames /\ \A u \in Threads : u # t => stack'[u] = stack[u] /\ rec'[u] = rec[u]
  BY ContinueFacts DEF TypeOK, Continue
<1> DEFINE top == frames[Len(frames)]
<1>2. Len(frames) \in Nat /\ (Len(frames) = 0 <=> frames = <<>>)
  BY EmptySeq
<1>3. rec \in [Threads -> RecordSet]
  BY DEF TypeOK, RecordSet
<1>4. CASE frames # <<>> /\ top.stage \in Recording
  <2>1. counter' = counter + 1
          /\ rec' = [rec EXCEPT ![t] =
               [at |-> "write", id |-> NextId, seen |-> 0,
                type |-> <<top.kind, MarkOf(top.stage)>>, parent |-> ParentOf(top)]]
    BY <1>4 DEF Continue
  <2>2. rec'[t] = [at |-> "write", id |-> NextId, seen |-> 0,
                type |-> <<top.kind, MarkOf(top.stage)>>, parent |-> ParentOf(top)]
    BY <1>3, <2>1
  <2> QED BY <1>1, <1>2, <1>4, <2>1, <2>2 DEF GoesOn, NextId
<1>5. CASE ~(frames # <<>> /\ top.stage \in Recording)
  <2>1. rec'[t].at = "idle" /\ counter' = counter
    BY <1>3, <1>5 DEF Continue, NoRecord
  <2> QED BY <1>1, <1>2, <1>5, <2>1 DEF GoesOn
<1> QED BY <1>1, <1>4, <1>5

-----------------------------------------------------------------------------
(* What each action does, call by call.                                      *)
LEMMA CallDoes ==
  ASSUME TraceInv, NEW t \in Threads, Call(t)
  PROVE  /\ GoesOn(t) /\ calls' = calls + 1 /\ UNCHANGED <<process, log, final_counts>>
         /\ rec[t].at = "idle" /\ process = "running" /\ MayStart(t)
         /\ stack[t] = <<>> \/ Top(t).stage = "body"
         /\ \E kind \in CallableNow(t) :
              kind \in Kinds /\ Pushed(stack[t], stack'[t], NewFrame(kind))
<1>0. TypeOK
  BY DEF TraceInv
<1>1. PICK kind \in CallableNow(t) : Continue(t, Append(stack[t], NewFrame(kind)))
  BY DEF Call
<1>2. kind \in Kinds
  BY <1>1, CalleesFacts DEF CallableNow, Kinds
<1>3. NewFrame(kind) \in Frame
  BY <1>0, <1>2 DEF NewFrame, Frame, Recording, NextId, TypeOK
<1>4. stack[t] \in Seq(Frame)
  BY <1>0 DEF TypeOK
<1>5. Append(stack[t], NewFrame(kind)) \in Seq(Frame)
  BY <1>3, <1>4
<1>6. GoesOn(t) /\ stack'[t] = Append(stack[t], NewFrame(kind))
  BY <1>0, <1>1, <1>5, ContinueGoesOn
<1>7. Pushed(stack[t], stack'[t], NewFrame(kind))
  BY <1>3, <1>4, <1>6, SequenceSteps
<1>8. stack[t] = <<>> \/ Top(t).stage = "body"
  BY <1>1 DEF CallableNow, InBody
<1> QED BY <1>1, <1>2, <1>6, <1>7, <1>8 DEF Call, Running

\* What the end of a wrapped function does.
LEMMA BodyEndsDoes ==
  ASSUME TraceInv, NEW t \in Threads, BodyEnds(t)
  PROVE  /\ GoesOn(t) /\ UNCHANGED <<process, log, final_counts, calls>>
         /\ rec[t].at = "idle" /\ process = "running" /\ BodyMayEnd(t)
         /\ Len(stack[t]) > 0 /\ Top(t).stage = "body"
         /\ \E outcome \in Outcomes, g \in Frame :
              EndsWith(Top(t), g, outcome) /\ Replaced(stack[t], stack'[t], g)
<1>0. TypeOK /\ stack[t] \in Seq(Frame) /\ stack[t] # <<>>
  BY DEF TraceInv, TypeOK, BodyEnds, InBody
<1>1. PICK outcome \in Outcomes : ContinueTop(t, AfterBody(Top(t), outcome))
  BY DEF BodyEnds
<1>2. Top(t) \in Frame /\ Len(stack[t]) > 0
  BY <1>0, TopFacts, EmptySeq
<1> DEFINE g == AfterBody(Top(t), outcome)
<1>3. g \in Frame /\ EndsWith(Top(t), g, outcome)
  BY <1>2, FrameFacts, WrapperSteps
<1> HIDE DEF g
<1>4. [stack[t] EXCEPT ![Len(stack[t])] = g] \in Seq(Frame)
  BY <1>0, <1>3, TopFacts
<1>5. GoesOn(t) /\ stack'[t] = [stack[t] EXCEPT ![Len(stack[t])] = g]
  BY <1>0, <1>1, <1>4, ContinueGoesOn DEF ContinueTop, g
<1>6. Replaced(stack[t], stack'[t], g)
  BY <1>0, <1>3, <1>5, SequenceSteps
<1> QED BY <1>2, <1>3, <1>5, <1>6 DEF BodyEnds, Running, InBody

\* What returning or raising through a wrapper does.
LEMMA LeaveDoes ==
  ASSUME TraceInv, NEW t \in Threads, Leave(t)
  PROVE  /\ GoesOn(t) /\ UNCHANGED <<process, log, final_counts, calls>>
         /\ rec[t].at = "idle" /\ process = "running"
         /\ Len(stack[t]) > 0 /\ Top(t).stage = "leave"
         /\ \/ Popped(stack[t], stack'[t])
            \/ \E g \in Frame, rest \in Seq(Frame) :
                 /\ Popped(stack[t], rest) /\ EndsWith(rest[Len(rest)], g, "raise")
                 /\ Replaced(rest, stack'[t], g)
<1> DEFINE rest == SubSeq(stack[t], 1, Len(stack[t]) - 1)
           g == AfterBody(rest[Len(rest)], "raise")
<1>0. TypeOK /\ stack[t] \in Seq(Frame) /\ stack[t] # <<>>
  BY DEF TraceInv, TypeOK, Leave
<1>1. Popped(stack[t], rest) /\ rest \in Seq(Frame) /\ Len(stack[t]) > 0
  <2>1. Top(t) \in Frame
    BY <1>0, TopFacts
  <2>2. Len(stack[t]) > 0
    BY <1>0, EmptySeq
  <2>3. Popped(stack[t], rest) /\ rest \in Seq(Frame)
    BY ONLY <1>0, <2>1, SequenceSteps
  <2> QED BY <2>2, <2>3
<1>2. \/ Continue(t, rest)
      \/ rest # <<>> /\ Continue(t, [rest EXCEPT ![Len(rest)] = g])
  BY DEF Leave
<1>3. UNCHANGED <<process, log, final_counts, calls>> /\ rec[t].at = "idle"
        /\ process = "running" /\ Top(t).stage = "leave"
  BY DEF Leave, Running
<1> HIDE DEF rest
<1>4. CASE Continue(t, rest)
  <2>1. GoesOn(t) /\ stack'[t] = rest
    BY <1>0, <1>1, <1>4, ContinueGoesOn
  <2> QED BY <1>1, <1>3, <2>1
<1>5. CASE rest # <<>> /\ Continue(t, [rest EXCEPT ![Len(rest)] = g])
  <2>1. rest[Len(rest)] \in Frame
    BY <1>1, <1>5, EmptySeq
  <2>2. g \in Frame /\ EndsWith(rest[Len(rest)], g, "raise")
    BY <2>1, FrameFacts, WrapperSteps DEF Outcomes
  <2> HIDE DEF g
  <2>3. Len(rest) \in 1 .. Len(rest)
    BY <1>1, <1>5, EmptySeq
  <2>4. [rest EXCEPT ![Len(rest)] = g] \in Seq(Frame)
    BY <1>1, <2>2, <2>3, ExceptSeq
  <2>5. GoesOn(t) /\ stack'[t] = [rest EXCEPT ![Len(rest)] = g]
    BY <1>0, <1>5, <2>4, ContinueGoesOn
  <2>6. Replaced(rest, stack'[t], g)
    BY <1>1, <1>5, <2>2, <2>5, SequenceSteps
  <2> QED BY <1>1, <1>3, <2>2, <2>5, <2>6
<1> QED BY <1>2, <1>4, <1>5

\* What the last step of record() does.
LEMMA StoreCountDoes ==
  ASSUME TraceInv, NEW t \in Threads, StoreCount(t)
  PROVE  /\ GoesOn(t) /\ UNCHANGED <<process, buffer, file, final_counts, calls>>
         /\ rec[t].at = "store" /\ process = "running"
         /\ Len(stack[t]) > 0 /\ Top(t).stage \in Recording
         /\ event_counts' = [event_counts EXCEPT ![rec[t].type] = rec[t].seen + 1]
         /\ last_event_id' = rec[t].id
         /\ \E g \in Frame :
              RecordsTo(Top(t), g) /\ Replaced(stack[t], stack'[t], g)
<1>0. TypeOK /\ stack[t] \in Seq(Frame) /\ stack[t] # <<>> /\ Top(t).stage \in Recording
  BY DEF TraceInv, TypeOK, StoreCount, RecordOpen
<1>1. PICK g \in AfterRecord(Top(t)) : ContinueTop(t, g)
  BY DEF StoreCount
<1>2. Top(t) \in Frame /\ Len(stack[t]) > 0
  BY <1>0, TopFacts, EmptySeq
<1>3. g \in Frame /\ RecordsTo(Top(t), g)
  BY <1>0, <1>1, <1>2, FrameFacts, WrapperSteps
<1>4. [stack[t] EXCEPT ![Len(stack[t])] = g] \in Seq(Frame)
  BY <1>0, <1>3, TopFacts
<1>5. GoesOn(t) /\ stack'[t] = [stack[t] EXCEPT ![Len(stack[t])] = g]
  BY <1>0, <1>1, <1>4, ContinueGoesOn DEF ContinueTop
<1>6. Replaced(stack[t], stack'[t], g)
  BY <1>0, <1>3, <1>5, SequenceSteps
<1> QED BY <1>0, <1>2, <1>3, <1>5, <1>6 DEF StoreCount, Newest, Counted

\* What a write does: the buffer comes out before the line.
LEMMA WriteDoes ==
  ASSUME TraceInv, NEW t \in Threads, Write(t)
  PROVE  /\ process = "running" /\ rec[t].at = "write" /\ rec'[t].at = "count"
         /\ \A u \in Threads : u # t => rec'[u] = rec[u]
         /\ rec'[t].id = rec[t].id /\ rec'[t].type = rec[t].type
         /\ rec'[t].parent = rec[t].parent /\ rec'[t].seen = rec[t].seen
         /\ UNCHANGED <<process, stack, counter, event_counts, last_event_id,
                        final_counts, calls>>
         /\ file' = file \o Append(buffer, Line(t)) /\ buffer' = <<>>
<1>1. rec \in [Threads -> RecordSet]
  BY DEF TraceInv, TypeOK, RecordSet
<1>2. rec' = [rec EXCEPT ![t].at = "count"]
  BY DEF Write
<1>3. /\ rec'[t] = [rec[t] EXCEPT !.at = "count"]
      /\ \A u \in Threads : u # t => rec'[u] = rec[u]
  BY <1>1, <1>2
<1>4. rec[t] \in RecordSet
  BY <1>1
<1>5. /\ rec'[t].at = "count" /\ rec'[t].id = rec[t].id /\ rec'[t].type = rec[t].type
      /\ rec'[t].parent = rec[t].parent /\ rec'[t].seen = rec[t].seen
  BY <1>3, <1>4 DEF RecordSet
<1> QED BY <1>3, <1>5 DEF Write, BufferFirst

\* What a failing write does: its line stays in the buffer.
LEMMA WriteFailsDoes ==
  ASSUME TraceInv, NEW t \in Threads, WriteFails(t)
  PROVE  /\ GoesOn(t) /\ UNCHANGED <<process, file, event_counts, last_event_id,
                                     final_counts, calls>>
         /\ rec[t].at = "write" /\ process = "running" /\ CanFail
         /\ Len(stack[t]) > 0 /\ Top(t).stage \in Recording
         /\ buffer' = Append(buffer, Line(t))
         /\ \E g \in Frame :
              FailsTo(Top(t), g) /\ Replaced(stack[t], stack'[t], g)
<1>0. TypeOK /\ stack[t] \in Seq(Frame) /\ stack[t] # <<>> /\ Top(t).stage \in Recording
  BY DEF TraceInv, TypeOK, WriteFails, RecordOpen
<1> DEFINE g == AfterFailure(Top(t))
<1>1. Top(t) \in Frame /\ Len(stack[t]) > 0
  BY <1>0, TopFacts, EmptySeq
<1>2. g \in Frame /\ FailsTo(Top(t), g)
  BY <1>1, FrameFacts, WrapperSteps
<1>3. [stack[t] EXCEPT ![Len(stack[t])] = g] \in Seq(Frame)
  BY <1>0, <1>2, TopFacts
<1>4. GoesOn(t) /\ stack'[t] = [stack[t] EXCEPT ![Len(stack[t])] = g]
  BY <1>0, <1>3, ContinueGoesOn DEF ContinueTop, WriteFails
<1> HIDE DEF g
<1>5. Replaced(stack[t], stack'[t], g)
  BY <1>0, <1>2, <1>4, SequenceSteps
<1> QED BY <1>0, <1>1, <1>2, <1>4, <1>5 DEF WriteFails

\* What reading a count does.
LEMMA ReadCountDoes ==
  ASSUME TraceInv, NEW t \in Threads, ReadCount(t)
  PROVE  /\ process = "running" /\ rec[t].at = "count" /\ rec'[t].at = "store"
         /\ \A u \in Threads : u # t => rec'[u] = rec[u]
         /\ rec'[t].id = rec[t].id /\ rec'[t].type = rec[t].type
         /\ rec'[t].parent = rec[t].parent
         /\ rec'[t].seen = event_counts[rec[t].type]
         /\ UNCHANGED <<process, stack, counter, log, final_counts, calls>>
<1>1. rec \in [Threads -> RecordSet] /\ rec[t] \in RecordSet
  BY DEF TraceInv, TypeOK, RecordSet
<1>2. rec' = [rec EXCEPT ![t].at = "store", ![t].seen = event_counts[rec[t].type]]
  BY DEF ReadCount
<1>3. /\ rec'[t] = [rec[t] EXCEPT !.at = "store", !.seen = event_counts[rec[t].type]]
      /\ \A u \in Threads : u # t => rec'[u] = rec[u]
  BY <1>1, <1>2
<1>4. /\ rec'[t].at = "store" /\ rec'[t].id = rec[t].id /\ rec'[t].type = rec[t].type
      /\ rec'[t].parent = rec[t].parent /\ rec'[t].seen = event_counts[rec[t].type]
  BY <1>1, <1>3 DEF RecordSet
<1> QED BY <1>3, <1>4 DEF ReadCount

(* The steps that change no call.                                            *)
Settles == Finish \/ Interrupt \/ Kill \/ UNCHANGED vars
\* Every step is one of a thread, the settling of the process, or none.
LEMMA NextIs ==
  ASSUME [Next]_vars
  PROVE  \/ \E t \in Threads : \/ Call(t) \/ BodyEnds(t) \/ Leave(t) \/ Write(t)
                               \/ WriteFails(t) \/ ReadCount(t) \/ StoreCount(t)
         \/ Settles
  BY DEF Next, Step, Over, Settles

\* What the end of the process leaves alone.
LEMMA SettlesDoes ==
  ASSUME Settles
  PROVE  UNCHANGED <<stack, rec, counter, event_counts, last_event_id, calls>>
  BY DEF Settles, Finish, Interrupt, WriteFinalState, Kill, vars, log

-----------------------------------------------------------------------------
(* A wrapper that saw its original raise is on its way to raise as well, one *)
(* on its way without that has seen it return unless a write failed, an      *)
(* unhooked call has no wrapper, and the bootstrap, being the first call,    *)
(* took the first id.                                                        *)
Honest(f) ==
    /\ f.original = "raise" => f.stage \in {"error_end", "leave"}
    /\ f.original = "raise" /\ f.stage = "leave" => f.result = "raise"
    /\ f.kind \notin Hooked => f.stage \in {"body", "leave"}
    /\ f.kind = "bootstrap" => f.id = 1
    /\ CanFail = FALSE =>
         /\ f.stage = "error_end" => f.original = "raise"
         /\ f.stage \in {"observed", "end"} => f.original = "ok"
         /\ f.stage = "leave" => f.result = f.original

(* run_domain calls run_tasks once, and nothing else does.                   *)
LEMMA BatchCallees ==
  ASSUME NEW kind
  PROVE  /\ "bootstrap" \notin Callees(kind)
         /\ "batch" \in Callees(kind) => kind = "bootstrap"
  BY ZenonT(60) DEF Callees

(* Below the topmost call of a thread every call waits in its body, and a    *)
(* record in progress is the one the topmost wrapper stands at.              *)
CallersWait ==
    \A t \in Threads : \A n \in 1 .. Len(stack[t]) - 1 : stack[t][n].stage = "body"
RecordOfTop ==
    \A t \in Threads : rec[t].at # "idle" =>
        /\ rec[t].type = <<Top(t).kind, MarkOf(Top(t).stage)>>
        /\ rec[t].parent = ParentOf(Top(t))
        /\ Top(t).stage = "start" => rec[t].id = Top(t).id

FramesInv ==
    /\ \A t \in Threads : \A n \in 1 .. Len(stack[t]) : Honest(stack[t][n])
    /\ CallersWait
    /\ RecordOfTop
    /\ calls = 0 => counter = 0 /\ \A t \in Threads : stack[t] = <<>>

\* None of the three kinds of change makes a frame hide or invent an exception.
LEMMA HonestSteps ==
  ASSUME NEW f \in Frame, Honest(f), NEW g \in Frame
  PROVE  /\ \A outcome \in Outcomes : EndsWith(f, g, outcome) => Honest(g)
         /\ CanFail /\ FailsTo(f, g) => Honest(g)
         /\ f.stage \in Recording /\ RecordsTo(f, g) => Honest(g)
<1>1. ASSUME NEW outcome \in Outcomes, EndsWith(f, g, outcome) PROVE Honest(g)
  BY <1>1 DEF EndsWith, Honest, Outcomes, SameCall
<1>2. ASSUME CanFail, FailsTo(f, g) PROVE Honest(g)
  BY <1>2 DEF FailsTo, Honest, SameCall
<1>3. ASSUME f.stage \in Recording, RecordsTo(f, g) PROVE Honest(g)
  BY <1>3 DEF RecordsTo, Honest, SameCall, Recording
<1> QED BY <1>1, <1>2, <1>3

(* A thread that goes on with good frames keeps the invariant.               *)
LEMMA GoesOnFrames ==
  ASSUME TraceInv, FramesInv, NEW t \in Threads, GoesOn(t), TraceInv',
         \A n \in 1 .. Len(stack'[t]) : Honest(stack'[t][n]),
         \A n \in 1 .. Len(stack'[t]) - 1 : stack'[t][n].stage = "body",
         Len(stack'[t]) > 0 /\ stack'[t][Len(stack'[t])].stage = "start" =>
            (rec'[t].at # "idle" => stack'[t][Len(stack'[t])].id = counter + 1),
         calls' # 0
  PROVE  FramesInv'
<1>1. ASSUME NEW u \in Threads, NEW n \in 1 .. Len(stack'[u]) PROVE Honest(stack'[u][n])
  BY DEF GoesOn, FramesInv
<1>2. ASSUME NEW u \in Threads, NEW n \in 1 .. Len(stack'[u]) - 1
      PROVE  stack'[u][n].stage = "body"
  BY DEF GoesOn, FramesInv, CallersWait
<1>3. ASSUME NEW u \in Threads, rec'[u].at # "idle"
      PROVE  /\ rec'[u].type = <<Top(u).kind, MarkOf(Top(u).stage)>>'
             /\ rec'[u].parent = ParentOf(Top(u))'
             /\ Top(u)'.stage = "start" => rec'[u].id = Top(u)'.id
  <2>1. CASE u = t
    BY <1>3, <2>1 DEF GoesOn, Top
  <2>2. CASE u # t
    BY <1>3, <2>2 DEF GoesOn, FramesInv, RecordOfTop, Top
  <2> QED BY <2>1, <2>2
<1>4. (\A u \in Threads : \A n \in 1 .. Len(stack[u]) : Honest(stack[u][n]))'
  BY <1>1 DEF Honest
<1>5. CallersWait'
  BY <1>2 DEF CallersWait
<1>6. RecordOfTop'
  BY <1>3 DEF RecordOfTop
<1> QED BY <1>4, <1>5, <1>6 DEF FramesInv

\* Every step keeps the frames honest.
LEMMA FramesInvStep == TraceInv /\ FramesInv /\ [Next]_vars => FramesInv'
<1> SUFFICES ASSUME TraceInv, FramesInv, [Next]_vars PROVE FramesInv'
  OBVIOUS
<1>0. TraceInv' /\ TypeOK
  BY TraceInvStep DEF TraceInv
<1>1. ASSUME NEW t \in Threads
      PROVE  /\ stack[t] \in Seq(Frame) /\ Len(stack[t]) \in Nat
             /\ \A n \in 1 .. Len(stack[t]) : stack[t][n] \in Frame /\ Honest(stack[t][n])
             /\ \A n \in 1 .. Len(stack[t]) - 1 : stack[t][n].stage = "body"
  <2>1. stack[t] \in Seq(Frame)
    BY <1>0 DEF TypeOK
  <2> QED BY <2>1 DEF FramesInv, CallersWait
<1>01. ASSUME NEW t \in Threads, Len(stack[t]) > 0, calls' = calls PROVE calls' # 0
  <2>1. Len(<<>>) = 0
    OBVIOUS
  <2> QED BY <1>01, <2>1 DEF FramesInv
<1>2. ASSUME NEW t \in Threads, GoesOn(t), NEW f \in Frame, Honest(f), f.stage # "start",
             Replaced(stack[t], stack'[t], f), calls' # 0
      PROVE  FramesInv'
  <2>1. \A n \in 1 .. Len(stack'[t]) : n \in 1 .. Len(stack[t]) - 1 \/ n = Len(stack[t])
    BY <1>1, <1>2 DEF Replaced
  <2>2. \A n \in 1 .. Len(stack'[t]) : Honest(stack'[t][n])
    BY <1>1, <1>2, <2>1 DEF Replaced
  <2>3. \A n \in 1 .. Len(stack'[t]) - 1 : stack'[t][n].stage = "body"
    BY <1>1, <1>2 DEF Replaced
  <2>4. stack'[t][Len(stack'[t])].stage # "start"
    BY <1>1, <1>2 DEF Replaced
  <2> QED BY <1>0, <1>2, <2>2, <2>3, <2>4, GoesOnFrames
<1>3. ASSUME NEW t \in Threads, Call(t) PROVE FramesInv'
  <2>1. GoesOn(t) /\ (stack[t] = <<>> \/ Top(t).stage = "body")
    BY <1>3, CallDoes
  <2>2. PICK kind \in CallableNow(t) : Pushed(stack[t], stack'[t], NewFrame(kind))
    BY <1>3, CallDoes
  <2>0. (kind = "bootstrap" => counter = 0) /\ calls' # 0
    BY <1>0, <1>3, <2>2, CallDoes, BatchCallees DEF CallableNow, FramesInv, TypeOK
  <2>3. /\ Honest(NewFrame(kind))
        /\ NewFrame(kind).stage = "start" => NewFrame(kind).id = counter + 1
    BY <2>0, RuntimeTraceAssumption DEF NewFrame, Honest, NextId
  <2>4. \A n \in 1 .. Len(stack'[t]) : n \in 1 .. Len(stack[t]) \/ n = Len(stack[t]) + 1
    BY <1>1, <2>2 DEF Pushed
  <2>5. \A n \in 1 .. Len(stack'[t]) : Honest(stack'[t][n])
    BY <1>1, <2>2, <2>3, <2>4 DEF Pushed
  <2>6. ASSUME NEW n \in 1 .. Len(stack'[t]) - 1 PROVE stack'[t][n].stage = "body"
    <3>1. n \in 1 .. Len(stack[t]) /\ stack'[t][n] = stack[t][n] /\ stack[t] # <<>>
      BY <1>1, <2>2 DEF Pushed
    <3>2. CASE n = Len(stack[t])
      BY <2>1, <3>1, <3>2 DEF Top
    <3>3. CASE n # Len(stack[t])
      BY <1>1, <3>1, <3>3
    <3> QED BY <3>2, <3>3
  <2>7. stack'[t][Len(stack'[t])] = NewFrame(kind)
    BY <1>1, <2>2 DEF Pushed
  <2> QED BY <1>0, <2>0, <2>1, <2>3, <2>5, <2>6, <2>7, GoesOnFrames
<1>4. ASSUME NEW t \in Threads, BodyEnds(t) PROVE FramesInv'
  <2>1. GoesOn(t) /\ Len(stack[t]) > 0 /\ calls' # 0
    BY <1>4, <1>01, BodyEndsDoes
  <2>2. PICK outcome \in Outcomes, g \in Frame :
          EndsWith(Top(t), g, outcome) /\ Replaced(stack[t], stack'[t], g)
    BY <1>4, BodyEndsDoes
  <2>3. Top(t) \in Frame /\ Honest(Top(t))
    BY <1>1, <2>1 DEF Top
  <2>4. Honest(g) /\ g.stage # "start"
    BY <2>2, <2>3, HonestSteps DEF EndsWith
  <2> QED BY <1>2, <2>1, <2>2, <2>4
<1>5. ASSUME NEW t \in Threads, Leave(t) PROVE FramesInv'
  <2>1. GoesOn(t) /\ Len(stack[t]) > 0 /\ calls' # 0
    BY <1>5, <1>01, LeaveDoes
  <2>2. ASSUME NEW rest, Popped(stack[t], rest)
        PROVE  /\ Len(rest) = Len(stack[t]) - 1 /\ Len(rest) \in Nat
               /\ \A n \in 1 .. Len(rest) : rest[n] \in Frame /\ Honest(rest[n])
                                               /\ rest[n].stage = "body"
    BY <1>1, <2>1, <2>2 DEF Popped
  <2>3. CASE Popped(stack[t], stack'[t])
    <3>1. stack'[t][Len(stack'[t])].stage # "start" \/ Len(stack'[t]) = 0
      BY <2>2, <2>3
    <3>2. /\ \A n \in 1 .. Len(stack'[t]) : Honest(stack'[t][n])
          /\ \A n \in 1 .. Len(stack'[t]) - 1 : stack'[t][n].stage = "body"
      BY <2>2, <2>3
    <3> QED BY <1>0, <2>1, <3>1, <3>2, GoesOnFrames
  <2>4. ASSUME NEW g \in Frame, NEW rest \in Seq(Frame), Popped(stack[t], rest),
               EndsWith(rest[Len(rest)], g, "raise"), Replaced(rest, stack'[t], g)
        PROVE  FramesInv'
    <3>1. Len(rest) > 0 /\ Len(stack'[t]) = Len(rest) /\ stack'[t][Len(rest)] = g
      BY <2>4 DEF Replaced
    <3>2. rest[Len(rest)] \in Frame /\ Honest(rest[Len(rest)])
      BY <2>2, <2>4, <3>1
    <3>3. Honest(g) /\ g.stage # "start"
      BY <2>4, <3>2, HonestSteps DEF EndsWith, Outcomes
    <3>4. \A n \in 1 .. Len(stack'[t]) - 1 : stack'[t][n] = rest[n]
                                              /\ n \in 1 .. Len(rest)
      BY <2>2, <2>4, <3>1 DEF Replaced
    <3>5. \A n \in 1 .. Len(stack'[t]) : n \in 1 .. Len(stack'[t]) - 1 \/ n = Len(rest)
      BY <2>2, <2>4, <3>1
    <3>6. /\ \A n \in 1 .. Len(stack'[t]) : Honest(stack'[t][n])
          /\ \A n \in 1 .. Len(stack'[t]) - 1 : stack'[t][n].stage = "body"
      BY <2>2, <2>4, <3>1, <3>3, <3>4, <3>5
    <3> QED BY <1>0, <2>1, <3>1, <3>3, <3>6, GoesOnFrames
  <2> QED BY <1>5, <2>3, <2>4, LeaveDoes
<1>6. ASSUME NEW t \in Threads, StoreCount(t) PROVE FramesInv'
  <2>1. GoesOn(t) /\ Len(stack[t]) > 0 /\ Top(t).stage \in Recording /\ calls' # 0
    BY <1>6, <1>01, StoreCountDoes
  <2>2. PICK g \in Frame : RecordsTo(Top(t), g) /\ Replaced(stack[t], stack'[t], g)
    BY <1>6, StoreCountDoes
  <2>3. Top(t) \in Frame /\ Honest(Top(t))
    BY <1>1, <2>1 DEF Top
  <2>4. Honest(g) /\ g.stage # "start"
    BY <2>1, <2>2, <2>3, HonestSteps DEF RecordsTo
  <2> QED BY <1>2, <2>1, <2>2, <2>4
<1>7. ASSUME NEW t \in Threads, WriteFails(t) PROVE FramesInv'
  <2>1. GoesOn(t) /\ Len(stack[t]) > 0 /\ CanFail /\ calls' # 0
    BY <1>7, <1>01, WriteFailsDoes
  <2>2. PICK g \in Frame : FailsTo(Top(t), g) /\ Replaced(stack[t], stack'[t], g)
    BY <1>7, WriteFailsDoes
  <2>3. Top(t) \in Frame /\ Honest(Top(t))
    BY <1>1, <2>1 DEF Top
  <2>4. Honest(g) /\ g.stage # "start"
    BY <2>1, <2>2, <2>3, HonestSteps DEF FailsTo
  <2> QED BY <1>2, <2>1, <2>2, <2>4
<1>8. ASSUME NEW t \in Threads, stack' = stack, rec[t].at # "idle",
             rec'[t].type = rec[t].type, rec'[t].parent = rec[t].parent,
             rec'[t].id = rec[t].id, \A u \in Threads : u # t => rec'[u] = rec[u],
             calls' = calls, counter' = counter
      PROVE  FramesInv'
  <2>1. RecordOfTop'
    BY <1>8 DEF FramesInv, RecordOfTop, Top
  <2> QED BY <1>8, <2>1 DEF FramesInv, CallersWait
<1>9. ASSUME NEW t \in Threads, Write(t) PROVE FramesInv'
  BY <1>8, <1>9, WriteDoes
<1>10. ASSUME NEW t \in Threads, ReadCount(t) PROVE FramesInv'
  BY <1>8, <1>10, ReadCountDoes
<1>11. CASE Settles
  BY <1>11, SettlesDoes DEF FramesInv, CallersWait, RecordOfTop, Top
<1> QED BY <1>3, <1>4, <1>5, <1>6, <1>7, <1>9, <1>10, <1>11, NextIs

\* The frames are honest throughout.
LEMMA FramesInvHolds == Spec => [](TraceInv /\ FramesInv)
<1>1. Init => FramesInv
  <2> SUFFICES ASSUME Init PROVE FramesInv
    OBVIOUS
  <2>1. counter = 0 /\ \A t \in Threads : stack[t] = <<>> /\ rec[t].at = "idle"
    BY DEF Init, NoRecord
  <2>2. Len(<<>>) = 0
    OBVIOUS
  <2> QED BY <2>1, <2>2 DEF FramesInv, CallersWait, RecordOfTop
<1> QED BY <1>1, FramesInvStep, TraceInvHolds, PTL DEF Spec

(* A wrapper never hides an exception of the original, whatever threads,     *)
(* hooks and failing writes there are, and if no write fails it hands on what *)
(* the original did (the wrappers' except clauses).                          *)
THEOREM ExceptionsPropagate == Spec => [](RaisesPropagate /\ NothingAdded)
<1>1. TraceInv /\ FramesInv => RaisesPropagate /\ NothingAdded
  <2> SUFFICES ASSUME TraceInv, FramesInv, NEW t \in Threads, stack[t] # <<>>
               PROVE  Honest(Top(t))
    BY RuntimeTraceAssumption DEF RaisesPropagate, NothingAdded, Leaving, Honest
  <2>1. stack[t] \in Seq(Frame)
    BY DEF TraceInv, TypeOK
  <2>2. Len(stack[t]) \in 1 .. Len(stack[t])
    BY <2>1, EmptySeq
  <2> QED BY <2>2 DEF FramesInv, Top
<1> QED BY <1>1, FramesInvHolds, PTL

-----------------------------------------------------------------------------
(* The lines on their way to the file: written, or waiting in the buffer. A  *)
(* record adds one at the end, also when the write fails; the end of the     *)
(* process drops some from the end.                                          *)
Lines == file \o buffer

AddsLine(t) ==
    /\ Len(Lines') = Len(Lines) + 1 /\ Lines'[Len(Lines) + 1] = Line(t)
    /\ \A i \in 1 .. Len(Lines) : Lines'[i] = Lines[i]
DropsLines ==
    /\ Len(Lines') <= Len(Lines)
    /\ \A i \in 1 .. Len(Lines') : Lines'[i] = Lines[i]

\* The lines of the file, followed by those of the buffer.
LEMMA LinesType ==
  ASSUME TraceInv
  PROVE  /\ Lines \in Seq(LineSet) /\ Len(Lines) \in Nat /\ Len(file) \in Nat
         /\ Len(file) <= Len(Lines) /\ DOMAIN file = 1 .. Len(file)
         /\ \A i \in 1 .. Len(Lines) : Lines[i] \in LineSet
         /\ \A i \in 1 .. Len(file) : Lines[i] = file[i] /\ i \in 1 .. Len(Lines)
<1>1. file \in Seq(LineSet) /\ buffer \in Seq(LineSet)
  BY DEF TraceInv, TypeOK
<1>2. /\ Lines \in Seq(LineSet) /\ Len(Lines) = Len(file) + Len(buffer)
      /\ \A i \in 1 .. Len(file) : Lines[i] = file[i]
  BY <1>1, ConcatProperties DEF Lines
<1>3. Len(file) \in Nat /\ Len(buffer) \in Nat /\ DOMAIN file = 1 .. Len(file)
  BY <1>1
<1> HIDE DEF Lines
<1> QED BY <1>2, <1>3

\* The line that a thread is about to write.
LEMMA LineType ==
  ASSUME TraceInv, NEW t \in Threads
  PROVE  /\ Line(t) \in LineSet /\ Line(t).id = rec[t].id /\ Line(t).type = rec[t].type
         /\ Line(t).parent = rec[t].parent /\ Line(t).thread = t
<1>1. rec[t] \in RecordSet
  BY DEF TraceInv, TypeOK, RecordSet
<1> QED BY <1>1 DEF RecordSet, Line, LineSet

\* A write adds a line, a kill drops what was buffered, nothing else touches lines.
LEMMA LinesSteps ==
  ASSUME TraceInv
  PROVE  /\ \A t \in Threads : Write(t) \/ WriteFails(t) => AddsLine(t)
         /\ \A t \in Threads :
              Call(t) \/ BodyEnds(t) \/ Leave(t) \/ ReadCount(t) \/ StoreCount(t) =>
                Lines' = Lines
         /\ Settles => DropsLines /\ (process' # "running" \/ UNCHANGED vars)
<1>0. file \in Seq(LineSet) /\ buffer \in Seq(LineSet) /\ Lines \in Seq(LineSet)
        /\ Len(Lines) \in Nat
  BY LinesType DEF TraceInv, TypeOK
<1>1. ASSUME NEW t \in Threads, Write(t) \/ WriteFails(t) PROVE AddsLine(t)
  <2> DEFINE x == Line(t)
  <2>1. x \in LineSet
    BY LineType
  <2>2. Lines' = file \o Append(buffer, x)
    <3>1. CASE Write(t)
      <4>1. file' = file \o Append(buffer, x) /\ buffer' = <<>>
        BY <3>1 DEF Write, BufferFirst
      <4>2. file \o Append(buffer, x) \in Seq(LineSet)
        BY <1>0, <2>1, ConcatProperties, AppendProperties
      <4> HIDE DEF x
      <4> QED BY <4>1, <4>2, ConcatEmptySeq DEF Lines
    <3>2. CASE WriteFails(t)
      BY <3>2 DEF WriteFails, Lines
    <3> QED BY <1>1, <3>1, <3>2
  <2> HIDE DEF x
  <2>3. file \o Append(buffer, x) = Append(Lines, x)
    <3>1. <<x>> \in Seq(LineSet)
      BY <2>1
    <3>2. Append(Lines, x) = Lines \o <<x>>
      BY <1>0, <2>1, AppendIsConcat
    <3>3. Append(buffer, x) = buffer \o <<x>>
      BY <1>0, <2>1, AppendIsConcat
    <3> QED BY <1>0, <3>1, <3>2, <3>3, ConcatAssociative DEF Lines
  <2>4. Lines' = Append(Lines, x)
    BY <2>2, <2>3
  <2> QED BY <1>0, <2>1, <2>4, AppendProperties DEF AddsLine, x
<1>2. ASSUME NEW t \in Threads,
             Call(t) \/ BodyEnds(t) \/ Leave(t) \/ ReadCount(t) \/ StoreCount(t)
      PROVE  Lines' = Lines
  BY <1>2 DEF Call, BodyEnds, Leave, ReadCount, StoreCount, Lines, log
<1>3. ASSUME Settles PROVE DropsLines /\ (process' # "running" \/ UNCHANGED vars)
  <2>1. Lines' = Lines \/ Lines' = file
    BY <1>0, <1>3, ConcatEmptySeq DEF Settles, Finish, Interrupt, WriteFinalState, Kill, vars, log, Lines
  <2>2. process' # "running" \/ UNCHANGED vars
    BY <1>3 DEF Settles, Finish, Interrupt, WriteFinalState, Kill
  <2>3. DropsLines
    BY <1>0, <2>1, LinesType DEF DropsLines
  <2> QED BY <2>2, <2>3
<1> QED BY <1>1, <1>2, <1>3

-----------------------------------------------------------------------------
(* Every line but a start comes after the start of its call: this holds of   *)
(* the lines on their way, since an open call past its start has one there.  *)
(* The start has the id that the line names as its parent; the bootstrap's   *)
(* end names none, and the bootstrap's start has the first id.               *)
Owner(line) == IF line.type[1] = "bootstrap" THEN 1 ELSE line.parent

StartAt(lines, i, kind, id, t) ==
    lines[i].type = <<kind, "start">> /\ lines[i].id = id /\ lines[i].thread = t
Started(lines, f, t) == \E i \in 1 .. Len(lines) : StartAt(lines, i, f.kind, f.id, t)

Follows(lines) ==
    \A k \in 1 .. Len(lines) : lines[k].type[2] # "start" =>
        \E i \in 1 .. k - 1 :
            StartAt(lines, i, lines[k].type[1], Owner(lines[k]), lines[k].thread)

OpenStarted(f, t) ==
    f.kind \in Hooked /\ f.stage \notin {"start", "leave"} => Started(Lines, f, t)

StartsInv ==
    /\ Follows(Lines)
    /\ process = "running" =>
         \A t \in Threads :
            /\ \A n \in 1 .. Len(stack[t]) : OpenStarted(stack[t][n], t)
            /\ rec[t].at \in {"count", "store"} /\ Top(t).stage = "start" =>
                 Started(Lines, Top(t), t)

\* A start that is among the lines stays there.
LEMMA StartsStay ==
  ASSUME TraceInv, NEW u, AddsLine(u) \/ Lines' = Lines, NEW f, NEW g, NEW t,
         SameCall(f, g), Started(Lines, f, t)
  PROVE  Started(Lines', g, t)
<1>1. PICK i \in 1 .. Len(Lines) : StartAt(Lines, i, f.kind, f.id, t)
  BY DEF Started
<1>2. i \in 1 .. Len(Lines') /\ Lines'[i] = Lines[i]
  BY LinesType DEF AddsLine
<1> QED BY <1>1, <1>2 DEF Started, StartAt, SameCall

(* A thread goes on, no line is added or its own.                            *)
LEMMA GoesOnStarts ==
  ASSUME TraceInv, StartsInv, process = "running", NEW t \in Threads, GoesOn(t),
         AddsLine(t) \/ Lines' = Lines, Follows(Lines'),
         \A n \in 1 .. Len(stack'[t]) : OpenStarted(stack[t][n], t)' 
  PROVE  StartsInv'
<1>1. ASSUME NEW u \in Threads, u # t, NEW n \in 1 .. Len(stack'[u])
      PROVE  OpenStarted(stack[u][n], u)'
  <2>1. stack'[u] = stack[u]
    BY <1>1 DEF GoesOn
  <2>2. OpenStarted(stack[u][n], u)
    BY <1>1, <2>1 DEF StartsInv
  <2>3. SameCall(stack[u][n], stack[u][n])
    BY DEF SameCall
  <2> QED BY <2>1, <2>2, <2>3, StartsStay DEF OpenStarted
<1>2. ASSUME NEW u \in Threads, rec'[u].at \in {"count", "store"}, Top(u)'.stage = "start"
      PROVE  Started(Lines', Top(u)', u)
  <2>1. u # t
    BY <1>2 DEF GoesOn
  <2>2. Started(Lines, Top(u), u) /\ Top(u)' = Top(u) /\ SameCall(Top(u), Top(u))
    BY <1>2, <2>1 DEF GoesOn, StartsInv, Top, SameCall
  <2> QED BY <2>2, StartsStay
<1>3. (\A u \in Threads : \A n \in 1 .. Len(stack[u]) : OpenStarted(stack[u][n], u))'
  BY <1>1
<1>4. (\A u \in Threads : rec[u].at \in {"count", "store"} /\ Top(u).stage = "start" =>
         Started(Lines, Top(u), u))'
  BY <1>2
<1> QED BY <1>3, <1>4 DEF StartsInv

\* Every step keeps the starts before what names them.
LEMMA StartsInvStep ==
  TraceInv /\ FramesInv /\ StartsInv /\ [Next]_vars => StartsInv'
<1> SUFFICES ASSUME TraceInv, FramesInv, StartsInv, [Next]_vars PROVE StartsInv'
  OBVIOUS
<1>0. /\ TraceInv' /\ TypeOK /\ Follows(Lines)
      /\ \A t \in Threads : stack[t] \in Seq(Frame) /\ Len(stack[t]) \in Nat
      /\ \A t \in Threads : \A n \in 1 .. Len(stack[t]) : stack[t][n] \in Frame
  <2>1. \A t \in Threads : stack[t] \in Seq(Frame)
    BY DEF TraceInv, TypeOK
  <2> QED BY <2>1, TraceInvStep DEF TraceInv, StartsInv
<1>1. ASSUME process = "running", NEW t \in Threads, NEW n \in 1 .. Len(stack[t])
      PROVE  OpenStarted(stack[t][n], t)
  BY <1>1 DEF StartsInv
<1>2. ASSUME process = "running", NEW t \in Threads, GoesOn(t),
             AddsLine(t) \/ Lines' = Lines, Follows(Lines'), NEW g \in Frame,
             NEW rest, \A n \in 1 .. Len(rest) - 1 : rest[n] = stack[t][n],
             Len(rest) <= Len(stack[t]), Len(rest) \in Nat, Replaced(rest, stack'[t], g),
             g.stage \notin {"start", "leave"} /\ g.kind \in Hooked => Started(Lines', g, t)
      PROVE  StartsInv'
  <2>1. ASSUME NEW n \in 1 .. Len(stack'[t]) PROVE OpenStarted(stack[t][n], t)'
    <3>1. CASE n = Len(rest)
      BY <1>2, <3>1 DEF Replaced, OpenStarted
    <3>2. CASE n # Len(rest)
      <4>1. n \in 1 .. Len(rest) - 1 /\ n \in 1 .. Len(stack[t])
        BY <1>0, <1>2, <3>2 DEF Replaced
      <4>2. stack'[t][n] = stack[t][n]
        BY <1>2, <4>1 DEF Replaced
      <4>3. SameCall(stack[t][n], stack[t][n]) /\ OpenStarted(stack[t][n], t)
        BY <1>1, <1>2, <4>1 DEF SameCall
      <4> QED BY <1>2, <4>2, <4>3, StartsStay DEF OpenStarted
    <3> QED BY <3>1, <3>2
  <2> QED BY <1>2, <2>1, GoesOnStarts
<1>3. ASSUME NEW t \in Threads, Call(t) PROVE StartsInv'
  <2>1. GoesOn(t) /\ process = "running"
    BY <1>3, CallDoes
  <2>2. PICK kind \in Kinds : Pushed(stack[t], stack'[t], NewFrame(kind))
    BY <1>3, CallDoes
  <2>3. Lines' = Lines
    BY <1>3, LinesSteps
  <2>4. ASSUME NEW n \in 1 .. Len(stack'[t]) PROVE OpenStarted(stack[t][n], t)'
    <3>1. CASE n \in 1 .. Len(stack[t])
      BY <1>1, <2>1, <2>2, <2>3, <3>1 DEF Pushed, OpenStarted
    <3>2. CASE n = Len(stack[t]) + 1
      <4>1. stack'[t][n] = NewFrame(kind)
        BY <2>2, <3>2 DEF Pushed
      <4>2. NewFrame(kind).kind \in Hooked => NewFrame(kind).stage = "start"
        BY DEF NewFrame
      <4> QED BY <4>1, <4>2 DEF OpenStarted
    <3> QED BY <1>0, <2>2, <3>1, <3>2 DEF Pushed
  <2> QED BY <1>0, <2>1, <2>3, <2>4, GoesOnStarts
<1>4. ASSUME NEW t \in Threads, BodyEnds(t) PROVE StartsInv'
  <2>1. GoesOn(t) /\ process = "running" /\ Len(stack[t]) > 0 /\ Top(t).stage = "body"
          /\ Lines' = Lines
    BY <1>4, BodyEndsDoes, LinesSteps
  <2>2. PICK outcome \in Outcomes, g \in Frame :
          EndsWith(Top(t), g, outcome) /\ Replaced(stack[t], stack'[t], g)
    BY <1>4, BodyEndsDoes
  <2>3. OpenStarted(Top(t), t) /\ SameCall(Top(t), g)
    BY <1>0, <1>1, <2>1, <2>2 DEF Top, EndsWith
  <2>4. g.kind \in Hooked => Started(Lines', g, t)
    BY <2>1, <2>3, StartsStay DEF OpenStarted, SameCall
  <2> QED BY <1>0, <1>2, <2>1, <2>2, <2>4
<1>5. ASSUME NEW t \in Threads, Leave(t) PROVE StartsInv'
  <2>1. GoesOn(t) /\ process = "running" /\ Len(stack[t]) > 0 /\ Lines' = Lines
    BY <1>5, LeaveDoes, LinesSteps
  <2>2. CASE Popped(stack[t], stack'[t])
    <3>1. ASSUME NEW n \in 1 .. Len(stack'[t]) PROVE OpenStarted(stack[t][n], t)'
      <4>1. n \in 1 .. Len(stack[t]) /\ stack'[t][n] = stack[t][n]
        BY <1>0, <2>1, <2>2 DEF Popped
      <4> QED BY <1>1, <2>1, <4>1 DEF OpenStarted
    <3> QED BY <1>0, <2>1, <3>1, GoesOnStarts
  <2>3. ASSUME NEW g \in Frame, NEW rest \in Seq(Frame), Popped(stack[t], rest),
               EndsWith(rest[Len(rest)], g, "raise"), Replaced(rest, stack'[t], g)
        PROVE  StartsInv'
    <3>1. Len(rest) \in 1 .. Len(stack[t]) - 1 /\ Len(rest) = Len(stack[t]) - 1
      BY <1>0, <2>3 DEF Popped, Replaced
    <3>2. rest[Len(rest)] = stack[t][Len(rest)] /\ stack[t][Len(rest)].stage = "body"
      BY <2>3, <3>1 DEF Popped, FramesInv, CallersWait
    <3>3. OpenStarted(rest[Len(rest)], t) /\ SameCall(rest[Len(rest)], g)
      BY <1>0, <1>1, <2>1, <2>3, <3>1, <3>2 DEF EndsWith
    <3>4. g.kind \in Hooked => Started(Lines', g, t)
      BY <2>1, <3>2, <3>3, StartsStay DEF OpenStarted, SameCall
    <3>5. \A n \in 1 .. Len(rest) - 1 : rest[n] = stack[t][n]
      BY <1>0, <2>3, <3>1 DEF Popped
    <3> QED BY <1>0, <1>2, <2>1, <2>3, <3>1, <3>4, <3>5
  <2> QED BY <1>5, <2>2, <2>3, LeaveDoes
<1>6. ASSUME NEW t \in Threads, StoreCount(t) PROVE StartsInv'
  <2>1. GoesOn(t) /\ process = "running" /\ rec[t].at = "store" /\ Len(stack[t]) > 0
          /\ Top(t).stage \in Recording /\ Lines' = Lines
    BY <1>6, StoreCountDoes, LinesSteps
  <2>2. PICK g \in Frame : RecordsTo(Top(t), g) /\ Replaced(stack[t], stack'[t], g)
    BY <1>6, StoreCountDoes
  <2>3. OpenStarted(Top(t), t) /\ SameCall(Top(t), g)
    BY <1>0, <1>1, <2>1, <2>2 DEF Top, RecordsTo
  <2>4. Top(t).stage = "start" => Started(Lines, Top(t), t)
    BY <2>1 DEF StartsInv
  <2>5. g.kind \in Hooked => Started(Lines', g, t)
    BY <2>1, <2>3, <2>4, StartsStay DEF OpenStarted, SameCall, Recording
  <2> QED BY <1>0, <1>2, <2>1, <2>2, <2>5
<1>7. ASSUME NEW t \in Threads, rec[t].at = "write", AddsLine(t), process = "running"
      PROVE  /\ Follows(Lines')
             /\ Top(t).stage = "start" => Started(Lines', Top(t), t)
  <2>1. /\ Line(t).type = <<Top(t).kind, MarkOf(Top(t).stage)>> /\ Line(t).thread = t
        /\ Line(t).parent = ParentOf(Top(t))
        /\ Top(t).stage = "start" => Line(t).id = Top(t).id
    BY <1>7, LineType DEF FramesInv, RecordOfTop
  <2>2. /\ Len(stack[t]) \in 1 .. Len(stack[t]) /\ Top(t) \in Frame
        /\ Top(t).stage \in Recording /\ Top(t).kind \in Hooked /\ Honest(Top(t))
    <3>1. stack[t] # <<>> /\ Top(t).stage \in Recording
      BY <1>7 DEF TraceInv, RecordOpen
    <3>2. Len(stack[t]) \in 1 .. Len(stack[t]) /\ Top(t) \in Frame
      BY <1>0, <3>1, EmptySeq, TopFacts
    <3>3. Honest(Top(t))
      BY <3>2 DEF FramesInv, Top
    <3> QED BY <3>1, <3>2, <3>3 DEF Honest, Recording
  <2> DEFINE N == Len(Lines) + 1
  <2>3. Len(Lines) \in Nat /\ Len(Lines') = N /\ Lines'[N] = Line(t)
          /\ \A i \in 1 .. Len(Lines) : Lines'[i] = Lines[i]
    BY <1>7, LinesType DEF AddsLine
  <2>4. Top(t).stage = "start" => Started(Lines', Top(t), t)
    <3> SUFFICES ASSUME Top(t).stage = "start" PROVE Started(Lines', Top(t), t)
      OBVIOUS
    <3>1. N \in 1 .. Len(Lines') /\ StartAt(Lines', N, Top(t).kind, Top(t).id, t)
      BY <2>1, <2>3 DEF StartAt, MarkOf
    <3> QED BY <3>1 DEF Started
  <2>5. ASSUME NEW k \in 1 .. Len(Lines'), Lines'[k].type[2] # "start"
        PROVE  \E i \in 1 .. k - 1 :
                  StartAt(Lines', i, Lines'[k].type[1], Owner(Lines'[k]), Lines'[k].thread)
    <3>1. CASE k \in 1 .. Len(Lines)
      <4>1. PICK i \in 1 .. k - 1 :
              StartAt(Lines, i, Lines[k].type[1], Owner(Lines[k]), Lines[k].thread)
        BY <1>0, <2>3, <2>5, <3>1 DEF Follows
      <4>2. Lines'[i] = Lines[i] /\ Lines'[k] = Lines[k]
        BY <2>3, <3>1
      <4> QED BY <4>1, <4>2 DEF StartAt
    <3>2. CASE k = N
      <4>1. Top(t).stage # "start"
        BY <2>1, <2>3, <2>5, <3>2 DEF MarkOf
      <4>2. OpenStarted(Top(t), t)
        BY <1>1, <1>7, <2>2 DEF Top
      <4>3. Started(Lines, Top(t), t)
        BY <2>2, <4>1, <4>2 DEF OpenStarted, Recording
      <4>4. PICK i \in 1 .. Len(Lines) : StartAt(Lines, i, Top(t).kind, Top(t).id, t)
        BY <4>3 DEF Started
      <4>5. /\ i \in 1 .. k - 1 /\ Lines'[i] = Lines[i]
            /\ Lines'[k].type[1] = Top(t).kind /\ Lines'[k].thread = t
            /\ Owner(Lines'[k]) = Top(t).id
        BY <2>1, <2>2, <2>3, <3>2, <4>1 DEF ParentOf, Owner, Honest
      <4> QED BY <4>4, <4>5 DEF StartAt
    <3> QED BY <2>3, <3>1, <3>2
  <2> QED BY <2>4, <2>5 DEF Follows
<1>8. ASSUME NEW t \in Threads, WriteFails(t) PROVE StartsInv'
  <2>1. GoesOn(t) /\ process = "running" /\ rec[t].at = "write" /\ Len(stack[t]) > 0
          /\ Top(t).stage \in Recording /\ AddsLine(t)
    BY <1>8, WriteFailsDoes, LinesSteps
  <2>2. PICK g \in Frame : FailsTo(Top(t), g) /\ Replaced(stack[t], stack'[t], g)
    BY <1>8, WriteFailsDoes
  <2>3. OpenStarted(Top(t), t) /\ SameCall(Top(t), g)
    BY <1>0, <1>1, <2>1, <2>2 DEF Top, FailsTo
  <2>4. Follows(Lines') /\ (Top(t).stage = "start" => Started(Lines', Top(t), t))
    BY <1>7, <2>1
  <2>5. g.kind \in Hooked /\ g.stage # "leave" => Started(Lines', g, t)
    <3>1. CASE Top(t).stage = "start"
      BY <2>3, <2>4, <3>1 DEF SameCall, Started
    <3>2. CASE Top(t).stage # "start"
      BY <2>1, <2>2, <2>3, <3>2, StartsStay DEF OpenStarted, SameCall, FailsTo
    <3> QED BY <3>1, <3>2
  <2> QED BY <1>0, <1>2, <2>1, <2>2, <2>4, <2>5
<1>9. ASSUME NEW t \in Threads, Write(t) PROVE StartsInv'
  <2>1. process = "running" /\ rec[t].at = "write" /\ AddsLine(t) /\ stack' = stack
          /\ (\A u \in Threads : u # t => rec'[u] = rec[u])
    BY <1>9, WriteDoes, LinesSteps
  <2>2. Follows(Lines') /\ (Top(t).stage = "start" => Started(Lines', Top(t), t))
    BY <1>7, <2>1
  <2>3. ASSUME NEW u \in Threads, NEW n \in 1 .. Len(stack[u])
        PROVE  OpenStarted(stack[u][n], u)'
    BY <1>1, <2>1, StartsStay DEF OpenStarted, SameCall
  <2>4. ASSUME NEW u \in Threads, rec'[u].at \in {"count", "store"},
               Top(u).stage = "start"
        PROVE  Started(Lines', Top(u), u)
    BY <2>1, <2>2, <2>4, StartsStay DEF StartsInv, SameCall
  <2> QED BY <2>1, <2>2, <2>3, <2>4 DEF StartsInv, Top
<1>10. ASSUME NEW t \in Threads, ReadCount(t) PROVE StartsInv'
  <2>1. /\ process = "running" /\ rec[t].at = "count" /\ stack' = stack /\ Lines' = Lines
        /\ \A u \in Threads : u # t => rec'[u] = rec[u]
    BY <1>10, ReadCountDoes, LinesSteps
  <2>2. process' = process
    BY <1>10, ReadCountDoes
  <2> QED BY <2>1, <2>2 DEF StartsInv, OpenStarted, Top
<1>11. CASE Settles
  <2>1. DropsLines /\ (process' # "running" \/ UNCHANGED vars)
    BY <1>11, LinesSteps
  <2>2. CASE UNCHANGED vars
    BY <2>2 DEF vars, log, StartsInv, Lines, OpenStarted, Top
  <2>3. CASE process' # "running"
    <3>1. ASSUME NEW k \in 1 .. Len(Lines'), Lines'[k].type[2] # "start"
          PROVE  \E i \in 1 .. k - 1 :
                    StartAt(Lines', i, Lines'[k].type[1], Owner(Lines'[k]), Lines'[k].thread)
      <4>0. Len(Lines) \in Nat /\ Len(Lines') \in Nat
        BY <1>0, LinesType
      <4>1. k \in 1 .. Len(Lines) /\ Lines'[k] = Lines[k]
        BY <2>1, <4>0 DEF DropsLines
      <4>2. PICK i \in 1 .. k - 1 :
              StartAt(Lines, i, Lines[k].type[1], Owner(Lines[k]), Lines[k].thread)
        BY <1>0, <3>1, <4>1 DEF Follows
      <4>3. Lines'[i] = Lines[i]
        BY <2>1, <4>0, <4>1 DEF DropsLines
      <4> QED BY <4>1, <4>2, <4>3 DEF StartAt
    <3>2. Follows(Lines')
      BY <3>1 DEF Follows
    <3> QED BY <2>3, <3>2 DEF StartsInv
  <2> QED BY <2>1, <2>2, <2>3
<1> QED BY <1>3, <1>4, <1>5, <1>6, <1>8, <1>9, <1>10, <1>11, NextIs

\* The starts come before what names them throughout.
LEMMA StartsInvHolds == Spec => [](TraceInv /\ FramesInv /\ StartsInv)
<1>1. Init => StartsInv
  <2> SUFFICES ASSUME Init PROVE StartsInv
    OBVIOUS
  <2>1. \A t \in Threads : stack[t] = <<>> /\ rec[t].at = "idle"
    BY DEF Init, NoRecord
  <2>2. Lines = <<>>
    BY DEF Init, Lines
  <2>3. Len(<<>>) = 0
    OBVIOUS
  <2> QED BY <2>1, <2>2, <2>3 DEF StartsInv, Follows
<1> QED BY <1>1, StartsInvStep, FramesInvHolds, PTL DEF Spec

(* Every line of the trace but a start follows the start of its own call, in *)
(* the same thread: the parent_event_id that record() stores never dangles,  *)
(* however writes fail.  The bootstrap's end stores none and follows the     *)
(* bootstrap's start.                                                        *)
THEOREM ChildrenFollowStarts == Spec => []ChildAfterStart
<1>1. TraceInv /\ StartsInv => ChildAfterStart
  <2> SUFFICES ASSUME TraceInv, StartsInv, NEW k \in DOMAIN file, ~IsMark(k, "start")
               PROVE  \E i \in 1 .. k - 1 :
                        /\ IsMark(i, "start") /\ BelongsTo(k, i)
                        /\ file[i].type[1] = file[k].type[1]
                        /\ file[i].thread = file[k].thread
    BY DEF ChildAfterStart
  <2>1. k \in 1 .. Len(file) /\ Lines[k] = file[k] /\ k \in 1 .. Len(Lines)
    BY LinesType
  <2>2. PICK i \in 1 .. k - 1 :
          StartAt(Lines, i, Lines[k].type[1], Owner(Lines[k]), Lines[k].thread)
    BY <2>1 DEF StartsInv, Follows, IsMark
  <2>3. Lines[i] = file[i]
    BY <2>1, LinesType
  <2> QED BY <2>1, <2>2, <2>3 DEF StartAt, IsMark, BelongsTo, Owner
<1> QED BY <1>1, StartsInvHolds, PTL

-----------------------------------------------------------------------------
(* The lines of one thread nest, as long as no write fails: a start has its  *)
(* end on the way or its call is still open and will write it; the calls of  *)
(* a thread and its lines have rising ids, so an inner call is a later one.  *)
OpenAt(f, id, at) ==
    /\ f.kind \in Hooked /\ f.id = id /\ f.stage # "leave"
    /\ f.stage \in {"end", "error_end"} => at = "write"
EndedBy(lines, j, k) ==
    \E l \in j + 1 .. k : lines[l].type[2] = "end" /\ Owner(lines[l]) = lines[j].id
StartIn(lines, j, t) == lines[j].type[2] = "start" /\ lines[j].thread = t

RisingIds ==
    /\ \A t \in Threads : \A n \in 1 .. Len(stack[t]) : stack[t][n].kind \in Hooked =>
          /\ stack[t][n].id <= counter
          /\ \A m \in n .. Len(stack[t]) :
               stack[t][m].kind \in Hooked => stack[t][n].id <= stack[t][m].id
    /\ \A a, b \in 1 .. Len(Lines) :
          a < b /\ Lines[a].thread = Lines[b].thread => Lines[a].id < Lines[b].id
    /\ \A t \in Threads : rec[t].at = "write" =>
          \A a \in 1 .. Len(Lines) : Lines[a].thread = t => Lines[a].id < rec[t].id

Accounted ==
    \A t \in Threads : \A j \in 1 .. Len(Lines) : StartIn(Lines, j, t) =>
        \/ EndedBy(Lines, j, Len(Lines))
        \/ \E n \in 1 .. Len(stack[t]) : OpenAt(stack[t][n], Lines[j].id, rec[t].at)

Nested(lines) ==
    \A k \in 1 .. Len(lines) : \A i \in 1 .. k - 1 :
        lines[k].type[2] = "end"
          /\ StartAt(lines, i, lines[i].type[1], Owner(lines[k]), lines[k].thread)
          => \A j \in i + 1 .. k - 1 :
               StartIn(lines, j, lines[k].thread) => EndedBy(lines, j, k - 1)

NestInv == buffer = <<>> /\ RisingIds /\ Accounted /\ Nested(Lines)

(* A thread goes on and adds no line.                                        *)
LEMMA GoesOnNest ==
  ASSUME TraceInv, IdsInv, NestInv, NEW t \in Threads, GoesOn(t), Lines' = Lines,
         buffer' = buffer,
         \A n \in 1 .. Len(stack[t]) : OpenAt(stack[t][n], stack[t][n].id, rec[t].at) =>
            \E m \in 1 .. Len(stack'[t]) : OpenAt(stack'[t][m], stack[t][n].id, rec'[t].at),
         \A n \in 1 .. Len(stack'[t]) : stack'[t][n].kind \in Hooked =>
            /\ stack'[t][n].id <= counter'
            /\ \A m \in n .. Len(stack'[t]) :
                 stack'[t][m].kind \in Hooked => stack'[t][n].id <= stack'[t][m].id
  PROVE  NestInv'
<1>0. /\ counter \in Nat /\ (counter' = counter \/ counter' = counter + 1)
      /\ \A i \in 1 .. Len(Lines) : Lines[i].id \in Nat /\ Lines[i].id <= counter
      /\ \A u \in Threads : \A n \in 1 .. Len(stack[u]) : stack[u][n].id \in Nat
  <2>1. counter \in Nat /\ \A u \in Threads : stack[u] \in Seq(Frame)
    BY DEF TraceInv, TypeOK
  <2>2. \A u \in Threads : \A n \in 1 .. Len(stack[u]) : stack[u][n] \in Frame
    BY <2>1
  <2>3. (\A x \in LineSet : x.id \in Nat) /\ (\A f \in Frame : f.id \in Nat)
    BY DEF LineSet, Frame
  <2>4. \A i \in 1 .. Len(Lines) : Lines[i].id \in Nat /\ Lines[i].id <= counter
    BY <2>3, LinesType DEF IdsInv, IdsOk, Lines
  <2> QED BY <2>1, <2>2, <2>3, <2>4 DEF GoesOn
<1>1. RisingIds'
  <2>1. ASSUME NEW u \in Threads, NEW n \in 1 .. Len(stack'[u]), stack'[u][n].kind \in Hooked
        PROVE  /\ stack'[u][n].id <= counter'
               /\ \A m \in n .. Len(stack'[u]) :
                    stack'[u][m].kind \in Hooked => stack'[u][n].id <= stack'[u][m].id
    <3>1. CASE u = t
      BY <2>1, <3>1
    <3>2. CASE u # t
      BY <1>0, <2>1, <3>2 DEF GoesOn, NestInv, RisingIds
    <3> QED BY <3>1, <3>2
  <2>2. ASSUME NEW u \in Threads, rec'[u].at = "write", NEW a \in 1 .. Len(Lines),
               Lines[a].thread = u
        PROVE  Lines[a].id < rec'[u].id
    <3>1. CASE u = t
      BY <1>0, <2>2, <3>1 DEF GoesOn
    <3>2. CASE u # t
      BY <2>2, <3>2 DEF GoesOn, NestInv, RisingIds
    <3> QED BY <3>1, <3>2
  <2> QED BY <2>1, <2>2 DEF NestInv, RisingIds
<1>2. Accounted'
  <2> SUFFICES ASSUME NEW u \in Threads, NEW j \in 1 .. Len(Lines), StartIn(Lines, j, u),
                      ~EndedBy(Lines, j, Len(Lines))
               PROVE  \E n \in 1 .. Len(stack'[u]) : OpenAt(stack'[u][n], Lines[j].id, rec'[u].at)
    BY DEF Accounted
  <2>1. PICK n \in 1 .. Len(stack[u]) : OpenAt(stack[u][n], Lines[j].id, rec[u].at)
    BY DEF NestInv, Accounted
  <2>2. CASE u = t
    <3>1. stack[u][n].id = Lines[j].id
      BY <2>1 DEF OpenAt
    <3> QED BY <2>1, <2>2, <3>1
  <2>3. CASE u # t
    BY <2>1, <2>3 DEF GoesOn
  <2> QED BY <2>2, <2>3
<1> QED BY <1>1, <1>2 DEF NestInv

\* Without failing writes, every step keeps the nesting.
LEMMA NestInvStep ==
  ASSUME CanFail = FALSE
  PROVE  TraceInv /\ FramesInv /\ IdsInv /\ NestInv /\ [Next]_vars => NestInv'
<1> SUFFICES ASSUME TraceInv, FramesInv, IdsInv, NestInv, [Next]_vars PROVE NestInv'
  OBVIOUS
<1>0. /\ counter \in Nat
      /\ \A t \in Threads : stack[t] \in Seq(Frame) /\ Len(stack[t]) \in Nat
      /\ \A t \in Threads : \A n \in 1 .. Len(stack[t]) :
           stack[t][n] \in Frame /\ stack[t][n].id \in Nat
  <2>1. counter \in Nat /\ \A t \in Threads : stack[t] \in Seq(Frame)
    BY DEF TraceInv, TypeOK
  <2>2. \A f \in Frame : f.id \in Nat
    BY DEF Frame
  <2> QED BY <2>1, <2>2
<1>1. ASSUME NEW t \in Threads
      PROVE  /\ \A n \in 1 .. Len(stack[t]) : stack[t][n].kind \in Hooked =>
                  /\ stack[t][n].id <= counter
                  /\ \A m \in n .. Len(stack[t]) :
                       stack[t][m].kind \in Hooked => stack[t][n].id <= stack[t][m].id
             /\ \A n \in 1 .. Len(stack[t]) - 1 : stack[t][n].stage = "body"
  BY DEF NestInv, RisingIds, FramesInv, CallersWait
\* The topmost of the first calls of a thread goes on; the others above it have left.
<1>2. ASSUME NEW t \in Threads, GoesOn(t), Lines' = Lines, buffer' = buffer,
             NEW g \in Frame, NEW rest,
             Len(rest) \in Nat, Len(rest) > 0, Len(rest) <= Len(stack[t]),
             \A n \in 1 .. Len(rest) : rest[n] = stack[t][n],
             \A n \in 1 .. Len(stack[t]) : n > Len(rest) => stack[t][n].stage = "leave",
             Replaced(rest, stack'[t], g), SameCall(rest[Len(rest)], g),
             OpenAt(rest[Len(rest)], g.id, rec[t].at) => OpenAt(g, g.id, rec'[t].at)
      PROVE  NestInv'
  <2>0. counter' \in Nat /\ counter <= counter'
    BY <1>0, <1>2 DEF GoesOn
  <2>1. ASSUME NEW n \in 1 .. Len(stack[t]), OpenAt(stack[t][n], stack[t][n].id, rec[t].at)
        PROVE  \E m \in 1 .. Len(stack'[t]) : OpenAt(stack'[t][m], stack[t][n].id, rec'[t].at)
    <3>1. n \in 1 .. Len(rest) /\ n \in 1 .. Len(stack'[t])
      BY <1>0, <1>2, <2>1 DEF OpenAt, Replaced
    <3>2. CASE n = Len(rest)
      <4>1. stack[t][n] = rest[Len(rest)] /\ g.id = stack[t][n].id /\ stack'[t][n] = g
        BY <1>2, <3>1, <3>2 DEF SameCall, Replaced
      <4> QED BY <1>2, <2>1, <3>1, <4>1
    <3>3. CASE n # Len(rest)
      <4>1. n \in 1 .. Len(rest) - 1 /\ n \in 1 .. Len(stack[t]) - 1
        BY <1>0, <1>2, <3>1, <3>3
      <4>2. stack'[t][n] = stack[t][n] /\ stack[t][n].stage = "body"
        BY <1>1, <1>2, <4>1 DEF Replaced
      <4> QED BY <2>1, <3>1, <4>2 DEF OpenAt
    <3> QED BY <3>2, <3>3
  <2>2. \A n \in 1 .. Len(stack'[t]) :
           /\ n \in 1 .. Len(stack[t])
           /\ stack'[t][n].id = stack[t][n].id /\ stack'[t][n].kind = stack[t][n].kind
    <3> SUFFICES ASSUME NEW n \in 1 .. Len(stack'[t])
                 PROVE  /\ n \in 1 .. Len(stack[t])
                        /\ stack'[t][n].id = stack[t][n].id
                        /\ stack'[t][n].kind = stack[t][n].kind
      OBVIOUS
    <3>1. n \in 1 .. Len(rest) /\ n \in 1 .. Len(stack[t])
      BY <1>0, <1>2 DEF Replaced
    <3>2. CASE n = Len(rest)
      BY <1>2, <3>1, <3>2 DEF Replaced, SameCall
    <3>3. CASE n # Len(rest)
      <4>1. n \in 1 .. Len(rest) - 1
        BY <1>2, <3>1, <3>3
      <4> QED BY <1>2, <3>1, <4>1 DEF Replaced
    <3> QED BY <3>1, <3>2, <3>3
  <2>3. \A n \in 1 .. Len(stack'[t]) : stack'[t][n].kind \in Hooked =>
            /\ stack'[t][n].id <= counter'
            /\ \A m \in n .. Len(stack'[t]) :
                 stack'[t][m].kind \in Hooked => stack'[t][n].id <= stack'[t][m].id
    <3>1. Len(stack'[t]) \in Nat /\ \A n \in 1 .. Len(stack'[t]) : \A m \in n .. Len(stack'[t]) :
            m \in 1 .. Len(stack'[t]) /\ m \in n .. Len(stack[t])
      BY <1>0, <1>2 DEF Replaced
    <3>2. ASSUME NEW n \in 1 .. Len(stack'[t]), stack'[t][n].kind \in Hooked
          PROVE  stack[t][n].id \in Nat /\ stack[t][n].id <= counter
                   /\ stack'[t][n].id <= counter'
      <4>1. n \in 1 .. Len(stack[t]) /\ stack[t][n].kind \in Hooked
              /\ stack'[t][n].id = stack[t][n].id
        BY <2>2, <3>2
      <4>2. stack[t][n].id \in Nat /\ stack[t][n].id <= counter
        BY <1>0, <1>1, <4>1
      <4> QED BY <1>0, <2>0, <4>1, <4>2
    <3>3. ASSUME NEW n \in 1 .. Len(stack'[t]), stack'[t][n].kind \in Hooked,
                 NEW m \in n .. Len(stack'[t]), stack'[t][m].kind \in Hooked
          PROVE  stack'[t][n].id <= stack'[t][m].id
      BY <1>1, <2>2, <3>1, <3>3
    <3> QED BY <3>2, <3>3
  <2> QED BY <1>2, <2>1, <2>3, GoesOnNest
<1>3. ASSUME NEW t \in Threads, Call(t) PROVE NestInv'
  <2>1. GoesOn(t) /\ rec[t].at = "idle" /\ (stack[t] = <<>> \/ Top(t).stage = "body")
          /\ Lines' = Lines /\ buffer' = buffer
    BY <1>3, CallDoes, LinesSteps DEF log
  <2>2. PICK kind \in Kinds : Pushed(stack[t], stack'[t], NewFrame(kind))
    BY <1>3, CallDoes
  <2>3. NewFrame(kind).kind \in Hooked =>
          NewFrame(kind).id = counter + 1 /\ NewFrame(kind).stage = "start"
    BY DEF NewFrame, NextId
  <2>4. Len(stack'[t]) = Len(stack[t]) + 1 /\ stack'[t][Len(stack'[t])] = NewFrame(kind)
          /\ \A n \in 1 .. Len(stack[t]) : stack'[t][n] = stack[t][n]
    BY <2>2 DEF Pushed
  <2>5. /\ counter' = counter \/ counter' = counter + 1
        /\ NewFrame(kind).kind \in Hooked => counter' = counter + 1
    BY <1>0, <2>1, <2>3, <2>4 DEF GoesOn, Recording
  <2>6. ASSUME NEW n \in 1 .. Len(stack[t]), OpenAt(stack[t][n], stack[t][n].id, rec[t].at)
        PROVE  \E m \in 1 .. Len(stack'[t]) : OpenAt(stack'[t][m], stack[t][n].id, rec'[t].at)
    <3>1. stack[t][n].stage = "body"
      <4>1. CASE n = Len(stack[t])
        BY <1>0, <2>1, <4>1 DEF Top
      <4>2. CASE n # Len(stack[t])
        BY <1>0, <1>1, <4>2
      <4> QED BY <4>1, <4>2
    <3>2. n \in 1 .. Len(stack'[t]) /\ stack'[t][n] = stack[t][n]
      BY <1>0, <2>4
    <3> QED BY <2>6, <3>1, <3>2 DEF OpenAt
  <2> DEFINE N == Len(stack[t]) + 1
  <2>7. ASSUME NEW n \in 1 .. Len(stack'[t]), stack'[t][n].kind \in Hooked
        PROVE  /\ stack'[t][n].id <= counter'
               /\ \A m \in n .. Len(stack'[t]) :
                    stack'[t][m].kind \in Hooked => stack'[t][n].id <= stack'[t][m].id
    <3>1. CASE n = N
      BY <1>0, <2>3, <2>4, <2>5, <2>7, <3>1
    <3>2. CASE n \in 1 .. Len(stack[t])
      <4>1. stack'[t][n] = stack[t][n] /\ stack[t][n].id \in Nat /\ stack[t][n].id <= counter
        BY <1>0, <1>1, <2>4, <2>7, <3>2
      <4>2. ASSUME NEW m \in n .. Len(stack'[t]), stack'[t][m].kind \in Hooked
            PROVE  stack'[t][n].id <= stack'[t][m].id
        <5>1. CASE m = N
          BY <1>0, <2>3, <2>4, <4>1, <4>2, <5>1
        <5>2. CASE m # N
          <6>1. m \in n .. Len(stack[t]) /\ m \in 1 .. Len(stack[t])
            BY <1>0, <2>4, <3>2, <5>2
          <6> QED BY <1>1, <2>4, <2>7, <3>2, <4>1, <4>2, <6>1
        <5> QED BY <5>1, <5>2
      <4> QED BY <1>0, <2>5, <4>1, <4>2
    <3> QED BY <1>0, <2>4, <3>1, <3>2
  <2> QED BY <2>1, <2>6, <2>7, GoesOnNest
<1>4. ASSUME NEW t \in Threads, BodyEnds(t) PROVE NestInv'
  <2>1. GoesOn(t) /\ Len(stack[t]) > 0 /\ Lines' = Lines /\ buffer' = buffer
    BY <1>4, BodyEndsDoes, LinesSteps DEF log
  <2>2. PICK outcome \in Outcomes, g \in Frame :
          EndsWith(Top(t), g, outcome) /\ Replaced(stack[t], stack'[t], g)
    BY <1>4, BodyEndsDoes
  <2>3. g.kind \in Hooked => g.stage # "leave" /\ rec'[t].at = "write"
    BY <2>1, <2>2 DEF EndsWith, Replaced, GoesOn, Recording
  <2>4. OpenAt(Top(t), g.id, rec[t].at) => OpenAt(g, g.id, rec'[t].at)
    BY <2>2, <2>3 DEF OpenAt, EndsWith, SameCall
  <2>5. SameCall(stack[t][Len(stack[t])], g)
          /\ (OpenAt(stack[t][Len(stack[t])], g.id, rec[t].at) => OpenAt(g, g.id, rec'[t].at))
    BY <2>2, <2>4 DEF Top, EndsWith
  <2>6. Len(stack[t]) \in Nat /\ Len(stack[t]) <= Len(stack[t])
          /\ \A n \in 1 .. Len(stack[t]) : n > Len(stack[t]) => stack[t][n].stage = "leave"
    BY <1>0
  <2> QED BY <1>2, <2>1, <2>2, <2>5, <2>6
<1>5. ASSUME NEW t \in Threads, Leave(t) PROVE NestInv'
  <2>1. GoesOn(t) /\ Len(stack[t]) > 0 /\ Lines' = Lines /\ buffer' = buffer
          /\ Top(t).stage = "leave"
    BY <1>5, LeaveDoes, LinesSteps DEF log
  <2>2. CASE Popped(stack[t], stack'[t])
    <3>1. Len(stack'[t]) = Len(stack[t]) - 1
            /\ \A n \in 1 .. Len(stack[t]) - 1 : stack'[t][n] = stack[t][n]
      BY <2>2 DEF Popped
    <3>2. ASSUME NEW n \in 1 .. Len(stack[t]), OpenAt(stack[t][n], stack[t][n].id, rec[t].at)
          PROVE  \E m \in 1 .. Len(stack'[t]) : OpenAt(stack'[t][m], stack[t][n].id, rec'[t].at)
      <4>1. n # Len(stack[t])
        BY <2>1, <3>2 DEF Top, OpenAt
      <4>2. n \in 1 .. Len(stack'[t]) /\ stack'[t][n] = stack[t][n]
              /\ stack[t][n].stage = "body"
        BY <1>0, <1>1, <3>1, <4>1
      <4> QED BY <3>2, <4>2 DEF OpenAt
    <3>3. counter <= counter' /\ counter' \in Nat
      BY <1>0, <2>1 DEF GoesOn
    <3>4. \A n \in 1 .. Len(stack'[t]) : stack'[t][n].kind \in Hooked =>
            /\ stack'[t][n].id <= counter'
            /\ \A m \in n .. Len(stack'[t]) :
                 stack'[t][m].kind \in Hooked => stack'[t][n].id <= stack'[t][m].id
      <4>1. \A n \in 1 .. Len(stack'[t]) : /\ n \in 1 .. Len(stack[t])
                                           /\ stack'[t][n] = stack[t][n]
        BY <1>0, <3>1
      <4>2. \A n \in 1 .. Len(stack'[t]) : \A m \in n .. Len(stack'[t]) :
              m \in n .. Len(stack[t]) /\ m \in 1 .. Len(stack'[t])
        BY <1>0, <3>1
      <4>3. ASSUME NEW n \in 1 .. Len(stack'[t]), stack'[t][n].kind \in Hooked
            PROVE  stack[t][n].id \in Nat /\ stack[t][n].id <= counter
                     /\ stack'[t][n].id <= counter'
        BY <1>0, <1>1, <3>3, <4>1, <4>3
      <4>4. ASSUME NEW n \in 1 .. Len(stack'[t]), stack'[t][n].kind \in Hooked,
                   NEW m \in n .. Len(stack'[t]), stack'[t][m].kind \in Hooked
            PROVE  stack'[t][n].id <= stack'[t][m].id
        BY <1>1, <4>1, <4>2, <4>4
      <4> QED BY <4>3, <4>4
    <3> QED BY <2>1, <3>2, <3>4, GoesOnNest
  <2>3. ASSUME NEW g \in Frame, NEW rest \in Seq(Frame), Popped(stack[t], rest),
               EndsWith(rest[Len(rest)], g, "raise"), Replaced(rest, stack'[t], g)
        PROVE  NestInv'
    <3>1. Len(rest) > 0 /\ Len(rest) = Len(stack[t]) - 1 /\ Len(rest) \in Nat
            /\ \A n \in 1 .. Len(rest) : rest[n] = stack[t][n]
      BY <1>0, <2>3 DEF Popped, Replaced
    <3>2. \A n \in 1 .. Len(stack[t]) : n > Len(rest) => stack[t][n].stage = "leave"
      BY <1>0, <2>1, <3>1 DEF Top
    <3>3. g.kind \in Hooked => g.stage # "leave" /\ rec'[t].at = "write"
      BY <2>1, <2>3 DEF EndsWith, Replaced, GoesOn, Recording
    <3>4. OpenAt(rest[Len(rest)], g.id, rec[t].at) => OpenAt(g, g.id, rec'[t].at)
      BY <2>3, <3>3 DEF OpenAt, EndsWith, SameCall
    <3> QED BY <1>0, <1>2, <2>1, <2>3, <3>1, <3>2, <3>4 DEF EndsWith
  <2> QED BY <1>5, <2>2, <2>3, LeaveDoes
<1>6. ASSUME NEW t \in Threads, StoreCount(t) PROVE NestInv'
  <2>1. GoesOn(t) /\ rec[t].at = "store" /\ Len(stack[t]) > 0 /\ Lines' = Lines
          /\ buffer' = buffer /\ Top(t).stage \in Recording
    BY <1>6, StoreCountDoes, LinesSteps
  <2>2. PICK g \in Frame : RecordsTo(Top(t), g) /\ Replaced(stack[t], stack'[t], g)
    BY <1>6, StoreCountDoes
  <2>3. g.stage \in Recording => rec'[t].at = "write"
    BY <2>1, <2>2 DEF Replaced, GoesOn
  <2>4. OpenAt(Top(t), g.id, rec[t].at) => OpenAt(g, g.id, rec'[t].at)
    BY <2>1, <2>2, <2>3 DEF OpenAt, RecordsTo, SameCall, Recording
  <2>5. SameCall(stack[t][Len(stack[t])], g)
          /\ (OpenAt(stack[t][Len(stack[t])], g.id, rec[t].at) => OpenAt(g, g.id, rec'[t].at))
    BY <2>2, <2>4 DEF Top, RecordsTo
  <2>6. Len(stack[t]) \in Nat /\ Len(stack[t]) <= Len(stack[t])
          /\ \A n \in 1 .. Len(stack[t]) : n > Len(stack[t]) => stack[t][n].stage = "leave"
    BY <1>0
  <2> QED BY <1>2, <2>1, <2>2, <2>5, <2>6
<1>7. ASSUME NEW t \in Threads, WriteFails(t) PROVE NestInv'
  BY <1>7 DEF WriteFails
<1>8. ASSUME NEW t \in Threads, Write(t) PROVE NestInv'
  <2> DEFINE N == Len(Lines) + 1
  <2>1. /\ rec[t].at = "write" /\ rec'[t].at = "count" /\ stack' = stack
        /\ counter' = counter /\ buffer' = <<>>
        /\ \A u \in Threads : u # t => rec'[u] = rec[u]
    BY <1>8, WriteDoes
  <2>2. Len(Lines) \in Nat /\ Len(Lines') = N /\ Lines'[N] = Line(t)
          /\ \A i \in 1 .. Len(Lines) : Lines'[i] = Lines[i]
    BY <1>8, LinesSteps, LinesType DEF AddsLine
  <2>3. /\ Line(t).type = <<Top(t).kind, MarkOf(Top(t).stage)>> /\ Line(t).thread = t
        /\ Line(t).parent = ParentOf(Top(t)) /\ Line(t).id = rec[t].id
        /\ Top(t).stage = "start" => Line(t).id = Top(t).id
    BY <2>1, LineType DEF FramesInv, RecordOfTop
  <2>4. /\ Len(stack[t]) \in 1 .. Len(stack[t]) /\ Top(t) \in Frame
        /\ Top(t).stage \in Recording /\ Top(t).kind \in Hooked /\ Honest(Top(t))
    <3>1. stack[t] # <<>> /\ Top(t).stage \in Recording
      BY <2>1 DEF TraceInv, RecordOpen
    <3>2. Len(stack[t]) \in 1 .. Len(stack[t]) /\ Top(t) \in Frame
      BY <1>0, <3>1, EmptySeq, TopFacts DEF TraceInv
    <3>3. Honest(Top(t))
      BY <3>2 DEF FramesInv, Top
    <3> QED BY <3>1, <3>2, <3>3 DEF Honest, Recording
  <2>5. RisingIds'
    <3>1. ASSUME NEW a \in 1 .. Len(Lines'), NEW b \in 1 .. Len(Lines'), a < b,
                 Lines'[a].thread = Lines'[b].thread
          PROVE  Lines'[a].id < Lines'[b].id
      <4>1. a \in 1 .. Len(Lines) /\ Lines'[a] = Lines[a]
        BY <2>2, <3>1
      <4>2. CASE b = N
        BY <2>1, <2>2, <2>3, <3>1, <4>1, <4>2 DEF NestInv, RisingIds
      <4>3. CASE b # N
        BY <2>2, <3>1, <4>1, <4>3 DEF NestInv, RisingIds
      <4> QED BY <4>2, <4>3
    <3>2. ASSUME NEW u \in Threads, rec'[u].at = "write", NEW a \in 1 .. Len(Lines'),
                 Lines'[a].thread = u
          PROVE  Lines'[a].id < rec'[u].id
      <4>1. u # t /\ a \in 1 .. Len(Lines)
        BY <2>1, <2>2, <2>3, <3>2
      <4> QED BY <2>1, <2>2, <3>2, <4>1 DEF NestInv, RisingIds
    <3>3. \A u \in Threads : \A n \in 1 .. Len(stack'[u]) : stack'[u][n].kind \in Hooked =>
            /\ stack'[u][n].id <= counter'
            /\ \A m \in n .. Len(stack'[u]) :
                 stack'[u][m].kind \in Hooked => stack'[u][n].id <= stack'[u][m].id
      BY <1>1, <2>1
    <3> QED BY <3>1, <3>2, <3>3 DEF RisingIds
  <2>6. ASSUME NEW j \in 1 .. Len(Lines), NEW k, EndedBy(Lines, j, k), k \in 1 .. Len(Lines)
        PROVE  EndedBy(Lines', j, k) /\ EndedBy(Lines', j, Len(Lines'))
    <3>1. PICK l \in j + 1 .. k : Lines[l].type[2] = "end" /\ Owner(Lines[l]) = Lines[j].id
      BY <2>6 DEF EndedBy
    <3>2. l \in 1 .. Len(Lines) /\ l \in j + 1 .. Len(Lines')
      BY <2>2, <2>6, <3>1
    <3> QED BY <2>2, <2>6, <3>1, <3>2 DEF EndedBy
  <2>7. ASSUME NEW u \in Threads, NEW j \in 1 .. Len(Lines'), StartIn(Lines', j, u)
        PROVE  \/ EndedBy(Lines', j, Len(Lines'))
               \/ \E n \in 1 .. Len(stack[u]) : OpenAt(stack[u][n], Lines'[j].id, rec'[u].at)
    <3>1. CASE j = N
      <4>1. Top(t).stage = "start" /\ u = t
        BY <2>2, <2>3, <2>4, <2>7, <3>1 DEF StartIn, MarkOf, Recording
      <4>2. OpenAt(Top(t), Lines'[j].id, rec'[t].at)
        BY <2>2, <2>3, <2>4, <3>1, <4>1 DEF OpenAt
      <4> QED BY <2>4, <4>1, <4>2 DEF Top
    <3>2. CASE j \in 1 .. Len(Lines)
      <4>1. StartIn(Lines, j, u) /\ Lines'[j] = Lines[j]
        BY <2>2, <2>7, <3>2 DEF StartIn
      <4>2. CASE EndedBy(Lines, j, Len(Lines))
        BY <2>2, <2>6, <3>2, <4>2
      <4>3. ASSUME NEW n \in 1 .. Len(stack[u]), OpenAt(stack[u][n], Lines[j].id, rec[u].at)
            PROVE  \/ EndedBy(Lines', j, Len(Lines'))
                   \/ OpenAt(stack[u][n], Lines'[j].id, rec'[u].at)
        <5>1. CASE stack[u][n].stage \notin {"end", "error_end"}
          BY <4>1, <4>3, <5>1 DEF OpenAt
        <5>2. CASE u # t
          BY <2>1, <4>1, <4>3, <5>2
        <5>3. CASE u = t /\ stack[u][n].stage \in {"end", "error_end"}
          <6>1. stack[u][n] = Top(t)
            <7>1. n = Len(stack[t])
              BY <1>0, <1>1, <5>3
            <7> QED BY <5>3, <7>1 DEF Top
          <6>2. Line(t).type[2] = "end" /\ Owner(Line(t)) = Lines[j].id
            BY <2>3, <2>4, <4>3, <5>3, <6>1 DEF MarkOf, ParentOf, OpenAt, Owner, Honest
          <6>3. N \in j + 1 .. Len(Lines')
            BY <2>2, <3>2
          <6> QED BY <2>2, <4>1, <6>2, <6>3 DEF EndedBy
        <5> QED BY <5>1, <5>2, <5>3
      <4>4. EndedBy(Lines, j, Len(Lines))
               \/ \E n \in 1 .. Len(stack[u]) : OpenAt(stack[u][n], Lines[j].id, rec[u].at)
        BY <3>2, <4>1 DEF NestInv, Accounted
      <4> QED BY <4>2, <4>3, <4>4
    <3> QED BY <2>2, <3>1, <3>2
  <2>8. ASSUME NEW k \in 1 .. Len(Lines'), NEW i \in 1 .. k - 1, Lines'[k].type[2] = "end",
               StartAt(Lines', i, Lines'[i].type[1], Owner(Lines'[k]), Lines'[k].thread),
               NEW j \in i + 1 .. k - 1, StartIn(Lines', j, Lines'[k].thread)
        PROVE  EndedBy(Lines', j, k - 1)
    <3>1. /\ i \in 1 .. Len(Lines) /\ j \in 1 .. Len(Lines) /\ k - 1 \in 1 .. Len(Lines)
          /\ Lines'[i] = Lines[i] /\ Lines'[j] = Lines[j]
      BY <2>2, <2>8
    <3>2. CASE k \in 1 .. Len(Lines)
      <4>1. Lines'[k] = Lines[k]
        BY <2>2, <3>2
      <4>2. StartAt(Lines, i, Lines[i].type[1], Owner(Lines[k]), Lines[k].thread)
              /\ StartIn(Lines, j, Lines[k].thread)
        BY <2>8, <3>1, <4>1 DEF StartAt, StartIn
      <4>3. EndedBy(Lines, j, k - 1)
        BY <2>8, <3>2, <4>1, <4>2 DEF NestInv, Nested
      <4> QED BY <2>6, <3>1, <4>3
    <3>3. CASE k = N
      <4>1. /\ Top(t).stage \in {"end", "error_end"} /\ Owner(Lines'[k]) = Top(t).id
            /\ Lines'[k].thread = t /\ k - 1 = Len(Lines)
        BY <2>2, <2>3, <2>4, <2>8, <3>3 DEF MarkOf, ParentOf, Recording, Owner, Honest
      <4>2. Lines[i].id = Top(t).id /\ Lines[i].thread = t /\ Lines[j].thread = t
        BY <2>8, <3>1, <4>1 DEF StartAt, StartIn
      <4>3. Lines[i].id < Lines[j].id
        BY <2>8, <3>1, <4>2 DEF NestInv, RisingIds
      <4>4. ASSUME NEW n \in 1 .. Len(stack[t]), OpenAt(stack[t][n], Lines[j].id, rec[t].at)
            PROVE  FALSE
        <5>1. stack[t][n].kind \in Hooked /\ stack[t][n].id = Lines[j].id
          BY <4>4 DEF OpenAt
        <5>2. Len(stack[t]) \in n .. Len(stack[t])
          BY <2>4
        <5>3. stack[t][n].id <= Top(t).id
          BY <1>1, <2>4, <5>1, <5>2 DEF Top
        <5>4. Top(t).id \in Nat /\ stack[t][n].id \in Nat
          BY <1>0, <2>4 DEF Top
        <5> QED BY <4>2, <4>3, <5>1, <5>3, <5>4
      <4>5. StartIn(Lines, j, t)
        BY <2>8, <3>1, <4>1 DEF StartIn
      <4>6. EndedBy(Lines, j, Len(Lines))
        BY <3>1, <4>4, <4>5 DEF NestInv, Accounted
      <4> QED BY <2>6, <3>1, <4>1, <4>6
    <3> QED BY <2>2, <3>2, <3>3
  <2>9. Nested(Lines')
    BY <2>8 DEF Nested
  <2>10. Accounted'
    BY <2>1, <2>7 DEF Accounted
  <2> QED BY <2>1, <2>5, <2>9, <2>10 DEF NestInv
<1>9. ASSUME NEW t \in Threads, ReadCount(t) PROVE NestInv'
  <2>1. /\ rec[t].at = "count" /\ rec'[t].at = "store" /\ stack' = stack
        /\ counter' = counter /\ Lines' = Lines /\ buffer' = buffer
        /\ \A u \in Threads : u # t => rec'[u] = rec[u]
    BY <1>9, ReadCountDoes, LinesSteps DEF log
  <2>2. Accounted'
    <3> SUFFICES ASSUME NEW u \in Threads, NEW f, NEW id, OpenAt(f, id, rec[u].at)
                 PROVE  OpenAt(f, id, rec'[u].at)
      BY <2>1 DEF NestInv, Accounted
    <3> QED BY <2>1 DEF OpenAt
  <2>3. RisingIds'
    BY <2>1 DEF NestInv, RisingIds
  <2> QED BY <2>1, <2>2, <2>3 DEF NestInv
<1>10. CASE Settles
  <2>1. Lines' = Lines /\ buffer' = <<>>
    <3>1. file \in Seq(LineSet) /\ Lines = file
      <4>1. file \in Seq(LineSet)
        BY DEF TraceInv, TypeOK
      <4> QED BY <4>1, ConcatEmptySeq DEF NestInv, Lines
    <3>2. file' = file
      BY <1>10, <3>1 DEF Settles, Finish, Interrupt, WriteFinalState, Kill, vars, log, Lines
    <3>3. buffer' = <<>>
      BY <1>10 DEF Settles, Finish, Interrupt, WriteFinalState, Kill, vars, log, NestInv
    <3> QED BY <3>1, <3>2, <3>3, ConcatEmptySeq DEF Lines
  <2>2. UNCHANGED <<stack, rec, counter>>
    BY <1>10, SettlesDoes
  <2> QED BY <2>1, <2>2 DEF NestInv, RisingIds, Accounted
<1> QED BY <1>3, <1>4, <1>5, <1>6, <1>7, <1>8, <1>9, <1>10, NextIs

(* An end that has a start for its owner closes it: the bootstrap's, which   *)
(* names no parent, because ids are unique and its start has the first.      *)
LEMMA EndsCloseStarts ==
  ASSUME TraceInv, IdsInv, StartsInv, Lines = file,
         NEW j \in 1 .. Len(Lines), Lines[j].type[2] = "start",
         NEW l \in 1 .. Len(Lines), Lines[l].type[2] = "end", Owner(Lines[l]) = Lines[j].id
  PROVE  Closes(l, j)
<1>1. PICK i \in 1 .. l - 1 :
        StartAt(Lines, i, Lines[l].type[1], Owner(Lines[l]), Lines[l].thread)
  BY DEF StartsInv, Follows
<1>2. i = j
  BY <1>1, LinesType DEF StartAt, IdsInv, IdsOk, Lines
<1> QED BY <1>1, <1>2 DEF StartAt, Closes, BelongsTo, Owner, IsMark

\* The nesting holds throughout.
LEMMA NestInvHolds ==
  ASSUME CanFail = FALSE
  PROVE  Spec => [](TraceInv /\ IdsInv /\ NestInv)
<1>1. Init => NestInv
  <2> SUFFICES ASSUME Init PROVE NestInv
    OBVIOUS
  <2>1. \A t \in Threads : stack[t] = <<>> /\ rec[t].at = "idle"
    BY DEF Init, NoRecord
  <2>2. Lines = <<>> /\ buffer = <<>>
    BY DEF Init, Lines
  <2>3. Len(<<>>) = 0
    OBVIOUS
  <2>4. RisingIds
    BY <2>1, <2>2, <2>3 DEF RisingIds
  <2>5. Accounted /\ Nested(Lines)
    BY <2>2, <2>3 DEF Accounted, Nested
  <2> QED BY <2>2, <2>4, <2>5 DEF NestInv
<1> QED BY <1>1, NestInvStep, IdsInvHolds, FramesInvHolds, PTL DEF Spec

(* The lines of one thread nest like its calls do: every end belongs to an   *)
(* earlier start, and a call that began in between ended before it.  A write *)
(* that fails would break this: the start of a call that was then never made *)
(* stays in the buffer and is written later without an end.                  *)
THEOREM TraceNests ==
  ASSUME CanFail = FALSE
  PROVE  Spec => []Bracketed
<1>1. TraceInv /\ IdsInv /\ StartsInv /\ NestInv => Bracketed
  <2> SUFFICES ASSUME TraceInv, IdsInv, StartsInv, NestInv, NEW k \in DOMAIN file, IsMark(k, "end")
               PROVE  \E i \in 1 .. k - 1 :
                        /\ Closes(k, i)
                        /\ \A j \in i + 1 .. k - 1 :
                             IsMark(j, "start") /\ file[j].thread = file[i].thread =>
                               \E l \in j + 1 .. k - 1 : Closes(l, j)
    BY DEF Bracketed
  <2>1. Lines = file /\ k \in 1 .. Len(Lines)
    <3>1. file \in Seq(LineSet)
      BY DEF TraceInv, TypeOK
    <3> QED BY <3>1, ConcatEmptySeq DEF NestInv, Lines
  <2>2. PICK i \in 1 .. k - 1 :
          StartAt(Lines, i, Lines[k].type[1], Owner(Lines[k]), Lines[k].thread)
    BY <2>1 DEF StartsInv, Follows, IsMark
  <2>3. Closes(k, i) /\ file[i].thread = file[k].thread
          /\ StartAt(Lines, i, Lines[i].type[1], Owner(Lines[k]), Lines[k].thread)
    BY <2>1, <2>2 DEF StartAt, Closes, BelongsTo, Owner, IsMark
  <2>4. ASSUME NEW j \in i + 1 .. k - 1, IsMark(j, "start"), file[j].thread = file[i].thread
        PROVE  \E l \in j + 1 .. k - 1 : Closes(l, j)
    <3>1. EndedBy(Lines, j, k - 1)
      BY <2>1, <2>3, <2>4 DEF NestInv, Nested, StartIn, IsMark
    <3>2. PICK l \in j + 1 .. k - 1 :
            Lines[l].type[2] = "end" /\ Owner(Lines[l]) = Lines[j].id
      BY <3>1 DEF EndedBy
    <3>3. l \in 1 .. Len(Lines) /\ j \in 1 .. Len(Lines)
      BY <2>1, <2>4, <3>2
    <3> QED BY <2>1, <2>4, <3>2, <3>3, EndsCloseStarts DEF IsMark
  <2> QED BY <2>3, <2>4
<1> QED BY <1>1, NestInvHolds, StartsInvHolds, PTL

(* However the process ended, as long as no write failed, a start without an *)
(* end in the file is that of a call which was still open: a kill or Ctrl-C  *)
(* leaves out no other end (the except clauses, and main's finally).         *)
THEOREM OnlyOpenCallsLackEnds ==
  ASSUME CanFail = FALSE
  PROVE  Spec => []OnlyOpenLackEnds
<1>1. TraceInv /\ IdsInv /\ StartsInv /\ NestInv => OnlyOpenLackEnds
  <2> SUFFICES ASSUME TraceInv, IdsInv, StartsInv, NestInv, NEW j \in Starts
               PROVE  HasEnd(j) \/ IsOpen(j)
    BY DEF OnlyOpenLackEnds
  <2>1. file \in Seq(LineSet) /\ Lines = file /\ j \in 1 .. Len(Lines)
          /\ Lines[j].type[2] = "start" /\ Lines[j].thread \in Threads
    <3>1. file \in Seq(LineSet) /\ \A x \in LineSet : x.thread \in Threads
      BY DEF TraceInv, TypeOK, LineSet
    <3>2. Lines = file
      BY <3>1, ConcatEmptySeq DEF NestInv, Lines
    <3> QED BY <3>1, <3>2 DEF Starts, IsMark
  <2> DEFINE t == Lines[j].thread
  <2>2. CASE EndedBy(Lines, j, Len(Lines))
    <3>1. PICK l \in j + 1 .. Len(Lines) :
            Lines[l].type[2] = "end" /\ Owner(Lines[l]) = Lines[j].id
      BY <2>2 DEF EndedBy
    <3>2. l \in 1 .. Len(Lines) /\ l \in DOMAIN file
      BY <2>1, <3>1
    <3>3. Closes(l, j)
      BY <2>1, <3>1, <3>2, EndsCloseStarts
    <3> QED BY <3>2, <3>3 DEF HasEnd
  <2>3. CASE \E n \in 1 .. Len(stack[t]) : OpenAt(stack[t][n], Lines[j].id, rec[t].at)
    <3>1. stack[t] \in Seq(Frame)
      BY <2>1 DEF TraceInv, TypeOK
    <3> QED BY <2>1, <2>3, <3>1 DEF IsOpen, OpenAt
  <2> QED BY <2>1, <2>2, <2>3 DEF NestInv, Accounted, StartIn
<1> QED BY <1>1, NestInvHolds, StartsInvHolds, PTL

-----------------------------------------------------------------------------
(* No wrapper goes back to its start, and one that is past its body stays    *)
(* past it.                                                                  *)
Done == {"end", "error_end", "leave"}
Kept(f, g) ==
    /\ SameCall(f, g)
    /\ g.stage = "start" => f.stage = "start"
    /\ f.stage \in Done => g.stage \in Done

Entered(t, n) ==
    /\ Call(t) /\ n = Len(stack[t]) + 1
    /\ \E kind \in CallableNow(t) : stack'[t][n] = NewFrame(kind)

\* After a step of its thread a call was there before, or is the one just entered.
LEMMA CallsKept ==
  ASSUME TraceInv, FramesInv, NEW t \in Threads, Step(t),
         NEW n \in 1 .. Len(stack'[t])
  PROVE  (n \in 1 .. Len(stack[t]) /\ Kept(stack[t][n], stack'[t][n])) \/ Entered(t, n)
<1>0. /\ stack[t] \in Seq(Frame) /\ Len(stack[t]) \in Nat
      /\ \A m \in 1 .. Len(stack[t]) - 1 : stack[t][m].stage = "body"
      /\ \A m \in 1 .. Len(stack[t]) : Kept(stack[t][m], stack[t][m])
  <2>1. stack[t] \in Seq(Frame)
    BY DEF TraceInv, TypeOK
  <2> QED BY <2>1 DEF FramesInv, CallersWait, Kept, SameCall
\* One of the first calls goes on, those above it have left.
<1>1. ASSUME NEW g, NEW rest, Len(rest) \in Nat, Len(rest) <= Len(stack[t]),
             \A m \in 1 .. Len(rest) : rest[m] = stack[t][m],
             Replaced(rest, stack'[t], g), Kept(rest[Len(rest)], g)
      PROVE  n \in 1 .. Len(stack[t]) /\ Kept(stack[t][n], stack'[t][n])
  <2>1. n \in 1 .. Len(rest) /\ n \in 1 .. Len(stack[t]) /\ rest[n] = stack[t][n]
    BY <1>0, <1>1 DEF Replaced
  <2>2. CASE n = Len(rest)
    BY <1>1, <2>1, <2>2 DEF Replaced
  <2>3. CASE n # Len(rest)
    <3>1. stack'[t][n] = stack[t][n]
      BY <1>1, <2>1, <2>3 DEF Replaced
    <3> QED BY <1>0, <2>1, <3>1
  <2> QED BY <2>1, <2>2, <2>3
<1>2. CASE Call(t)
  <2>1. PICK kind \in CallableNow(t) : Pushed(stack[t], stack'[t], NewFrame(kind))
    BY <1>2, CallDoes
  <2>2. CASE n \in 1 .. Len(stack[t])
    <3>1. stack'[t][n] = stack[t][n]
      BY <2>1, <2>2 DEF Pushed
    <3> QED BY <1>0, <2>2, <3>1
  <2>3. CASE n = Len(stack[t]) + 1
    BY <1>2, <2>1, <2>3 DEF Pushed, Entered
  <2> QED BY <1>0, <2>1, <2>2, <2>3 DEF Pushed
<1>3. CASE BodyEnds(t)
  <2>1. Len(stack[t]) > 0 /\ Top(t).stage = "body"
    BY <1>3, BodyEndsDoes
  <2>2. PICK outcome \in Outcomes, g \in Frame :
          EndsWith(Top(t), g, outcome) /\ Replaced(stack[t], stack'[t], g)
    BY <1>3, BodyEndsDoes
  <2>3. Kept(stack[t][Len(stack[t])], g)
    BY <2>1, <2>2 DEF Kept, EndsWith, Done, Top
  <2>4. Len(stack[t]) <= Len(stack[t])
    BY <1>0
  <2> QED BY <1>0, <1>1, <2>2, <2>3, <2>4
<1>4. CASE Leave(t)
  <2>1. CASE Popped(stack[t], stack'[t])
    <3>1. n \in 1 .. Len(stack[t]) /\ stack'[t][n] = stack[t][n]
      BY <1>0, <2>1 DEF Popped
    <3> QED BY <1>0, <3>1
  <2>2. ASSUME NEW g \in Frame, NEW rest \in Seq(Frame), Popped(stack[t], rest),
               EndsWith(rest[Len(rest)], g, "raise"), Replaced(rest, stack'[t], g)
        PROVE  n \in 1 .. Len(stack[t]) /\ Kept(stack[t][n], stack'[t][n])
    <3>1. Len(rest) > 0 /\ Len(rest) = Len(stack[t]) - 1 /\ Len(rest) \in Nat
            /\ \A m \in 1 .. Len(rest) : rest[m] = stack[t][m]
      BY <1>0, <2>2 DEF Popped, Replaced
    <3>2. rest[Len(rest)].stage = "body"
      BY <1>0, <3>1
    <3>3. Kept(rest[Len(rest)], g)
      BY <2>2, <3>2 DEF Kept, EndsWith, Done
    <3>4. Len(rest) <= Len(stack[t])
      BY <1>0, <3>1
    <3> QED BY <1>1, <2>2, <3>1, <3>3, <3>4
  <2> QED BY <1>4, <2>1, <2>2, LeaveDoes
<1>5. CASE StoreCount(t)
  <2>1. Len(stack[t]) > 0 /\ Top(t).stage \in Recording
    BY <1>5, StoreCountDoes
  <2>2. PICK g \in Frame : RecordsTo(Top(t), g) /\ Replaced(stack[t], stack'[t], g)
    BY <1>5, StoreCountDoes
  <2>3. Kept(stack[t][Len(stack[t])], g)
    BY <2>1, <2>2 DEF Kept, RecordsTo, Done, Top, Recording
  <2>4. Len(stack[t]) <= Len(stack[t])
    BY <1>0
  <2> QED BY <1>0, <1>1, <2>2, <2>3, <2>4
<1>6. CASE WriteFails(t)
  <2>1. PICK g \in Frame : FailsTo(Top(t), g) /\ Replaced(stack[t], stack'[t], g)
    BY <1>6, WriteFailsDoes
  <2>2. Kept(stack[t][Len(stack[t])], g)
    BY <2>1 DEF Kept, FailsTo, Done, Top
  <2>3. Len(stack[t]) <= Len(stack[t])
    BY <1>0
  <2> QED BY <1>0, <1>1, <2>1, <2>2, <2>3
<1>7. CASE Write(t) \/ ReadCount(t)
  <2>1. stack' = stack
    BY <1>7, WriteDoes, ReadCountDoes
  <2> QED BY <1>0, <2>1
<1> QED BY <1>2, <1>3, <1>4, <1>5, <1>6, <1>7 DEF Step

(* What every step of a thread has in common.                                *)
LEMMA StepDoes ==
  ASSUME TraceInv, NEW t \in Threads, Step(t)
  PROVE  /\ \A u \in Threads : u # t => stack'[u] = stack[u] /\ rec'[u] = rec[u]
         /\ process = "running" /\ process' = process
         /\ calls' = calls \/ (Call(t) /\ calls' = calls + 1)
         /\ Lines' = Lines \/ (AddsLine(t) /\ rec[t].at = "write" /\ Top(t).stage \in Recording)
         /\ \/ Call(t) /\ MayStart(t) /\ rec[t].at = "idle"
            \/ BodyEnds(t) /\ BodyMayEnd(t) /\ rec[t].at = "idle"
                 /\ stack[t] # <<>>
            \/ stack[t] # <<>> /\ ~InBody(t)
<1>1. CASE Call(t)
  BY <1>1, CallDoes, LinesSteps DEF GoesOn
<1>2. CASE BodyEnds(t)
  <2>1. stack[t] # <<>>
    BY <1>2 DEF BodyEnds, InBody
  <2> QED BY <1>2, <2>1, BodyEndsDoes, LinesSteps DEF GoesOn
<1>3. CASE Leave(t)
  <2>1. stack[t] # <<>> /\ ~InBody(t)
    BY <1>3 DEF Leave, InBody
  <2> QED BY <1>3, <2>1, LeaveDoes, LinesSteps DEF GoesOn
<1>4. ASSUME rec[t].at # "idle"
      PROVE  stack[t] # <<>> /\ ~InBody(t) /\ Top(t).stage \in Recording
  BY <1>4 DEF TraceInv, RecordOpen, InBody, Recording
<1>5. CASE StoreCount(t)
  BY <1>4, <1>5, StoreCountDoes, LinesSteps DEF GoesOn
<1>6. CASE WriteFails(t)
  BY <1>4, <1>6, WriteFailsDoes, LinesSteps DEF GoesOn
<1>7. CASE Write(t)
  BY <1>4, <1>7, WriteDoes, LinesSteps
<1>8. CASE ReadCount(t)
  BY <1>4, <1>8, ReadCountDoes, LinesSteps
<1> QED BY <1>1, <1>2, <1>3, <1>5, <1>6, <1>7, <1>8 DEF Step

-----------------------------------------------------------------------------
(* There is one batch, of the main thread; workers have calls only while it  *)
(* is in its body, and so their lines lie between its start and its end.     *)
BatchAt(S) ==
    \A n \in 1 .. Len(stack[Main]) :
        stack[Main][n].kind = "batch" => stack[Main][n].stage \in S
WorkerLine(lines, j) == lines[j].thread \in Workers
NotStart == {"request", "observed", "end", "error_end", "body", "leave"}

BatchInv ==
    /\ \A w \in Workers : \A n \in 1 .. Len(stack[w]) :
          stack[w][n].kind \notin {"batch", "bootstrap"}
    /\ \A n, m \in 1 .. Len(stack[Main]) :
          stack[Main][n].kind = "batch" /\ stack[Main][m].kind = "batch" => n = m
    /\ calls >= 2 \/ BatchAt({})
    /\ WorkersIdle \/ (InBody(Main) /\ Top(Main).kind = "batch")
    /\ WorkersIdle \/ (calls >= 2 /\ BatchAt(NotStart))
    /\ \A j \in 1 .. Len(Lines) : WorkerLine(Lines, j) => calls >= 2 /\ BatchAt(NotStart)
    /\ \A k \in 1 .. Len(Lines) : Lines[k].type = <<"batch", "end">> =>
          /\ WorkersIdle /\ calls >= 2 /\ BatchAt(Done)
          /\ \A j \in 1 .. Len(Lines) : WorkerLine(Lines, j) => j < k
    /\ \A i, j \in 1 .. Len(Lines) :
          Lines[i].type = <<"batch", "start">> /\ WorkerLine(Lines, j) => i < j

\* Every step keeps the workers inside the batch.
LEMMA BatchInvStep ==
  TraceInv /\ FramesInv /\ BatchInv /\ [Next]_vars => BatchInv'
<1> SUFFICES ASSUME TraceInv, FramesInv, BatchInv, [Next]_vars PROVE BatchInv'
  OBVIOUS
<1>0. /\ calls \in Nat /\ Main \in Threads /\ Main \notin Workers
      /\ \A w \in Workers : w \in Threads /\ w # Main
      /\ \A t \in Threads : stack[t] \in Seq(Frame) /\ Len(stack[t]) \in Nat
      /\ \A t \in Threads : stack'[t] \in Seq(Frame) /\ Len(stack'[t]) \in Nat
      /\ \A t \in Threads : \A n \in 1 .. Len(stack[t]) : stack[t][n] \in Frame
      /\ \A t \in Threads : \A n \in 1 .. Len(stack'[t]) : stack'[t][n] \in Frame
      /\ Len(Lines) \in Nat
  <2>1. TraceInv'
    BY TraceInvStep
  <2>2. \A t \in Threads : stack[t] \in Seq(Frame) /\ stack'[t] \in Seq(Frame)
    BY <2>1 DEF TraceInv, TypeOK
  <2>3. calls \in Nat
    BY DEF TraceInv, TypeOK
  <2> QED BY <2>2, <2>3, LinesType, RuntimeTraceAssumption DEF Threads
\* A worker's step: the batch is in its body, and its end has not been recorded.
<1>1. ASSUME NEW t \in Workers, Step(t) PROVE BatchInv'
  <2>1. /\ t \in Threads /\ t # Main
        /\ stack'[Main] = stack[Main]
        /\ \A w \in Workers : w # t => stack'[w] = stack[w]
    BY <1>0, <1>1, StepDoes
  <2>2. InBody(Main) /\ Top(Main).kind = "batch"
    <3>1. CASE stack[t] # <<>>
      BY <3>1 DEF BatchInv, WorkersIdle
    <3>2. CASE stack[t] = <<>>
      BY <1>1, <2>1, <3>2, StepDoes DEF MayStart
    <3> QED BY <3>1, <3>2
  <2>3. Len(stack[Main]) \in 1 .. Len(stack[Main]) /\ Top(Main).stage = "body"
    BY <1>0, <2>2, EmptySeq DEF InBody
  <2>4. calls >= 2 /\ BatchAt(NotStart) /\ calls' \in Nat /\ calls' >= 2
    <3>1. ~BatchAt({})
      BY <2>2, <2>3 DEF BatchAt, Top
    <3>2. \A n \in 1 .. Len(stack[Main]) : stack[Main][n].kind = "batch" =>
             n = Len(stack[Main])
      BY <2>2, <2>3 DEF BatchInv, Top
    <3>3. BatchAt(NotStart)
      BY <2>3, <3>2 DEF BatchAt, NotStart, Top
    <3> QED BY <1>0, <1>1, <2>1, <3>1, <3>3, StepDoes DEF BatchInv
  <2>5. \A k \in 1 .. Len(Lines) : Lines[k].type # <<"batch", "end">>
    <3>1. ~BatchAt(Done)
      BY <2>2, <2>3 DEF BatchAt, Done, Top
    <3> QED BY <3>1 DEF BatchInv
  <2>6. ASSUME NEW n \in 1 .. Len(stack'[t])
        PROVE  stack'[t][n].kind \notin {"batch", "bootstrap"}
    <3>1. CASE n \in 1 .. Len(stack[t]) /\ Kept(stack[t][n], stack'[t][n])
      BY <3>1 DEF BatchInv, Kept, SameCall
    <3>2. CASE Entered(t, n)
      <4>1. PICK kind \in CallableNow(t) : stack'[t][n] = NewFrame(kind)
        BY <3>2 DEF Entered
      <4>2. kind \notin {"batch", "bootstrap"}
        <5>1. CASE InBody(t)
          <6>1. kind \in Callees(Top(t).kind)
            BY <4>1, <5>1 DEF CallableNow
          <6>2. Len(stack[t]) \in 1 .. Len(stack[t])
            BY <1>0, <2>1, <5>1, EmptySeq DEF InBody
          <6>3. Top(t).kind # "bootstrap"
            BY <6>2 DEF BatchInv, Top
          <6> QED BY <6>1, <6>3, BatchCallees
        <5>2. CASE ~InBody(t)
          BY <2>1, <4>1, <5>2 DEF CallableNow
        <5> QED BY <5>1, <5>2
      <4> QED BY <4>1, <4>2 DEF NewFrame
    <3> QED BY <1>1, <2>1, <3>1, <3>2, CallsKept
  <2>7. \A w \in Workers : \A n \in 1 .. Len(stack'[w]) :
          stack'[w][n].kind \notin {"batch", "bootstrap"}
    BY <2>1, <2>6 DEF BatchInv
  <2>8. /\ \A k \in 1 .. Len(Lines') : Lines'[k].type # <<"batch", "end">>
        /\ \A i, j \in 1 .. Len(Lines') :
             Lines'[i].type = <<"batch", "start">> /\ WorkerLine(Lines', j) => i < j
    <3>1. CASE Lines' = Lines
      BY <2>5, <3>1 DEF BatchInv
    <3>2. CASE AddsLine(t) /\ rec[t].at = "write"
      <4> DEFINE N == Len(Lines) + 1
      <4>1. Len(Lines') = N /\ Lines'[N] = Line(t)
              /\ \A i \in 1 .. Len(Lines) : Lines'[i] = Lines[i]
        BY <3>2 DEF AddsLine
      <4>2. stack[t] # <<>> /\ Len(stack[t]) \in 1 .. Len(stack[t])
        BY <1>0, <2>1, <3>2, EmptySeq DEF TraceInv, RecordOpen
      <4>3. Top(t).kind # "batch"
        BY <4>2 DEF BatchInv, Top
      <4>4. Line(t).type[1] # "batch"
        BY <2>1, <3>2, <4>3, LineType DEF FramesInv, RecordOfTop
      <4>5. Lines'[N].type # <<"batch", "end">> /\ Lines'[N].type # <<"batch", "start">>
        BY <4>1, <4>4
      <4>6. \A k \in 1 .. Len(Lines') : k = N \/ k \in 1 .. Len(Lines)
        BY <1>0, <4>1
      <4>7. \A i \in 1 .. Len(Lines) : i < N
        BY <1>0
      <4> QED BY <2>5, <4>1, <4>5, <4>6, <4>7 DEF BatchInv, WorkerLine
    <3> QED BY <1>1, <2>1, <3>1, <3>2, StepDoes
  <2>9. (InBody(Main) /\ Top(Main).kind = "batch" /\ BatchAt(NotStart))'
    BY <2>1, <2>2, <2>4 DEF InBody, Top, BatchAt
  <2>10. (\A n, m \in 1 .. Len(stack[Main]) :
          stack[Main][n].kind = "batch" /\ stack[Main][m].kind = "batch" => n = m)'
    BY <2>1 DEF BatchInv
  <2> QED BY <2>4, <2>7, <2>8, <2>9, <2>10 DEF BatchInv
\* A step of the main thread: no worker has a call.
<1>2. ASSUME Step(Main) PROVE BatchInv'
  <2>1. \A w \in Workers : stack'[w] = stack[w]
    BY <1>0, <1>2, StepDoes
  <2>2. WorkersIdle /\ WorkersIdle'
    <3>1. WorkersIdle
      <4>1. CASE InBody(Main)
        BY <1>0, <1>2, <4>1, StepDoes DEF MayStart, BodyMayEnd
      <4>2. CASE ~InBody(Main)
        BY <4>2 DEF BatchInv
      <4> QED BY <4>1, <4>2
    <3> QED BY <2>1, <3>1 DEF WorkersIdle
  <2>3. calls' \in Nat /\ calls' >= calls
    BY <1>0, <1>2, StepDoes
  <2>4. ASSUME NEW n \in 1 .. Len(stack'[Main]), stack'[Main][n].kind = "batch"
        PROVE  \/ /\ n \in 1 .. Len(stack[Main]) /\ stack[Main][n].kind = "batch"
                  /\ Kept(stack[Main][n], stack'[Main][n])
               \/ calls = 1 /\ calls' = 2 /\ n = Len(stack[Main]) + 1
    <3>1. CASE n \in 1 .. Len(stack[Main]) /\ Kept(stack[Main][n], stack'[Main][n])
      BY <2>4, <3>1 DEF Kept, SameCall
    <3>2. CASE Entered(Main, n)
      <4>1. PICK kind \in CallableNow(Main) : stack'[Main][n] = NewFrame(kind)
        BY <3>2 DEF Entered
      <4>2. kind = "batch"
        BY <2>4, <4>1 DEF NewFrame
      <4>3. calls = 1
        BY <4>1, <4>2 DEF CallableNow
      <4>4. calls' = 2 /\ n = Len(stack[Main]) + 1
        BY <3>2, <4>3 DEF Entered, Call
      <4> QED BY <4>3, <4>4
    <3> QED BY <1>0, <1>2, <3>1, <3>2, CallsKept
  <2>5. (calls >= 2 \/ BatchAt({}))'
    BY <1>0, <2>3, <2>4 DEF BatchInv, BatchAt
  <2>6. (\A n, m \in 1 .. Len(stack[Main]) :
          stack[Main][n].kind = "batch" /\ stack[Main][m].kind = "batch" => n = m)'
    <3> SUFFICES ASSUME NEW n \in 1 .. Len(stack'[Main]), NEW m \in 1 .. Len(stack'[Main]),
                        stack'[Main][n].kind = "batch", stack'[Main][m].kind = "batch"
                 PROVE  n = m
      OBVIOUS
    <3>1. CASE calls = 1
      <4>1. BatchAt({})
        BY <3>1 DEF BatchInv
      <4>2. n = Len(stack[Main]) + 1 /\ m = Len(stack[Main]) + 1
        BY <2>4, <4>1 DEF BatchAt
      <4> QED BY <4>2
    <3>2. CASE calls # 1
      BY <2>4, <3>2 DEF BatchInv
    <3> QED BY <3>1, <3>2
  <2>7. ASSUME calls >= 2, BatchAt(NotStart) PROVE calls' >= 2 /\ BatchAt(NotStart)'
    <3>1. calls # 1 /\ calls' >= 2
      BY <1>0, <2>3, <2>7
    <3>2. ASSUME NEW n \in 1 .. Len(stack'[Main]), stack'[Main][n].kind = "batch"
          PROVE  stack'[Main][n].stage \in NotStart
      <4>1. stack'[Main][n].stage # "start"
        BY <2>4, <2>7, <3>1, <3>2 DEF Kept, BatchAt, NotStart
      <4>2. stack'[Main][n] \in Frame
        BY <1>0
      <4> QED BY <4>1, <4>2 DEF Frame, Recording, NotStart
    <3> QED BY <3>1, <3>2 DEF BatchAt
  <2>8. ASSUME calls >= 2, BatchAt(Done) PROVE calls' >= 2 /\ BatchAt(Done)'
    <3>1. calls # 1 /\ calls' >= 2
      BY <1>0, <2>3, <2>8
    <3> QED BY <2>4, <2>8, <3>1 DEF Kept, BatchAt
  <2>9. CASE Lines' = Lines
    BY <2>1, <2>2, <2>5, <2>6, <2>7, <2>8, <2>9 DEF BatchInv
  <2>10. CASE AddsLine(Main) /\ rec[Main].at = "write" /\ Top(Main).stage \in Recording
    <3> DEFINE N == Len(Lines) + 1
    <3>1. Len(Lines') = N /\ Lines'[N] = Line(Main)
            /\ \A i \in 1 .. Len(Lines) : Lines'[i] = Lines[i]
      BY <2>10 DEF AddsLine
    <3>2. /\ Line(Main).thread = Main
          /\ Line(Main).type = <<Top(Main).kind, MarkOf(Top(Main).stage)>>
      BY <1>0, <2>10, LineType DEF FramesInv, RecordOfTop
    <3>3. Len(stack[Main]) \in 1 .. Len(stack[Main])
      BY <1>0, <2>10, EmptySeq DEF TraceInv, RecordOpen
    <3>4. ~WorkerLine(Lines', N)
      BY <1>0, <3>1, <3>2 DEF WorkerLine
    <3>5. \A j \in 1 .. Len(Lines') : WorkerLine(Lines', j) =>
             j \in 1 .. Len(Lines) /\ WorkerLine(Lines, j) /\ j < N
      BY <1>0, <3>1, <3>4 DEF WorkerLine
    <3>6. ASSUME Lines'[N].type = <<"batch", "start">>
          PROVE  \A j \in 1 .. Len(Lines) : ~WorkerLine(Lines, j)
      <4>1. Top(Main).kind = "batch" /\ Top(Main).stage = "start"
        BY <2>10, <3>1, <3>2, <3>6 DEF MarkOf, Recording
      <4>2. ~BatchAt(NotStart)
        BY <3>3, <4>1 DEF BatchAt, NotStart, Top
      <4> QED BY <4>2 DEF BatchInv
    <3>7. ASSUME Lines'[N].type = <<"batch", "end">>
          PROVE  calls >= 2 /\ BatchAt(Done)
      <4>1. Top(Main).kind = "batch" /\ Top(Main).stage \in Done
        BY <2>10, <3>1, <3>2, <3>7 DEF MarkOf, Recording, Done
      <4>2. \A n \in 1 .. Len(stack[Main]) : stack[Main][n].kind = "batch" =>
              n = Len(stack[Main])
        BY <3>3, <4>1 DEF BatchInv, Top
      <4>3. ~BatchAt({})
        BY <3>3, <4>1 DEF BatchAt, Top
      <4> QED BY <4>1, <4>2, <4>3 DEF BatchInv, BatchAt, Top
    <3>8. ASSUME NEW k \in 1 .. Len(Lines'), Lines'[k].type = <<"batch", "end">>
          PROVE  /\ calls' >= 2 /\ BatchAt(Done)'
                 /\ \A j \in 1 .. Len(Lines') : WorkerLine(Lines', j) => j < k
      <4>1. CASE k = N
        BY <2>8, <3>5, <3>7, <3>8, <4>1
      <4>2. CASE k \in 1 .. Len(Lines)
        BY <2>8, <3>1, <3>5, <3>8, <4>2 DEF BatchInv
      <4> QED BY <1>0, <3>1, <4>1, <4>2
    <3>9. ASSUME NEW i \in 1 .. Len(Lines'), NEW j \in 1 .. Len(Lines'),
                 Lines'[i].type = <<"batch", "start">>, WorkerLine(Lines', j)
          PROVE  i < j
      <4>1. CASE i = N
        BY <3>5, <3>6, <3>9, <4>1
      <4>2. CASE i \in 1 .. Len(Lines)
        BY <3>1, <3>5, <3>9, <4>2 DEF BatchInv
      <4> QED BY <1>0, <3>1, <4>1, <4>2
    <3>10. ASSUME NEW j \in 1 .. Len(Lines'), WorkerLine(Lines', j)
           PROVE  calls' >= 2 /\ BatchAt(NotStart)'
      BY <2>7, <3>5, <3>10 DEF BatchInv
    <3>11. \A w \in Workers : \A n \in 1 .. Len(stack'[w]) :
             stack'[w][n].kind \notin {"batch", "bootstrap"}
      BY <2>1 DEF BatchInv
    <3> QED BY <2>2, <2>5, <2>6, <3>8, <3>9, <3>10, <3>11 DEF BatchInv
  <2> QED BY <1>0, <1>2, <2>9, <2>10, StepDoes
<1>3. CASE Settles
  <2>1. UNCHANGED <<stack, calls>> /\ DropsLines
    BY <1>3, SettlesDoes, LinesSteps
  <2>2. \A i \in 1 .. Len(Lines') : i \in 1 .. Len(Lines) /\ Lines'[i] = Lines[i]
    <3>1. Len(Lines') \in Nat
      <4>1. TraceInv'
        BY TraceInvStep
      <4>2. file' \in Seq(LineSet) /\ buffer' \in Seq(LineSet)
        BY <4>1 DEF TraceInv, TypeOK
      <4> QED BY <4>2, ConcatProperties DEF Lines
    <3> QED BY <1>0, <2>1, <3>1 DEF DropsLines
  <2>3. WorkersIdle' = WorkersIdle /\ BatchAt({})' = BatchAt({})
          /\ BatchAt(Done)' = BatchAt(Done) /\ BatchAt(NotStart)' = BatchAt(NotStart)
          /\ InBody(Main)' = InBody(Main) /\ Top(Main)' = Top(Main)
    BY <2>1 DEF WorkersIdle, BatchAt, InBody, Top
  <2> QED BY <2>1, <2>2, <2>3 DEF BatchInv, WorkerLine
<1>4. \A t \in Threads : t = Main \/ t \in Workers
  BY DEF Threads
<1> QED BY <1>1, <1>2, <1>3, <1>4, NextIs DEF Step

\* The workers are inside the batch throughout.
LEMMA BatchInvHolds == Spec => [](TraceInv /\ FramesInv /\ BatchInv)
<1>1. Init => BatchInv
  <2> SUFFICES ASSUME Init PROVE BatchInv
    OBVIOUS
  <2>1. \A t \in Threads : stack[t] = <<>>
    BY DEF Init
  <2>2. Lines = <<>> /\ Len(<<>>) = 0
    BY DEF Init, Lines
  <2>3. WorkersIdle /\ BatchAt({})
    BY <2>1, <2>2, RuntimeTraceAssumption DEF WorkersIdle, BatchAt, Threads
  <2> QED BY <2>1, <2>2, <2>3, RuntimeTraceAssumption DEF BatchInv, Threads
<1> QED BY <1>1, BatchInvStep, FramesInvHolds, PTL DEF Spec

(* Everything the workers record lies between the start and the end of the   *)
(* batch, for any number of workers and whatever writes fail: run_tasks      *)
(* returns or raises only after its executor has been shut down.             *)
THEOREM BatchEnclosesWorkers == Spec => []BatchEncloses
<1>1. TraceInv /\ IdsInv /\ StartsInv /\ BatchInv => BatchEncloses
  <2> SUFFICES ASSUME TraceInv, IdsInv, StartsInv, BatchInv,
                      NEW i \in DOMAIN file, NEW k \in DOMAIN file, IsMark(i, "start"),
                      Closes(k, i), file[i].type[1] = "batch",
                      NEW j \in DOMAIN file, file[j].thread \in Workers
               PROVE  i < j /\ j < k
    BY DEF BatchEncloses
  <2>1. /\ i \in 1 .. Len(Lines) /\ j \in 1 .. Len(Lines) /\ k \in 1 .. Len(Lines)
        /\ Lines[i] = file[i] /\ Lines[j] = file[j] /\ Lines[k] = file[k]
        /\ Lines[i] \in LineSet /\ Lines[k] \in LineSet
    BY LinesType
  <2>2. Lines[i].type = <<"batch", "start">>
    <3>1. Lines[i].type \in Types
      BY <2>1 DEF LineSet
    <3> QED BY <2>1, <3>1 DEF Types, IsMark
  <2>3. PICK h \in 1 .. k - 1 :
          StartAt(Lines, h, Lines[k].type[1], Owner(Lines[k]), Lines[k].thread)
    BY <2>1 DEF StartsInv, Follows, Closes, IsMark
  <2>4. h = i
    <3>1. Lines[k].type[1] # "bootstrap" /\ Owner(Lines[k]) = Lines[i].id
      BY <2>1, <2>2 DEF Closes, BelongsTo, Owner
    <3> QED BY <2>1, <2>3, <3>1 DEF StartAt, IdsInv, IdsOk, Lines
  <2>5. Lines[k].type = <<"batch", "end">>
    <3>1. Lines[k].type[1] = "batch" /\ Lines[k].type[2] = "end"
      BY <2>1, <2>2, <2>3, <2>4 DEF StartAt, Closes, IsMark
    <3>2. Lines[k].type \in Types
      BY <2>1 DEF LineSet
    <3> QED BY <3>1, <3>2 DEF Types
  <2> QED BY <2>1, <2>2, <2>5 DEF BatchInv, WorkerLine
<1> QED BY <1>1, IdsInvHolds, StartsInvHolds, BatchInvHolds, PTL

-----------------------------------------------------------------------------
(* Counting: how the number of lines of a type in the file and the number of *)
(* lines written and not yet counted change.                                 *)
LEMMA CountsAreNumbers ==
  ASSUME TraceInv, NEW type
  PROVE  /\ IsFiniteSet(LinesOf(type)) /\ Cardinality(LinesOf(type)) \in Nat
         /\ IsFiniteSet(Uncounted(type)) /\ Cardinality(Uncounted(type)) \in Nat
<1>1. IsFiniteSet(1 .. Len(file)) /\ LinesOf(type) \subseteq 1 .. Len(file)
  <2>1. Len(file) \in Nat /\ DOMAIN file = 1 .. Len(file)
    BY LinesType
  <2> QED BY <2>1, FS_Interval DEF LinesOf
<1>2. IsFiniteSet(Threads) /\ Uncounted(type) \subseteq Threads
  <2>1. IsFiniteSet(Workers)
    BY RuntimeTraceAssumption
  <2>2. IsFiniteSet(Workers \cup {Main})
    BY <2>1, FS_AddElement
  <2> QED BY <2>2 DEF Threads, Uncounted
<1>3. IsFiniteSet(LinesOf(type)) /\ IsFiniteSet(Uncounted(type))
  BY <1>1, <1>2, FS_Subset
<1> QED BY <1>3, FS_CardinalityType

(* A good write adds its line to the file, and with it those of earlier      *)
(* failed writes.                                                            *)
LEMMA WriteCounts ==
  ASSUME TraceInv, NEW t \in Threads, Write(t), NEW type
  PROVE  /\ Cardinality(LinesOf(type)') \in Nat
         /\ type # rec[t].type =>
              Cardinality(LinesOf(type)') >= Cardinality(LinesOf(type))
         /\ type = rec[t].type =>
              Cardinality(LinesOf(type)') >= Cardinality(LinesOf(type)) + 1
         /\ buffer = <<>> =>
              Cardinality(LinesOf(type)') =
                Cardinality(LinesOf(type)) + IF type = rec[t].type THEN 1 ELSE 0
<1> DEFINE tail == Append(buffer, Line(t))
           N == Len(file) + Len(tail)
<1>0. file \in Seq(LineSet) /\ buffer \in Seq(LineSet) /\ Line(t) \in LineSet /\ TraceInv'
        /\ Line(t).type = rec[t].type
  <2>1. [Next]_vars
    BY DEF Next, Step
  <2> QED BY <2>1, LineType, TraceInvStep DEF TraceInv, TypeOK
<1>1. /\ tail \in Seq(LineSet) /\ Len(tail) = Len(buffer) + 1 /\ tail[Len(tail)] = Line(t)
      /\ Len(file) \in Nat /\ Len(buffer) \in Nat /\ Len(tail) \in Nat
  BY <1>0, AppendProperties
<1>2. file' = file \o tail
  BY WriteDoes
<1> HIDE DEF tail
<1>3. /\ Len(file') = N /\ N \in Nat /\ Len(file) < N
      /\ \A i \in 1 .. Len(file) : file'[i] = file[i]
      /\ file'[N] = Line(t)
      /\ DOMAIN file' = 1 .. N /\ DOMAIN file = 1 .. Len(file)
  <2>1. Len(file') = N
    BY <1>0, <1>1, <1>2, ConcatProperties
  <2>2. \A i \in 1 .. Len(file) + Len(tail) :
           file'[i] = IF i <= Len(file) THEN file[i] ELSE tail[i - Len(file)]
    BY <1>0, <1>1, <1>2, ConcatProperties
  <2>3. N \in 1 .. Len(file) + Len(tail) /\ N - Len(file) = Len(tail) /\ N \in Nat
          /\ Len(file) < N /\ ~(N <= Len(file))
    BY <1>1
  <2>4. file'[N] = Line(t)
    BY <1>1, <2>2, <2>3
  <2>5. \A i \in 1 .. Len(file) : file'[i] = file[i]
    <3>1. \A i \in 1 .. Len(file) : i \in 1 .. Len(file) + Len(tail) /\ i <= Len(file)
      BY <1>1
    <3> QED BY <2>2, <3>1
  <2>6. file' \in Seq(LineSet)
    BY <1>0 DEF TraceInv, TypeOK
  <2> QED BY <1>0, <1>1, <2>1, <2>3, <2>4, <2>5, <2>6
<1> HIDE DEF N
<1>4. /\ LinesOf(type) \subseteq LinesOf(type)' /\ N \notin LinesOf(type)
      /\ N \in LinesOf(type)' <=> type = rec[t].type
  BY <1>0, <1>3 DEF LinesOf
<1>5. /\ IsFiniteSet(LinesOf(type)) /\ Cardinality(LinesOf(type)) \in Nat
      /\ IsFiniteSet(LinesOf(type)') /\ Cardinality(LinesOf(type)') \in Nat
  <2>1. IsFiniteSet(1 .. N) /\ LinesOf(type)' \subseteq 1 .. N
    BY <1>3, FS_Interval DEF LinesOf
  <2>2. IsFiniteSet(LinesOf(type)')
    BY <2>1, FS_Subset
  <2> QED BY <2>2, CountsAreNumbers, FS_CardinalityType
<1>6. Cardinality(LinesOf(type) \cup {N}) = Cardinality(LinesOf(type)) + 1
  BY <1>4, <1>5, FS_AddElement
<1>7. Cardinality(LinesOf(type)') >= Cardinality(LinesOf(type))
  BY <1>4, <1>5, FS_Subset
<1>8. ASSUME type = rec[t].type
      PROVE  Cardinality(LinesOf(type)') >= Cardinality(LinesOf(type)) + 1
  <2>1. LinesOf(type) \cup {N} \subseteq LinesOf(type)'
    BY <1>4, <1>8
  <2>2. Cardinality(LinesOf(type) \cup {N}) <= Cardinality(LinesOf(type)')
    BY <1>5, <2>1, FS_Subset
  <2> QED BY <1>5, <1>6, <2>2
<1>9. ASSUME buffer = <<>>
      PROVE  Cardinality(LinesOf(type)') =
               Cardinality(LinesOf(type)) + IF type = rec[t].type THEN 1 ELSE 0
  <2>1. N = Len(file) + 1
    BY <1>1, <1>9 DEF N
  <2>2. \A i \in 1 .. N : i = N \/ i \in 1 .. Len(file)
    BY <1>1, <2>1
  <2>3. CASE type = rec[t].type
    <3>1. LinesOf(type)' = LinesOf(type) \cup {N}
      BY <1>3, <1>4, <2>2, <2>3 DEF LinesOf
    <3> QED BY <1>6, <2>3, <3>1
  <2>4. CASE type # rec[t].type
    <3>1. LinesOf(type)' = LinesOf(type)
      BY <1>3, <1>4, <2>2, <2>4 DEF LinesOf
    <3> QED BY <1>5, <2>4, <3>1
  <2> QED BY <2>3, <2>4
<1> QED BY <1>5, <1>7, <1>8, <1>9

(* Which records wait to be counted.                                         *)
LEMMA UncountedSteps ==
  ASSUME TraceInv, NEW t \in Threads, NEW type, TraceInv',
         \A u \in Threads : u # t => rec'[u] = rec[u]
  PROVE  /\ Cardinality(Uncounted(type)') \in Nat
         /\ rec[t].at \in {"idle", "write"} /\ rec'[t].at \in {"idle", "write"} =>
              Uncounted(type)' = Uncounted(type)
         /\ rec[t].at = "count" /\ rec'[t].at = "store" /\ rec'[t].type = rec[t].type =>
              Uncounted(type)' = Uncounted(type)
         /\ rec[t].at = "write" /\ rec'[t].at = "count" /\ rec'[t].type = rec[t].type =>
              Cardinality(Uncounted(type)') =
                Cardinality(Uncounted(type)) + IF type = rec[t].type THEN 1 ELSE 0
         /\ rec[t].at = "store" /\ rec'[t].at \in {"idle", "write"} =>
              Cardinality(Uncounted(type)') =
                Cardinality(Uncounted(type)) - IF type = rec[t].type THEN 1 ELSE 0
<1>0. /\ IsFiniteSet(Uncounted(type)) /\ Cardinality(Uncounted(type)) \in Nat
      /\ IsFiniteSet(Uncounted(type)') /\ Cardinality(Uncounted(type)') \in Nat
  <2>1. IsFiniteSet(Threads)
    <3>1. IsFiniteSet(Workers \cup {Main})
      BY RuntimeTraceAssumption, FS_AddElement
    <3> QED BY <3>1 DEF Threads
  <2>2. Uncounted(type)' \subseteq Threads
    BY DEF Uncounted
  <2>3. IsFiniteSet(Uncounted(type)')
    BY <2>1, <2>2, FS_Subset
  <2> QED BY <2>3, CountsAreNumbers, FS_CardinalityType
<1>1. ASSUME rec[t].at \in {"idle", "write"}, rec'[t].at \in {"idle", "write"}
      PROVE  Uncounted(type)' = Uncounted(type)
  BY <1>1 DEF Uncounted
<1>2. ASSUME rec[t].at = "count", rec'[t].at = "store", rec'[t].type = rec[t].type
      PROVE  Uncounted(type)' = Uncounted(type)
  BY <1>2 DEF Uncounted
<1>3. ASSUME rec[t].at = "write", rec'[t].at = "count", rec'[t].type = rec[t].type
      PROVE  Cardinality(Uncounted(type)') =
               Cardinality(Uncounted(type)) + IF type = rec[t].type THEN 1 ELSE 0
  <2>1. CASE type = rec[t].type
    <3>1. Uncounted(type)' = Uncounted(type) \cup {t} /\ t \notin Uncounted(type)
      BY <1>3, <2>1 DEF Uncounted
    <3> QED BY <1>0, <2>1, <3>1, FS_AddElement
  <2>2. CASE type # rec[t].type
    <3>1. Uncounted(type)' = Uncounted(type)
      BY <1>3, <2>2 DEF Uncounted
    <3> QED BY <1>0, <2>2, <3>1
  <2> QED BY <2>1, <2>2
<1>4. ASSUME rec[t].at = "store", rec'[t].at \in {"idle", "write"}
      PROVE  Cardinality(Uncounted(type)') =
               Cardinality(Uncounted(type)) - IF type = rec[t].type THEN 1 ELSE 0
  <2>1. CASE type = rec[t].type
    <3>1. Uncounted(type)' = Uncounted(type) \ {t} /\ t \in Uncounted(type)
      BY <1>4, <2>1 DEF Uncounted
    <3> QED BY <1>0, <2>1, <3>1, FS_RemoveElement
  <2>2. CASE type # rec[t].type
    <3>1. Uncounted(type)' = Uncounted(type)
      BY <1>4, <2>2 DEF Uncounted
    <3> QED BY <1>0, <2>2, <3>1
  <2> QED BY <2>1, <2>2
<1> QED BY <1>0, <1>1, <1>2, <1>3, <1>4

-----------------------------------------------------------------------------
(* No event is counted that is not in the file: also the count a thread has  *)
(* read and will store leaves room for the lines that are not counted yet.   *)
CountOf(type) == event_counts[type] + Cardinality(Uncounted(type)) <= Cardinality(LinesOf(type))
SeenOf(type, t) ==
    rec[t].at = "store" /\ rec[t].type = type =>
        rec[t].seen + Cardinality(Uncounted(type)) <= Cardinality(LinesOf(type))
CountInv == \A type \in Types : CountOf(type) /\ \A t \in Threads : SeenOf(type, t)

\* Every step keeps the counts below the lines.
LEMMA CountInvStep == TraceInv /\ CountInv /\ [Next]_vars => CountInv'
<1> SUFFICES ASSUME TraceInv, CountInv, [Next]_vars, NEW type \in Types
             PROVE  CountOf(type)' /\ \A u \in Threads : SeenOf(type, u)'
  BY DEF CountInv
<1> DEFINE U == Cardinality(Uncounted(type))
           L == Cardinality(LinesOf(type))
           ec == event_counts[type]
<1>0. /\ TraceInv' /\ U \in Nat /\ L \in Nat /\ U' \in Nat /\ L' \in Nat
      /\ ec \in Nat /\ event_counts \in [Types -> Nat]
      /\ \A u \in Threads : rec[u].seen \in Nat /\ rec[u].type \in Types
  <2>1. TraceInv'
    BY TraceInvStep
  <2>2. rec \in [Threads -> RecordSet] /\ event_counts \in [Types -> Nat]
    BY DEF TraceInv, TypeOK, RecordSet
  <2>3. \A u \in Threads : rec[u].seen \in Nat /\ rec[u].type \in Types
    BY <2>2 DEF RecordSet
  <2>4. U \in Nat /\ L \in Nat
    BY CountsAreNumbers
  <2>5. U' \in Nat /\ L' \in Nat
    <3>1. file' \in Seq(LineSet)
      BY <2>1 DEF TraceInv, TypeOK
    <3>2. IsFiniteSet(1 .. Len(file')) /\ LinesOf(type)' \subseteq 1 .. Len(file')
      BY <3>1, FS_Interval DEF LinesOf
    <3>3. IsFiniteSet(LinesOf(type)')
      BY <3>2, FS_Subset
    <3>4. IsFiniteSet(Workers \cup {Main})
      BY RuntimeTraceAssumption, FS_AddElement
    <3>5. IsFiniteSet(Uncounted(type)')
      BY <3>4, FS_Subset DEF Uncounted, Threads
    <3> QED BY <3>3, <3>5, FS_CardinalityType
  <2> QED BY <2>1, <2>2, <2>3, <2>4, <2>5
<1>1. ec + U <= L /\ \A u \in Threads : rec[u].at = "store" /\ rec[u].type = type =>
                        rec[u].seen + U <= L
  BY DEF CountInv, CountOf, SeenOf
<1> HIDE DEF U, L, ec
<1>2. SUFFICES /\ ec' + U' <= L'
               /\ \A u \in Threads : rec'[u].at = "store" /\ rec'[u].type = type =>
                    rec'[u].seen + U' <= L'
  BY DEF CountOf, SeenOf, U, L, ec
<1>3. ASSUME NEW t \in Threads, \A u \in Threads : u # t => rec'[u] = rec[u],
             rec[t].at \in {"idle", "write"}, rec'[t].at \in {"idle", "write"},
             UNCHANGED <<file, event_counts>>
      PROVE  /\ ec' + U' <= L'
             /\ \A u \in Threads : rec'[u].at = "store" /\ rec'[u].type = type =>
                  rec'[u].seen + U' <= L'
  <2>1. U' = U
    <3>1. Uncounted(type)' = Uncounted(type)
      BY <1>0, <1>3, UncountedSteps
    <3> QED BY <3>1 DEF U
  <2>2. L' = L /\ ec' = ec
    BY <1>3 DEF L, ec, LinesOf
  <2> QED BY <1>1, <1>3, <2>1, <2>2
<1>4. ASSUME NEW t \in Threads, Call(t) \/ BodyEnds(t) \/ Leave(t) \/ WriteFails(t)
      PROVE  /\ ec' + U' <= L'
             /\ \A u \in Threads : rec'[u].at = "store" /\ rec'[u].type = type =>
                  rec'[u].seen + U' <= L'
  <2>1. GoesOn(t) /\ rec[t].at \in {"idle", "write"} /\ UNCHANGED <<file, event_counts>>
    BY <1>4, CallDoes, BodyEndsDoes, LeaveDoes, WriteFailsDoes DEF log
  <2> QED BY <1>3, <2>1 DEF GoesOn
<1>5. ASSUME NEW t \in Threads, Write(t)
      PROVE  /\ ec' + U' <= L'
             /\ \A u \in Threads : rec'[u].at = "store" /\ rec'[u].type = type =>
                  rec'[u].seen + U' <= L'
  <2>1. /\ rec[t].at = "write" /\ rec'[t].at = "count" /\ rec'[t].type = rec[t].type
        /\ \A u \in Threads : u # t => rec'[u] = rec[u]
        /\ ec' = ec
    BY <1>5, WriteDoes DEF ec
  <2>2. U' = U + IF type = rec[t].type THEN 1 ELSE 0
    BY <1>0, <2>1, UncountedSteps DEF U
  <2>3. (type # rec[t].type => L' >= L) /\ (type = rec[t].type => L' >= L + 1)
    BY <1>5, WriteCounts DEF L
  <2>4. (L' >= L /\ U' = U) \/ (L' >= L + 1 /\ U' = U + 1)
    <3>1. CASE type = rec[t].type
      BY <1>0, <2>2, <2>3, <3>1
    <3>2. CASE type # rec[t].type
      BY <1>0, <2>2, <2>3, <3>2
    <3> QED BY <3>1, <3>2
  <2>5. ASSUME NEW u \in Threads, rec'[u].at = "store", rec'[u].type = type
        PROVE  rec'[u].seen + U' <= L'
    <3>1. u # t /\ rec'[u] = rec[u] /\ rec[u].seen + U <= L
      BY <1>1, <2>1, <2>5
    <3>2. rec'[u].seen \in Nat
      BY <1>0, <3>1
    <3>3. rec'[u].seen + U <= L
      BY <3>1
    <3> QED BY <1>0, <2>4, <3>2, <3>3
  <2>6. ec' + U' <= L'
    <3>1. ec' = ec
      BY <2>1
    <3>2. ec + U <= L /\ ec \in Nat /\ U \in Nat /\ L \in Nat /\ L' \in Nat
      BY <1>0, <1>1
    <3>3. ec + U' <= L'
      BY <2>4, <3>2
    <3> QED BY <3>1, <3>3
  <2> QED BY <2>5, <2>6
<1>6. ASSUME NEW t \in Threads, ReadCount(t)
      PROVE  /\ ec' + U' <= L'
             /\ \A u \in Threads : rec'[u].at = "store" /\ rec'[u].type = type =>
                  rec'[u].seen + U' <= L'
  <2>1. /\ rec[t].at = "count" /\ rec'[t].at = "store" /\ rec'[t].type = rec[t].type
        /\ rec'[t].seen = event_counts[rec[t].type]
        /\ \A u \in Threads : u # t => rec'[u] = rec[u]
        /\ ec' = ec /\ L' = L
    BY <1>6, ReadCountDoes DEF ec, L, LinesOf, log
  <2>2. U' = U
    <3>1. Uncounted(type)' = Uncounted(type)
      BY <1>0, <2>1, UncountedSteps
    <3> QED BY <3>1 DEF U
  <2> QED BY <1>1, <2>1, <2>2 DEF ec
<1>7. ASSUME NEW t \in Threads, StoreCount(t)
      PROVE  /\ ec' + U' <= L'
             /\ \A u \in Threads : rec'[u].at = "store" /\ rec'[u].type = type =>
                  rec'[u].seen + U' <= L'
  <2>1. /\ rec[t].at = "store" /\ rec'[t].at \in {"idle", "write"}
        /\ \A u \in Threads : u # t => rec'[u] = rec[u]
        /\ event_counts' = [event_counts EXCEPT ![rec[t].type] = rec[t].seen + 1]
        /\ L' = L
    BY <1>7, StoreCountDoes DEF GoesOn, L, LinesOf
  <2>2. U' = U - IF type = rec[t].type THEN 1 ELSE 0
    BY <1>0, <2>1, UncountedSteps DEF U
  <2>3. ec' + U' <= L'
    <3>1. CASE type = rec[t].type
      <4>1. ec' = rec[t].seen + 1 /\ rec[t].seen + U <= L
        BY <1>0, <1>1, <2>1, <3>1 DEF ec
      <4> QED BY <1>0, <2>1, <2>2, <3>1, <4>1
    <3>2. CASE type # rec[t].type
      <4>1. ec' = ec
        BY <1>0, <2>1, <3>2 DEF ec
      <4> QED BY <1>0, <1>1, <2>1, <2>2, <3>2, <4>1
    <3> QED BY <3>1, <3>2
  <2>4. ASSUME NEW u \in Threads, rec'[u].at = "store", rec'[u].type = type
        PROVE  rec'[u].seen + U' <= L'
    <3>1. rec'[u] = rec[u] /\ rec[u].seen + U <= L /\ rec[u].seen \in Nat
      BY <1>0, <1>1, <2>1, <2>4
    <3> QED BY <1>0, <2>1, <2>2, <3>1
  <2> QED BY <2>3, <2>4
<1>8. CASE Settles
  <2>1. rec' = rec /\ ec' = ec /\ U' = U
    BY <1>8, SettlesDoes DEF ec, U, Uncounted
  <2>2. L' >= L
    <3>1. file \in Seq(LineSet) /\ buffer \in Seq(LineSet) /\ file' \in Seq(LineSet)
      BY <1>0 DEF TraceInv, TypeOK
    <3>2. file' = file \/ file' = file \o buffer
      BY <1>8 DEF Settles, Finish, Interrupt, WriteFinalState, Kill, vars, log
    <3>3. Len(file) <= Len(file') /\ \A i \in 1 .. Len(file) : file'[i] = file[i]
      BY <3>1, <3>2, ConcatProperties
    <3>4. LinesOf(type) \subseteq LinesOf(type)'
      BY <3>1, <3>3 DEF LinesOf
    <3>5. IsFiniteSet(LinesOf(type)')
      <4>1. IsFiniteSet(1 .. Len(file')) /\ LinesOf(type)' \subseteq 1 .. Len(file')
        BY <3>1, FS_Interval DEF LinesOf
      <4> QED BY <4>1, FS_Subset
    <3> QED BY <1>0, <3>4, <3>5, FS_Subset DEF L
  <2> QED BY <1>0, <1>1, <2>1, <2>2
<1> QED BY <1>4, <1>5, <1>6, <1>7, <1>8, NextIs

\* At the start there is nothing to count.
LEMMA NoLinesNoCounts ==
  ASSUME Init, NEW type \in Types
  PROVE  /\ event_counts[type] = 0 /\ Uncounted(type) = {} /\ LinesOf(type) = {}
         /\ Cardinality(Uncounted(type)) = 0 /\ Cardinality(LinesOf(type)) = 0
<1>1. event_counts[type] = 0 /\ file = <<>> /\ \A t \in Threads : rec[t].at = "idle"
  BY DEF Init, NoRecord
<1>2. Uncounted(type) = {} /\ LinesOf(type) = {}
  BY <1>1 DEF Uncounted, LinesOf
<1> QED BY <1>1, <1>2, FS_EmptySet

(* With several simulation threads counts may be lost to a race between      *)
(* reading and storing them, but no event is ever counted that is not in the *)
(* trace file (event_counts in record()).                                    *)
THEOREM CountsBounded == Spec => []CountsNeverExceed
<1>1. Init => CountInv
  <2> SUFFICES ASSUME Init, NEW type \in Types
               PROVE  CountOf(type) /\ \A t \in Threads : SeenOf(type, t)
    BY DEF CountInv
  <2>1. \A t \in Threads : rec[t].at = "idle"
    BY DEF Init, NoRecord
  <2> QED BY <2>1, NoLinesNoCounts DEF CountOf, SeenOf
<1>2. CountInv => CountsNeverExceed
  BY DEF CountInv, CountOf, CountsNeverExceed
<1> QED BY <1>1, <1>2, CountInvStep, TraceInvHolds, PTL DEF Spec

-----------------------------------------------------------------------------
(* With one simulation thread one record() at a time is in progress: the     *)
(* worker has calls only while the main thread waits in the batch's body.    *)
OneWorker == \A v, w \in Workers : v = w

\* With one worker no two threads are inside record() at once.
LEMMA RecordsAlone ==
  ASSUME OneWorker, TraceInv, BatchInv, NEW t \in Threads, NEW u \in Threads,
         rec[t].at # "idle", rec[u].at # "idle"
  PROVE  t = u
<1>1. ASSUME NEW w \in Workers, rec[Main].at # "idle" PROVE rec[w].at = "idle"
  <2>0. Main \in Threads /\ w \in Threads
    BY DEF Threads
  <2>1. ~InBody(Main)
    BY <1>1, <2>0 DEF TraceInv, RecordOpen, InBody, Recording
  <2>2. stack[w] = <<>>
    BY <2>1 DEF BatchInv, WorkersIdle
  <2> QED BY <2>0, <2>2 DEF TraceInv, RecordOpen
<1> QED BY <1>1 DEF OneWorker, Threads

(* Then the counts are exact, and last_event_id names the last line once the *)
(* line has been counted.                                                    *)
ExactOf(type) ==
    event_counts[type] + Cardinality(Uncounted(type)) = Cardinality(LinesOf(type))
Counting(t) == rec[t].at \in {"count", "store"}
LastId == file[Len(file)].id

ExactInv ==
    /\ buffer = <<>>
    /\ \A type \in Types : ExactOf(type)
    /\ \A t \in Threads : rec[t].at = "store" => rec[t].seen = event_counts[rec[t].type]
    /\ \A t \in Threads : Counting(t) => file # <<>> /\ LastId = rec[t].id
    /\ (\A t \in Threads : ~Counting(t)) /\ file # <<>> => last_event_id = LastId

\* With one worker and no failing write, every step keeps the counts exact.
LEMMA ExactInvStep ==
  ASSUME CanFail = FALSE, OneWorker
  PROVE  TraceInv /\ FramesInv /\ BatchInv /\ ExactInv /\ [Next]_vars => ExactInv'
<1> SUFFICES ASSUME TraceInv, FramesInv, BatchInv, ExactInv, [Next]_vars PROVE ExactInv'
  OBVIOUS
<1>0. /\ TraceInv' /\ BatchInv'
      /\ event_counts \in [Types -> Nat] /\ file \in Seq(LineSet)
      /\ \A u \in Threads : rec[u].seen \in Nat /\ rec[u].type \in Types
      /\ \A type \in Types : event_counts[type] \in Nat
      /\ \A type : Cardinality(Uncounted(type)) \in Nat /\ Cardinality(LinesOf(type)) \in Nat
  <2>1. TraceInv'
    BY TraceInvStep
  <2>2. BatchInv'
    BY BatchInvStep
  <2>3. rec \in [Threads -> RecordSet] /\ event_counts \in [Types -> Nat]
          /\ file \in Seq(LineSet)
    BY DEF TraceInv, TypeOK, RecordSet
  <2>4. \A u \in Threads : rec[u].seen \in Nat /\ rec[u].type \in Types
    BY <2>3 DEF RecordSet
  <2>5. \A type : Cardinality(Uncounted(type)) \in Nat /\ Cardinality(LinesOf(type)) \in Nat
    BY CountsAreNumbers
  <2> QED BY <2>1, <2>2, <2>3, <2>4, <2>5
\* A step that neither writes nor counts.
<1>1. ASSUME NEW t \in Threads, \A u \in Threads : u # t => rec'[u] = rec[u],
             rec[t].at \in {"idle", "write"}, rec'[t].at \in {"idle", "write"},
             UNCHANGED <<file, buffer, event_counts, last_event_id>>
      PROVE  ExactInv'
  <2>1. ASSUME NEW type \in Types PROVE ExactOf(type)'
    <3>1. Uncounted(type)' = Uncounted(type)
      BY <1>0, <1>1, UncountedSteps
    <3>2. LinesOf(type)' = LinesOf(type) /\ event_counts' = event_counts
      BY <1>1 DEF LinesOf
    <3> QED BY <3>1, <3>2 DEF ExactInv, ExactOf
  <2>2. \A u \in Threads : (Counting(u)' <=> Counting(u)) /\ (Counting(u) => rec'[u] = rec[u])
          /\ (rec'[u].at = "store" => rec'[u] = rec[u])
    BY <1>1 DEF Counting
  <2> QED BY <1>1, <2>1, <2>2 DEF ExactInv, LastId
<1>2. ASSUME NEW t \in Threads, Call(t) \/ BodyEnds(t) \/ Leave(t) PROVE ExactInv'
  <2>1. GoesOn(t) /\ rec[t].at \in {"idle", "write"}
          /\ UNCHANGED <<file, buffer, event_counts, last_event_id>>
    BY <1>2, CallDoes, BodyEndsDoes, LeaveDoes DEF log
  <2> QED BY <1>1, <2>1 DEF GoesOn
<1>3. ASSUME NEW t \in Threads, WriteFails(t) PROVE ExactInv'
  BY <1>3 DEF WriteFails
<1>4. ASSUME NEW t \in Threads, Write(t) PROVE ExactInv'
  <2>1. /\ rec[t].at = "write" /\ rec'[t].at = "count" /\ rec'[t].type = rec[t].type
        /\ rec'[t].id = rec[t].id
        /\ \A u \in Threads : u # t => rec'[u] = rec[u]
        /\ event_counts' = event_counts /\ buffer' = <<>>
        /\ file' = file \o Append(buffer, Line(t))
    BY <1>4, WriteDoes
  <2>2. ASSUME NEW type \in Types PROVE ExactOf(type)'
    <3>1. Cardinality(Uncounted(type)') =
            Cardinality(Uncounted(type)) + IF type = rec[t].type THEN 1 ELSE 0
      BY <1>0, <2>1, UncountedSteps
    <3>2. Cardinality(LinesOf(type)') =
            Cardinality(LinesOf(type)) + IF type = rec[t].type THEN 1 ELSE 0
      BY <1>4, WriteCounts DEF ExactInv
    <3>3. event_counts[type] + Cardinality(Uncounted(type)) = Cardinality(LinesOf(type))
      BY DEF ExactInv, ExactOf
    <3> DEFINE U == Cardinality(Uncounted(type))
               L == Cardinality(LinesOf(type))
               ec == event_counts[type]
    <3>4. ec \in Nat /\ U \in Nat /\ L \in Nat /\ ec' = ec
      BY <1>0, <2>1
    <3>5. /\ U' = U + IF type = rec[t].type THEN 1 ELSE 0
          /\ L' = L + IF type = rec[t].type THEN 1 ELSE 0
          /\ ec + U = L
      BY <3>1, <3>2, <3>3
    <3>6. SUFFICES ec' + U' = L'
      BY DEF ExactOf
    <3> HIDE DEF U, L, ec
    <3>7. CASE type = rec[t].type
      BY <3>4, <3>5, <3>7
    <3>8. CASE type # rec[t].type
      BY <3>4, <3>5, <3>8
    <3> QED BY <3>7, <3>8
  <2>3. \A u \in Threads : u # t => rec[u].at = "idle" /\ rec'[u].at = "idle"
    BY <2>1, RecordsAlone
  <2>4. file' # <<>> /\ LastId' = rec[t].id
    <3> DEFINE x == Line(t)
    <3>1. x \in LineSet /\ x.id = rec[t].id
      BY LineType
    <3> HIDE DEF x
    <3>2. file' = file \o Append(<<>>, x)
      BY <2>1 DEF ExactInv, x
    <3>3. Append(<<>>, x) = <<x>> /\ <<x>> \in Seq(LineSet)
      BY <3>1
    <3>4. file \o <<x>> = Append(file, x)
      BY <1>0, <3>1, AppendIsConcat
    <3>5. file' = Append(file, x)
      BY <3>2, <3>3, <3>4
    <3>6. Len(file') = Len(file) + 1 /\ file'[Len(file')] = x
      BY <1>0, <3>1, <3>5, AppendProperties
    <3>7. file' # <<>>
      BY <1>0, <3>1, <3>5, AppendProperties
    <3> QED BY <3>1, <3>6, <3>7 DEF LastId
  <2>5. \A u \in Threads : rec'[u].at = "store" => rec'[u].seen = event_counts'[rec'[u].type]
    BY <2>1, <2>3
  <2>6. \A u \in Threads : Counting(u)' => u = t
    BY <2>3 DEF Counting
  <2>7. Counting(t)'
    BY <2>1 DEF Counting
  <2> QED BY <2>1, <2>2, <2>4, <2>5, <2>6, <2>7 DEF ExactInv
<1>5. ASSUME NEW t \in Threads, ReadCount(t) PROVE ExactInv'
  <2>1. /\ rec[t].at = "count" /\ rec'[t].at = "store" /\ rec'[t].type = rec[t].type
        /\ rec'[t].id = rec[t].id /\ rec'[t].seen = event_counts[rec[t].type]
        /\ \A u \in Threads : u # t => rec'[u] = rec[u]
        /\ UNCHANGED <<file, buffer, event_counts, last_event_id>>
    BY <1>5, ReadCountDoes DEF log
  <2>2. ASSUME NEW type \in Types PROVE ExactOf(type)'
    <3>1. Uncounted(type)' = Uncounted(type)
      BY <1>0, <2>1, UncountedSteps
    <3>2. LinesOf(type)' = LinesOf(type) /\ event_counts' = event_counts
      BY <2>1 DEF LinesOf
    <3> QED BY <3>1, <3>2 DEF ExactInv, ExactOf
  <2>3. \A u \in Threads : (Counting(u)' <=> Counting(u)) /\ rec'[u].id = rec[u].id
    BY <2>1 DEF Counting
  <2>4. \A u \in Threads : rec'[u].at = "store" => rec'[u].seen = event_counts'[rec'[u].type]
    BY <2>1 DEF ExactInv
  <2> QED BY <2>1, <2>2, <2>3, <2>4 DEF ExactInv, LastId
<1>6. ASSUME NEW t \in Threads, StoreCount(t) PROVE ExactInv'
  <2>1. /\ rec[t].at = "store" /\ rec'[t].at \in {"idle", "write"}
        /\ \A u \in Threads : u # t => rec'[u] = rec[u]
        /\ event_counts' = [event_counts EXCEPT ![rec[t].type] = rec[t].seen + 1]
        /\ last_event_id' = rec[t].id /\ file' = file /\ buffer' = buffer
    BY <1>6, StoreCountDoes DEF GoesOn
  <2>2. ASSUME NEW type \in Types PROVE ExactOf(type)'
    <3>1. Cardinality(Uncounted(type)') =
            Cardinality(Uncounted(type)) - IF type = rec[t].type THEN 1 ELSE 0
      BY <1>0, <2>1, UncountedSteps
    <3>2. Cardinality(LinesOf(type)') = Cardinality(LinesOf(type))
      BY <2>1 DEF LinesOf
    <3>3. event_counts[type] + Cardinality(Uncounted(type)) = Cardinality(LinesOf(type))
      BY DEF ExactInv, ExactOf
    <3> DEFINE U == Cardinality(Uncounted(type))
               L == Cardinality(LinesOf(type))
               ec == event_counts[type]
    <3>4. ec \in Nat /\ U \in Nat /\ L \in Nat
            /\ ec' = ec + IF type = rec[t].type THEN 1 ELSE 0
      <4>1. rec[t].seen = event_counts[rec[t].type]
        BY <2>1 DEF ExactInv
      <4>2. CASE type = rec[t].type
        BY <1>0, <2>1, <4>1, <4>2
      <4>3. CASE type # rec[t].type
        BY <1>0, <2>1, <4>3
      <4> QED BY <1>0, <4>2, <4>3
    <3>5. U' = U - (IF type = rec[t].type THEN 1 ELSE 0) /\ L' = L /\ ec + U = L
      BY <3>1, <3>2, <3>3
    <3>6. SUFFICES ec' + U' = L'
      BY DEF ExactOf
    <3> HIDE DEF U, L, ec
    <3>7. CASE type = rec[t].type
      BY <3>4, <3>5, <3>7
    <3>8. CASE type # rec[t].type
      BY <3>4, <3>5, <3>8
    <3> QED BY <3>7, <3>8
  <2>3. \A u \in Threads : u # t => rec[u].at = "idle" /\ rec'[u].at = "idle"
    BY <2>1, RecordsAlone
  <2>4. \A u \in Threads : ~Counting(u)' /\ rec'[u].at # "store"
    BY <2>1, <2>3 DEF Counting
  <2>5. file # <<>> /\ LastId = rec[t].id
    BY <2>1 DEF ExactInv, Counting
  <2> QED BY <2>1, <2>2, <2>4, <2>5 DEF ExactInv, LastId
<1>7. CASE Settles
  <2>1. UNCHANGED <<rec, event_counts, last_event_id>>
    BY <1>7, SettlesDoes
  <2>2. file' = file /\ buffer' = <<>>
    <3>1. file \o buffer = file
      BY <1>0, ConcatEmptySeq DEF ExactInv
    <3> QED BY <1>7, <3>1 DEF Settles, Finish, Interrupt, WriteFinalState, Kill, vars, log, ExactInv
  <2> QED BY <2>1, <2>2 DEF ExactInv, ExactOf, Uncounted, LinesOf, Counting, LastId
<1> QED BY <1>2, <1>3, <1>4, <1>5, <1>6, <1>7, NextIs

(* With one simulation at a time, as the wrapper scripts run it, and a disk  *)
(* that takes every line, the counts of the final state are those of the     *)
(* trace file and last_event_id names its last line (record()).              *)
THEOREM SummaryIsExact ==
  ASSUME CanFail = FALSE, OneWorker
  PROVE  Spec => []SummaryExact
<1>1. Init => ExactInv
  <2> SUFFICES ASSUME Init PROVE ExactInv
    OBVIOUS
  <2>1. /\ \A t \in Threads : rec[t].at = "idle"
        /\ buffer = <<>> /\ file = <<>>
    BY DEF Init, NoRecord
  <2>2. \A type \in Types : ExactOf(type)
    BY NoLinesNoCounts DEF ExactOf
  <2> QED BY <2>1, <2>2 DEF ExactInv, Counting
<1>2. ExactInv => SummaryExact
  BY DEF ExactInv, ExactOf, SummaryExact, Quiet, Counting, LastId
<1> QED BY <1>1, <1>2, ExactInvStep, BatchInvHolds, PTL DEF Spec
=============================================================================
