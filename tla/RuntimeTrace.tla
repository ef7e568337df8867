---------------------------- MODULE RuntimeTrace ----------------------------
(***************************************************************************)
(* The trace-only instrumentation of a tau2 run: RuntimeTraceWriter, the   *)
(* wrappers of Tau2RuntimeTracer and the bootstrap that installs them      *)
(* (experiments/tau2_runtime_trace/runtime_trace.py, traced_tau2_cli.py).  *)
(*                                                                         *)
(* The wrapped program is a tree of calls per thread.  A wrapper records   *)
(* a start, runs the original, records an end and hands on what the        *)
(* original did.  record() is not atomic: the line is written, then the    *)
(* count of its type is read and stored in two steps between which another *)
(* thread of the batch executor may run.  A kill ends the process anywhere,*)
(* and Ctrl-C passes every wrapper without a record: they catch Exception. *)
(***************************************************************************)
EXTENDS Integers, Sequences, FiniteSets

CONSTANTS
    Main,       \* the thread of traced_tau2_cli.main
    Workers,    \* the threads of run_tasks' executor
    Hooked,     \* the calls whose hook was installed; the others are deferred
    CanFail,    \* a write to runtime_events.jsonl may fail
    MaxCalls    \* bound of the model: calls made in one process

Kinds == {"bootstrap", "batch", "persist", "simulation", "execution", "run",
          "turn", "generate", "dispatch", "tool", "evaluation"}

ASSUME RuntimeTraceAssumption ==
    /\ IsFiniteSet(Workers) /\ Main \notin Workers
    /\ Hooked \subseteq Kinds /\ "bootstrap" \in Hooked
    /\ CanFail \in BOOLEAN
    /\ MaxCalls \in Nat

Threads == Workers \cup {Main}

\* What the body of a call may call; run_domain runs one batch.
Callees(kind) ==
    CASE kind = "bootstrap"  -> {"batch"}
      [] kind = "batch"      -> {"persist"}
      [] kind = "simulation" -> {"execution"}
      [] kind = "execution"  -> {"run", "evaluation"}
      [] kind = "run"        -> {"turn", "dispatch"}
      [] kind = "turn"       -> {"generate", "dispatch"}
      [] kind = "evaluation" -> {"dispatch"}
      [] kind = "dispatch"   -> {"tool"}
      [] OTHER               -> {}

\* Environment.get_response turns an exception of the tool into a tool message.
Catches(kind) == kind = "dispatch"

Marks == {"start", "request", "observed", "end"}
Types == Kinds \X Marks
Outcomes == {"ok", "raise"}

VARIABLES
    process,        \* running; final or interrupted (the artifacts are written); dead
    stack,          \* stack[t]: the open calls of thread t
    rec,            \* rec[t]: the record() in progress in thread t
    counter,        \* _counter
    buffer,         \* lines written to the handle and not flushed
    file,           \* runtime_events.jsonl
    event_counts,
    last_event_id,
    final_counts,   \* event_counts in runtime_trace_final_state.json
    calls           \* calls made so far

log == <<buffer, file, event_counts, last_event_id>>
vars == <<process, stack, rec, counter, log, final_counts, calls>>

-----------------------------------------------------------------------------
(* Calls and records.                                                      *)

NextIdFromFile == Len(file) + 1         \* mutated: ids count the written lines
NextId == counter + 1

\* A record in progress: write, then read the count, then store it.
NoRecord == [at |-> "idle", id |-> 0, type |-> <<"bootstrap", "start">>,
             parent |-> 0, seen |-> 0]

\* A call: where its wrapper stands, the id of its start event, what the
\* original did, and what the wrapper hands on.
NewFrame(kind) ==
    [kind |-> kind, stage |-> IF kind \in Hooked THEN "start" ELSE "body",
     id |-> IF kind \in Hooked THEN NextId ELSE 0, original |-> "none", result |-> "none"]

Top(t) == stack[t][Len(stack[t])]

MarkOf(stage) == IF stage = "error_end" THEN "end" ELSE stage
Recording == {"start", "request", "observed", "end", "error_end"}

ParentLast(frame) == last_event_id      \* mutated: one parent shared by all wrappers
\* The wrappers give the id of their start as the parent of what they record
\* after it; the bootstrap records its end without one.
ParentOf(frame) ==
    IF frame.stage = "start" \/ frame.kind = "bootstrap" THEN 0 ELSE frame.id

\* Thread t goes on with the given open calls.  If the wrapper of the topmost
\* one now stands at a record(), record() begins: it takes the next id.  That
\* is one step: CPython 3.12 switches threads at calls, and there is none between
\* the increment of _counter and its use (line 257 has one, .get, in between).
Continue(t, frames) ==
    LET top == frames[Len(frames)]
    IN  /\ stack' = [stack EXCEPT ![t] = frames]
        /\ IF frames # <<>> /\ top.stage \in Recording
             THEN /\ counter' = counter + 1
                  /\ rec' = [rec EXCEPT ![t] =
                       [at |-> "write", id |-> NextId, seen |-> 0,
                        type |-> <<top.kind, MarkOf(top.stage)>>,
                        parent |-> ParentOf(top)]]
             ELSE /\ rec' = [rec EXCEPT ![t] = NoRecord]
                  /\ UNCHANGED counter

ContinueTop(t, frame) ==
    Continue(t, [stack[t] EXCEPT ![Len(stack[t])] = frame])

Running(t) == process = "running" /\ rec[t].at = "idle"
InBody(t) == stack[t] # <<>> /\ Top(t).stage = "body"
WorkersIdle == \A w \in Workers : stack[w] = <<>>

\* A worker runs simulations while the main thread waits inside run_tasks.
MayStart(t) ==
    IF t = Main THEN WorkersIdle
    ELSE rec[Main].at = "idle" /\ InBody(Main) /\ Top(Main).kind = "batch"

CallableNow(t) ==
    IF InBody(t) THEN {k \in Callees(Top(t).kind) : k = "batch" => calls = 1}
    ELSE IF stack[t] # <<>> THEN {}
    ELSE IF t # Main THEN {"simulation"}
    ELSE IF calls = 0 THEN {"bootstrap"} ELSE {}

\* A call of a hooked function enters its wrapper, which records the start.
Call(t) ==
    /\ Running(t) /\ MayStart(t)
    /\ calls < MaxCalls
    /\ \E kind \in CallableNow(t) :
         Continue(t, Append(stack[t], NewFrame(kind)))
    /\ calls' = calls + 1
    /\ UNCHANGED <<process, log, final_counts>>

-----------------------------------------------------------------------------
(* The wrappers.                                                           *)

\* Where a wrapper stands after its current record was written: a turn also
\* records the tool calls it is about to forward and the message it produced.
AfterRecordSwallow(frame) ==            \* mutated: the wrapper forgets to re-raise
    CASE frame.stage = "error_end" -> {[frame EXCEPT !.stage = "leave", !.result = "ok"]}
      [] frame.stage = "observed" -> {[frame EXCEPT !.stage = "end"]}
      [] frame.stage = "end" -> {[frame EXCEPT !.stage = "leave", !.result = "ok"]}
      [] OTHER -> {[frame EXCEPT !.stage = "body"]}

AfterRecord(frame) ==
    CASE frame.stage = "start" ->
           {[frame EXCEPT !.stage = "body"]}
             \cup {f \in {[frame EXCEPT !.stage = "request"]} : frame.kind = "turn"}
      [] frame.stage = "request"   -> {[frame EXCEPT !.stage = "body"]}
      [] frame.stage = "observed"  -> {[frame EXCEPT !.stage = "end"]}
      [] frame.stage = "end"       -> {[frame EXCEPT !.stage = "leave", !.result = "ok"]}
      [] frame.stage = "error_end" -> {[frame EXCEPT !.stage = "leave", !.result = "raise"]}

\* ... and after record() raised: the start and the requests stand before the
\* wrapper's try (the bootstrap's start inside it), the end of a good call
\* stands inside the try.  What the bootstrap hands on is its return code.
AfterFailure(frame) ==
    IF \/ frame.stage \in {"observed", "end"}
       \/ frame.kind = "bootstrap" /\ frame.stage = "start"
      THEN [frame EXCEPT !.stage = "error_end"]
      ELSE [frame EXCEPT !.stage = "leave", !.result = "raise"]

\* ... and after the original ended.
AfterBodyNoFinally(frame, outcome) ==   \* mutated: no end on the error path
    [frame EXCEPT !.original = outcome, !.result = outcome,
                  !.stage = IF outcome = "raise" \/ frame.kind \notin Hooked
                              THEN "leave" ELSE "end"]

AfterBody(frame, outcome) ==
    LET f == [frame EXCEPT !.original = outcome]
    IN  IF f.kind \notin Hooked
          THEN [f EXCEPT !.stage = "leave", !.result = outcome]
          ELSE IF outcome = "raise"
            THEN [f EXCEPT !.stage = "error_end"]
            ELSE [f EXCEPT !.stage = IF f.kind = "turn" THEN "observed" ELSE "end"]

\* run_tasks returns when its executor has been shut down with wait=True.
BodyMayEndAnytime(t) == TRUE            \* mutated: shutdown(wait=False)
BodyMayEnd(t) == t = Main => WorkersIdle

\* The original returns or raises on its own.
BodyEnds(t) ==
    /\ Running(t) /\ InBody(t) /\ BodyMayEnd(t)
    /\ \E outcome \in Outcomes : ContinueTop(t, AfterBody(Top(t), outcome))
    /\ UNCHANGED <<process, log, final_counts, calls>>

\* A finished call hands its result to its caller.  The caller of a raising
\* call raises in turn unless it catches; a worker's root is run_with_retry.
Leave(t) ==
    /\ Running(t) /\ stack[t] # <<>> /\ Top(t).stage = "leave"
    /\ LET rest == SubSeq(stack[t], 1, Len(stack[t]) - 1)
           caller == rest[Len(rest)]
       IN  IF rest = <<>> \/ Top(t).result = "ok" \/ Catches(caller.kind)
             THEN Continue(t, rest)
             ELSE Continue(t, [rest EXCEPT ![Len(rest)] = AfterBody(caller, "raise")])
    /\ UNCHANGED <<process, log, final_counts, calls>>

-----------------------------------------------------------------------------
(* record.                                                                 *)

Line(t) == [id |-> rec[t].id, type |-> rec[t].type, thread |-> t,
                parent |-> rec[t].parent]

\* The line is written and flushed, together with what an earlier failed flush
\* left in the handle's buffer.
BufferDropped(t) == <<Line(t)>>                 \* mutated: a new handle per record
BufferFirst(t) == Append(buffer, Line(t))

Write(t) ==
    /\ process = "running" /\ rec[t].at = "write"
    /\ file' = file \o BufferFirst(t)
    /\ buffer' = <<>>
    /\ rec' = [rec EXCEPT ![t].at = "count"]
    /\ UNCHANGED <<process, stack, counter, event_counts, last_event_id,
                   final_counts, calls>>

\* The write fails: the line stays in the buffer and record() raises into the
\* wrapper.
WriteFails(t) ==
    /\ process = "running" /\ rec[t].at = "write"
    /\ CanFail
    /\ buffer' = Append(buffer, Line(t))
    /\ ContinueTop(t, AfterFailure(Top(t)))
    /\ UNCHANGED <<process, file, event_counts, last_event_id, final_counts, calls>>

\* event_counts[event_type] = event_counts.get(event_type, 0) + 1, first half:
\* the call of get is a point where the interpreter may switch threads.
ReadCount(t) ==
    /\ process = "running" /\ rec[t].at = "count"
    /\ rec' = [rec EXCEPT ![t].at = "store", ![t].seen = event_counts[rec[t].type]]
    /\ UNCHANGED <<process, stack, counter, log, final_counts, calls>>

Counted(seen) == seen + 1

NewestKept(id) == last_event_id         \* mutated: last_event_id not updated
Newest(id) == id

\* ... second half, with last_event_id; the wrapper goes on.
StoreCount(t) ==
    /\ process = "running" /\ rec[t].at = "store"
    /\ event_counts' = [event_counts EXCEPT ![rec[t].type] = Counted(rec[t].seen)]
    /\ last_event_id' = Newest(rec[t].id)
    /\ \E f \in AfterRecord(Top(t)) : ContinueTop(t, f)
    /\ UNCHANGED <<process, buffer, file, final_counts, calls>>

-----------------------------------------------------------------------------
(* The process.                                                            *)

Init ==
    /\ process = "running"
    /\ stack = [t \in Threads |-> <<>>]
    /\ rec = [t \in Threads |-> NoRecord]
    /\ counter = 0 /\ buffer = <<>> /\ file = <<>>
    /\ event_counts = [type \in Types |-> 0]
    /\ last_event_id = 0
    /\ final_counts = [type \in Types |-> 0]
    /\ calls = 0

\* main's finally clause: the hooks are gone, the final state and the summary
\* are written, and the handle is closed, which flushes it once more.
WriteFinalState(how) ==
    /\ process' = how
    /\ final_counts' = event_counts
    /\ \/ file' = file \o buffer
       \/ CanFail /\ UNCHANGED file
    /\ buffer' = <<>>
    /\ UNCHANGED <<stack, rec, counter, event_counts, last_event_id, calls>>

Finish ==
    /\ Running(Main) /\ calls > 0 /\ stack[Main] = <<>>
    /\ WriteFinalState("final")

\* Ctrl-C in the main thread outside of run_tasks' own handler, a record() of
\* its own included: a KeyboardInterrupt passes every "except Exception", so no
\* end is recorded and only the finally clause runs.  While workers run, that is
\* when run_tasks already waits for them after one has raised; a worker that
\* goes on afterwards finds the handle closed.
Interrupt ==
    /\ process = "running" /\ stack[Main] # <<>>
    /\ WriteFinalState("interrupted")

\* os._exit(130) after Ctrl-C, or a kill: no finally clause runs and the buffer
\* is lost.
Kill ==
    /\ process = "running"
    /\ process' = "dead"
    /\ buffer' = <<>>
    /\ UNCHANGED <<stack, rec, counter, file, event_counts, last_event_id,
                   final_counts, calls>>

Over == process # "running" /\ UNCHANGED vars

Step(t) ==
    \/ Call(t) \/ BodyEnds(t) \/ Leave(t)
    \/ Write(t) \/ WriteFails(t) \/ ReadCount(t) \/ StoreCount(t)

Next == (\E t \in Threads : Step(t)) \/ Finish \/ Interrupt \/ Kill \/ Over

Spec == Init /\ [][Next]_vars

\* Every thread of the process gets to run, every call ends.
FairSpec == Spec /\ \A t \in Threads : WF_vars(Step(t)) /\ WF_vars(Finish)

-----------------------------------------------------------------------------
(* Properties.                                                             *)

Frame == [kind : Kinds, stage : Recording \cup {"body", "leave"}, id : Nat,
          original : Outcomes \cup {"none"}, result : Outcomes \cup {"none"}]
LineSet == [id : Nat, type : Types, thread : Threads, parent : Nat]

\* Every variable keeps its type.
TypeOK ==
    /\ process \in {"running", "final", "interrupted", "dead"}
    /\ stack \in [Threads -> Seq(Frame)]
    /\ rec \in [Threads -> [at : {"idle", "write", "count", "store"}, id : Nat,
                            type : Types, parent : Nat, seen : Nat]]
    /\ counter \in Nat
    /\ buffer \in Seq(LineSet) /\ file \in Seq(LineSet)
    /\ event_counts \in [Types -> Nat]
    /\ last_event_id \in Nat
    /\ final_counts \in [Types -> Nat]
    /\ calls \in Nat

LinesOf(type) == {i \in DOMAIN file : file[i].type = type}
Uncounted(type) ==
    {t \in Threads : rec[t].at \in {"count", "store"} /\ rec[t].type = type}
Quiet == \A t \in Threads : rec[t].at = "idle"
IsMark(i, mark) == file[i].type[2] = mark
Starts == {i \in DOMAIN file : IsMark(i, "start")}

\* Line k belongs to the call that line i starts: it names that start as its
\* parent.  The bootstrap's end names none; there is one bootstrap.
BelongsTo(k, i) ==
    IF file[k].type[1] = "bootstrap" THEN file[i].type[1] = "bootstrap"
                                     ELSE file[k].parent = file[i].id
Closes(k, i) == IsMark(k, "end") /\ IsMark(i, "start") /\ BelongsTo(k, i)
HasEnd(i) == \E k \in DOMAIN file : Closes(k, i)
IsOpen(i) ==
    LET t == file[i].thread
    IN  \E n \in DOMAIN stack[t] : stack[t][n].id = file[i].id

\* With one simulation at a time, which the wrapper scripts enforce, the counts
\* that the analysis scripts compare are those of the trace file, and last_event_id
\* names its last line.
SummaryExact ==
    /\ \A type \in Types :
         event_counts[type] + Cardinality(Uncounted(type)) = Cardinality(LinesOf(type))
    /\ Quiet /\ file # <<>> => last_event_id = file[Len(file)].id

\* With several simulation threads a count may be lost to a race, but no event
\* is ever counted that is not in the file.
CountsNeverExceed ==
    \A type \in Types :
        event_counts[type] + Cardinality(Uncounted(type)) <= Cardinality(LinesOf(type))

\* No two lines of the trace share the number in their event_id, whatever the
\* threads do: none is used again after a line that was not written (record).
UniqueIds == \A i, j \in DOMAIN file : file[i].id = file[j].id => i = j

\* Every line but a start comes after the start of its call in the same thread,
\* which it names as its parent (the bootstrap's end names none), even after
\* failed writes.
ChildAfterStart ==
    \A k \in DOMAIN file : ~IsMark(k, "start") =>
        \E i \in 1 .. k - 1 :
            /\ IsMark(i, "start") /\ BelongsTo(k, i)
            /\ file[i].type[1] = file[k].type[1] /\ file[i].thread = file[k].thread

\* The lines of one thread nest: every end belongs to an earlier start, and a
\* call that began in between has its end before it.
Bracketed ==
    \A k \in DOMAIN file : IsMark(k, "end") =>
        \E i \in 1 .. k - 1 :
            /\ Closes(k, i)
            /\ \A j \in i + 1 .. k - 1 :
                 IsMark(j, "start") /\ file[j].thread = file[i].thread =>
                     \E l \in j + 1 .. k - 1 : Closes(l, j)

\* Everything the workers record lies between the start and the end of the batch.
BatchEncloses ==
    \A i, k \in DOMAIN file : IsMark(i, "start") /\ Closes(k, i)
                                /\ file[i].type[1] = "batch" =>
        \A j \in DOMAIN file : file[j].thread \in Workers => i < j /\ j < k

Leaving(t) == stack[t] # <<>> /\ Top(t).stage = "leave"

\* A wrapper never hides an exception of the original, even when its own writes
\* fail.
RaisesPropagate ==
    \A t \in Threads : Leaving(t) /\ Top(t).original = "raise" => Top(t).result = "raise"

\* Where no write fails, a wrapper hands on exactly what the original did: it
\* adds no exception either.
NothingAdded ==
    \A t \in Threads : Leaving(t) /\ ~CanFail => Top(t).result = Top(t).original

\* However the process ends, by itself, by Ctrl-C or killed in any step, the only
\* starts in the file without an end are those of calls that it was in.
OnlyOpenLackEnds == \A i \in Starts : HasEnd(i) \/ IsOpen(i)

\* The program comes to an end.  If it was neither killed nor interrupted, every
\* recorded start has its end in the file and the counts written to the final
\* state leave no event out.
EveryStartEnds ==
    process = "running" ~>
        /\ process # "running"
        /\ process = "final" =>
             /\ \A i \in Starts : HasEnd(i)
             /\ \A type \in Types : final_counts[type] = Cardinality(LinesOf(type))
=============================================================================
