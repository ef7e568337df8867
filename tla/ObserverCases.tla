---------------------------- MODULE ObserverCases ----------------------------
(***************************************************************************)
(* What the passive write-intent observer says of a case with a ledger     *)
(* (observe_case), on the five fixtures of its smoke, and what the smoke   *)
(* asks of the answers (validate_results).                                 *)
(*                                                                         *)
(* Entities are pairs, so that "task:x" is <<"task", x>>; names, options   *)
(* and prices are strings that are only compared.                          *)
(***************************************************************************)
EXTENDS Integers, Sequences, FiniteSets, FiniteSetsExt

None == "none"
Named(names) == {<<"name", n>> : n \in names}

\* A write call: the entities it lists, the ids among its arguments, its
\* arguments by path, and the first of selected_option, assignee and status.
WriteCall(entities, ids, arguments, option) ==
    [entities |-> entities, ids |-> ids, arguments |-> arguments, option |-> option]

ArgumentEntities(call) ==
    call.entities \cup Named(call.ids) \cup {<<"task", i>> : i \in call.ids}

GetPath(arguments, path) ==
    IF path \in DOMAIN arguments THEN arguments[path] ELSE None

-----------------------------------------------------------------------------
(* The warnings.                                                           *)

\* about is what the message says beyond its code.
Warning(code, phase, severity, about) ==
    [code |-> code, phase |-> phase, severity |-> severity, about |-> about]

Penalty == [info |-> 3, low |-> 8, medium |-> 18, high |-> 30]

MismatchCode(path) ==
    IF path = "payment_method" THEN "payment_mismatch"
    ELSE IF path = "total_price" THEN "price_mismatch" ELSE "write_argument_mismatch"

MissingEntities(case, call) == case.entities \ ArgumentEntities(call)
Mismatches(case, call) ==
    {p \in DOMAIN case.expected : GetPath(call.arguments, p) # case.expected[p]}
MissingReads(case) == case.reads \ case.evidence
Unsupported(case, call) ==
    case.options # {} /\ call.option # None /\ call.option \notin case.options

When(condition, warning) == IF condition THEN {warning} ELSE {}

PreWrite(case, call) ==
    LET missing == MissingEntities(case, call)
        severity(p) == IF MismatchCode(p) = "write_argument_mismatch" THEN "medium" ELSE "high"
    IN  When(missing # {}, Warning("required_entity_missing", "pre_write_detectable",
                                   "high", missing))
          \cup {Warning(MismatchCode(p), "pre_write_detectable", severity(p), {p}) :
                  p \in Mismatches(case, call)}
          \cup When(Unsupported(case, call),
                    Warning("selected_option_unsupported", "pre_write_detectable",
                            "medium", {call.option}))

CallWarnings(case, call) ==
    PreWrite(case, call)
      \cup When(MissingReads(case) # {},
                Warning("write_before_prerequisite_read", "runtime_observable", "high",
                        MissingReads(case)))

Calls(case) == {case.calls[i] : i \in DOMAIN case.calls}

\* The warnings without repetition: two with the same code and message are one.
Warnings(case) ==
    LET ofCalls == UNION {CallWarnings(case, c) : c \in Calls(case)}
    IN  When(case.expectedWrite /\ case.calls = <<>>,
             Warning("no_write_observed", "runtime_observable", "high", {}))
          \cup ofCalls
          \cup When(\E c \in Calls(case) : PreWrite(case, c) # {},
                    Warning("requires_future_control_to_block", "requires_future_control",
                            "info", {}))
          \cup When(~case.matches,
                    Warning("post_write_state_mismatch", "post_write_only", "medium", {}))
          \cup When(case.ambiguous,
                    Warning("scoring_evaluation_ambiguity", "post_write_only", "low", {}))

\* Of a write call that has no ledger (observe_runtime_tool_dispatch).
RuntimeWarnings ==
    {Warning("runtime_candidate_without_fixture_ledger", "runtime_observable", "low", {}),
     Warning("runtime_diff_not_evaluable_without_expected_ledger", "runtime_observable",
             "info", {})}

Codes(warnings) == {w.code : w \in warnings}

\* In hundredths.
ReadinessScore(warnings) ==
    LET penalty(w) == Penalty[w.severity]
        rest == 100 - MapThenSumSet(penalty, warnings)
    IN  IF rest < 0 THEN 0 ELSE rest

-----------------------------------------------------------------------------
(* The fixtures.                                                           *)

Booking == [payment_method |-> "travel_certificate", total_price |-> "600"]
BookingReads == {"search_flights", "get_user_details"}

MissingKevin ==
    [entities |-> Named({"Kevin", "Daniel"}), expected |-> Booking, reads |-> BookingReads,
     options |-> {"option_with_kevin_and_daniel"}, evidence |-> BookingReads,
     expectedWrite |-> TRUE, matches |-> FALSE, ambiguous |-> FALSE,
     calls |-> <<WriteCall(Named({"Daniel"}), {},
                   [payment_method |-> "credit_card", total_price |-> "500"],
                   "option_daniel_only")>>,
     codes |-> {"required_entity_missing", "payment_mismatch", "price_mismatch",
                "selected_option_unsupported", "requires_future_control_to_block"}]

WrongPayment ==
    [MissingKevin EXCEPT
       !.evidence = {"get_user_details"},
       !.calls = <<WriteCall(Named({"Kevin", "Daniel"}), {},
                     [payment_method |-> "credit_card", total_price |-> "600"],
                     "option_with_kevin_and_daniel")>>,
       !.codes = {"payment_mismatch", "write_before_prerequisite_read",
                  "requires_future_control_to_block"}]

CreateTask ==
    [entities |-> {<<"task", "call_user">>},
     expected |-> [title |-> "Call user", assignee |-> "assistant"],
     reads |-> {"list_users"}, options |-> {"assistant"}, evidence |-> {"list_users"},
     expectedWrite |-> TRUE, matches |-> TRUE, ambiguous |-> FALSE,
     calls |-> <<WriteCall({<<"task", "call_user">>}, {},
                   [title |-> "Call user", assignee |-> "assistant"], "assistant")>>,
     codes |-> {}]

NoWrite ==
    [entities |-> {<<"task", "overdue_followup">>}, expected |-> [status |-> "completed"],
     reads |-> {"get_task"}, options |-> {"completed"}, evidence |-> {"get_task"},
     expectedWrite |-> TRUE, matches |-> FALSE, ambiguous |-> FALSE, calls |-> <<>>,
     codes |-> {"no_write_observed", "post_write_state_mismatch"}]

DbMismatch ==
    [NoWrite EXCEPT
       !.entities = {<<"task", "customer_callback">>},
       !.expected = [status |-> "completed", task_id |-> "customer_callback"],
       !.ambiguous = TRUE,
       !.calls = <<WriteCall({<<"task", "customer_callback">>}, {"customer_callback"},
                     [status |-> "completed", task_id |-> "customer_callback"],
                     "completed")>>,
       !.codes = {"post_write_state_mismatch", "scoring_evaluation_ambiguity"}]

FixtureCases == <<MissingKevin, WrongPayment, CreateTask, NoWrite, DbMismatch>>

-----------------------------------------------------------------------------
(* validate_results, on the answers for the fixtures that were observed and *)
(* the ledger and diff lines that are in the files.                        *)

RelevantToTask8 ==
    {"required_entity_missing", "payment_mismatch", "price_mismatch",
     "selected_option_unsupported", "write_before_prerequisite_read"}

Expected(case) == case.codes \subseteq Codes(Warnings(case))

ResultsValid(observed, runtimeLedgers, runtimeDiffs) ==
    /\ observed = Len(FixtureCases)
    /\ \A i \in 1 .. observed : Expected(FixtureCases[i])
    /\ ReadinessScore(Warnings(CreateTask)) >= 90 /\ Warnings(CreateTask) = {}
    /\ \A i \in {1, 2} : Codes(Warnings(FixtureCases[i])) \cap RelevantToTask8 # {}
    /\ runtimeLedgers # {} /\ runtimeDiffs # {}

=============================================================================
