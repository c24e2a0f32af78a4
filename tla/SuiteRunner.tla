---------------------------- MODULE SuiteRunner -----------------------------
(***************************************************************************)
(* The execution of one suite: runSuite and call (main.go) with the part   *)
(* of Vars (types.go) that decides whether an argument is reported as      *)
(* unused.                                                                 *)
(*                                                                         *)
(* A value is abstracted to the set of variable names its placeholders     *)
(* mention, an expectation to one check that is met, is not met, or ends   *)
(* the process.  What the program cannot control is a choice: whether a    *)
(* template or a body file is in order, whether the server answers, which  *)
(* checks its answer meets, which of the values to remember the answer     *)
(* holds and which names these mention.                                    *)
(***************************************************************************)
EXTENDS Integers, Sequences, FiniteSets

CONSTANTS
    Var,        \* names of arguments and remembered values
    Cases       \* the cases of the suite, in file order

Arg == [name : Var, refs : SUBSET Var]

\* content, on and expect are the names mentioned by the templates of the
\* request's body, of its URL, headers and parameters, and of the expectations;
\* checks is the number of expectations, body and headers the names to remember
\* from either; below says whether a path of the expectations, or one to remember,
\* has an index below zero.
Call == [args : SUBSET Arg, content : SUBSET Var, on : SUBSET Var, expect : SUBSET Var,
         checks : Nat, body : SUBSET Var, headers : SUBSET Var,
         below : SUBSET {"check", "remember"}]

Names(args) == {a.name : a \in args}

\* No name twice in a JSON object; and arguments refer to arguments of the same
\* object only if these refer to none, so that the order of a Go map's iteration
\* makes no difference.
Simple(args) ==
    /\ \A a, b \in args : a.name = b.name => a = b
    /\ \A a, b \in args : a.name \in b.refs => a.refs = {}

TestCase == [ignored : BOOLEAN, args : SUBSET Arg, calls : Seq(Call)]

ASSUME CasesAssumption == Cases \in Seq(TestCase)
ASSUME ArgsAssumption ==
    \A c \in 1 .. Len(Cases) :
        /\ Simple(Cases[c].args)
        /\ \A i \in 1 .. Len(Cases[c].calls) : Simple(Cases[c].calls[i].args)

VARIABLES
    pc,         \* "case", "call", "body", "request", "exchange", "expect",
                \* "schemas", "check", "unused", "done" or "panicked"
    ci,         \* the case being run, 0 before the first
    k,          \* the call being run, 0 before the first
    items,      \* the user-defined keys of Vars.items
    used,       \* Vars.used
    argsErr,    \* callArgsErr # nil
    met,        \* checks of this call met so far
    traces,     \* result.Traces
    results,    \* the results of the cases finished so far
    sent,       \* the requests sent so far, as <<case, call>>
    echoed      \* the names mentioned by texts remembered so far, as <<case, name>>

varsVars == <<items, used, echoed>>
vars == <<pc, ci, k, items, used, argsErr, met, traces, results, sent, echoed>>

case == Cases[ci]
call == case.calls[k]

Trace(err) == [call |-> k, err |-> err, met |-> met]
Skipped(c) == [case |-> c, skipped |-> TRUE, traces |-> << >>]

Init ==
    /\ pc = "case" /\ ci = 0 /\ k = 0
    /\ items = {} /\ used = {} /\ argsErr = FALSE
    /\ met = 0
    /\ traces = << >> /\ results = << >> /\ sent = << >>
    /\ echoed = {}

-----------------------------------------------------------------------------
(* Vars *)

RefsOf(args) == UNION {a.refs : a \in args}

Echoed(c) == {v \in Var : <<c, v>> \in echoed}

\* The names that the values of the current variables may mention: those the
\* arguments so far refer to, and those of remembered texts.  A placeholder of
\* a name that does not exist stays in the value.
Nested ==
    RefsOf(case.args) \cup Echoed(ci) \cup (UNION {RefsOf(case.calls[i].args) : i \in 1 .. k})

\* The names marked when a text that mentions refs is evaluated: ApplyTo marks a
\* name when it replaces its placeholder by another text.  The value put in may
\* bring in placeholders, or hold the placeholder it replaces.
MarkedBy(refs, known, nested) ==
    IF refs \cap known = {} THEN {{}}
    ELSE {m \in SUBSET ((refs \cup nested) \cap known) : (refs \cap known) \ nested \subseteq m}

\* AddAll adds every argument, after those it refers to.  An argument that
\* cannot be evaluated ends it, with any part of the others added and used.
AddAll(old, oldUsed, args, nested, failed) ==
    IF failed
    THEN /\ args # {}
         /\ \E added \in SUBSET Names(args) : items' = old \cup added
         /\ \E all \in MarkedBy(RefsOf(args), items', nested) :
                \E m \in SUBSET all : used' = oldUsed \cup m
    ELSE /\ items' = old \cup Names(args)
         /\ \E m \in MarkedBy(RefsOf(args), items', nested) : used' = oldUsed \cup m

\* NewVars: no user-defined item.
SameVars == items
NewVars == {}

UnusedForgotten == {}
Unused == items \ used

-----------------------------------------------------------------------------
(* runSuite *)

ResultsAfterSkip == Append(results, Skipped(ci + 1))

SkipCase ==
    /\ pc = "case" /\ ci < Len(Cases) /\ Cases[ci + 1].ignored
    /\ ci' = ci + 1
    /\ results' = ResultsAfterSkip
    /\ UNCHANGED <<pc, k, varsVars, argsErr, met, traces, sent>>

StartCase ==
    /\ pc = "case" /\ ci < Len(Cases) /\ ~Cases[ci + 1].ignored
    /\ ci' = ci + 1 /\ k' = 0
    /\ \E failed \in BOOLEAN :
          /\ argsErr' = failed
          /\ AddAll(NewVars, {}, Cases[ci + 1].args, {}, failed)
    /\ traces' = << >>
    /\ pc' = "call"
    /\ UNCHANGED <<met, results, sent, echoed>>

\* The loop over the calls ends when a trace has an error.
AfterAnyTrace(err) == "call"
AfterTrace(err) == IF err = "none" THEN "call" ELSE "unused"

EndCall(err) ==
    /\ traces' = Append(traces, Trace(err))
    /\ pc' = AfterTrace(err)

\* The arguments of the case, then those of the call.
StartCall ==
    /\ pc = "call" /\ k < Len(case.calls)
    /\ k' = k + 1 /\ met' = 0
    /\ \/ /\ argsErr
          /\ traces' = Append(traces, [call |-> k', err |-> "args", met |-> 0])
          /\ pc' = "unused"
          /\ UNCHANGED varsVars
       \/ /\ ~argsErr
          /\ AddAll(items, used, case.calls[k'].args, Nested, FALSE)
          /\ pc' = "body"
          /\ UNCHANGED traces
       \/ /\ ~argsErr
          /\ AddAll(items, used, case.calls[k'].args, Nested, TRUE)
          /\ traces' = Append(traces, [call |-> k', err |-> "args", met |-> 0])
          /\ pc' = "unused"
    /\ UNCHANGED <<ci, argsErr, results, sent, echoed>>

NoMoreCalls ==
    /\ pc = "call" /\ k = Len(case.calls)
    /\ pc' = "unused"
    /\ UNCHANGED <<ci, k, varsVars, argsErr, met, traces, results, sent>>

\* Unused arguments are an error of the last trace, unless it has one.
WithUnused ==
    IF Unused # {} /\ traces[Len(traces)].err = "none"
    THEN [traces EXCEPT ![Len(traces)].err = "unused"]
    ELSE traces

EndCase ==
    /\ pc = "unused"
    /\ ~(Unused # {} /\ traces = << >>)
    /\ results' = Append(results, [case |-> ci, skipped |-> FALSE, traces |-> WithUnused])
    /\ pc' = "case"
    /\ UNCHANGED <<ci, k, varsVars, argsErr, met, traces, sent>>

\* traces[len(traces)-1] of no traces: a run-time panic.
PanicWithoutTraces ==
    /\ pc = "unused" /\ Unused # {} /\ traces = << >>
    /\ pc' = "panicked"
    /\ UNCHANGED <<ci, k, varsVars, argsErr, met, traces, results, sent>>

Return ==
    /\ pc = "case" /\ ci = Len(Cases)
    /\ pc' = "done"
    /\ UNCHANGED <<ci, k, varsVars, argsErr, met, traces, results, sent>>

-----------------------------------------------------------------------------
(* call *)

\* A TemplateContext evaluates templates that mention these names: they are
\* used, or one of the templates has an error.
ApplyTemplates(refs, next, err) ==
    \E all \in MarkedBy(refs, items, Nested) :
        \/ used' = used \cup all /\ pc' = next /\ UNCHANGED traces
        \/ /\ \E m \in SUBSET all : used' = used \cup m
           /\ EndCall(err)

\* The body of the request, given in place or read from a file.
BodyContent ==
    /\ pc = "body"
    /\ ApplyTemplates(call.content, "request", "body")
    /\ UNCHANGED <<ci, k, items, echoed, argsErr, met, results, sent>>

\* The URL, the headers and the parameters; on failure no request is made.
PopulateRequest ==
    /\ pc = "request"
    /\ ApplyTemplates(call.on, "exchange", "request")
    /\ UNCHANGED <<ci, k, items, echoed, argsErr, met, results, sent>>

\* client.Do and the reading of the response's body.
Exchange ==
    /\ pc = "exchange"
    /\ sent' = Append(sent, <<ci, k>>)
    /\ \/ pc' = "expect" /\ UNCHANGED traces
       \/ EndCall("exchange")
    /\ UNCHANGED <<ci, k, varsVars, argsErr, met, results>>

\* The templates of the expectations.
PopulateWith ==
    /\ pc = "expect"
    /\ ApplyTemplates(call.expect, "schemas", "expect")
    /\ UNCHANGED <<ci, k, items, echoed, argsErr, met, results, sent>>

\* The list of checks; a schema it needs may not load.
Expectations ==
    /\ pc = "schemas"
    /\ \/ pc' = "check" /\ UNCHANGED traces
       \/ EndCall("schema")
    /\ UNCHANGED <<ci, k, varsVars, argsErr, met, results, sent>>

ChecksLeftButOne == met + 1 < call.checks
ChecksLeft == met < call.checks

Check ==
    /\ pc = "check" /\ ChecksLeft
    /\ \/ met' = met + 1 /\ UNCHANGED <<pc, traces>>
       \/ EndCall("check") /\ UNCHANGED met
    /\ UNCHANGED <<ci, k, varsVars, argsErr, results, sent>>

\* Vars.Add evaluates a remembered text like any other, with what the response
\* put into it: it marks arguments that no template mentions.
Remember(found) ==
    /\ items' = items \cup found
    /\ \E named \in SUBSET Var :
          /\ found = {} => named = {}
          /\ echoed' = echoed \cup ({ci} \X named)
          /\ \E all \in MarkedBy(named, items', Nested) :
                \E m \in SUBSET all : used' = used \cup m

\* rememberBody stops at the first path the body does not have; rememberHeaders
\* passes over a header the response does not have.
RememberAll ==
    /\ pc = "check" /\ ~ChecksLeft
    /\ \/ /\ \E found \in SUBSET call.headers : Remember(call.body \cup found)
          /\ EndCall("none")
       \/ /\ \E found \in SUBSET call.body : found # call.body /\ Remember(found)
          /\ EndCall("remember")
    /\ UNCHANGED <<ci, k, argsErr, met, results, sent>>

\* The index of a path that is below zero, of an expectation or of a value to
\* remember, is an index of the slice: a run-time panic.
PanicAtPath ==
    /\ pc = "check"
    /\ \/ ChecksLeft /\ "check" \in call.below
       \/ ~ChecksLeft /\ call.body # {} /\ "remember" \in call.below
    /\ pc' = "panicked"
    /\ UNCHANGED <<ci, k, varsVars, argsErr, met, traces, results, sent>>

-----------------------------------------------------------------------------

Over == pc \in {"done", "panicked"} /\ UNCHANGED vars

Next ==
    \/ SkipCase \/ StartCase \/ StartCall \/ NoMoreCalls \/ EndCase \/ PanicWithoutTraces
    \/ Return \/ BodyContent \/ PopulateRequest \/ Exchange \/ PopulateWith \/ Expectations
    \/ Check \/ RememberAll \/ PanicAtPath \/ Over

Spec == Init /\ [][Next]_vars

-----------------------------------------------------------------------------
(* Properties *)

Error == {"none", "args", "body", "request", "exchange", "expect", "schema", "check",
          "remember", "unused"}
TraceRecord == [call : Nat, err : Error, met : Nat]
ResultRecord == [case : 1 .. Len(Cases), skipped : BOOLEAN, traces : Seq(TraceRecord)]

\* Every variable stays in its range: the indices within the suite, the checks
\* met within those of the call, and only variables that exist are used.
TypeOK ==
    /\ pc \in {"case", "call", "body", "request", "exchange", "expect", "schemas", "check",
              "unused", "done", "panicked"}
    /\ ci \in 0 .. Len(Cases)
    /\ pc \notin {"case", "done"} => ci # 0 /\ k \in 0 .. Len(case.calls)
    /\ pc \in {"body", "request", "exchange", "expect", "schemas", "check"} =>
           k # 0 /\ met \in 0 .. call.checks
    /\ used \subseteq items /\ items \subseteq Var
    /\ argsErr \in BOOLEAN
    /\ traces \in Seq(TraceRecord)
    /\ results \in Seq(ResultRecord)
    /\ sent \in Seq((1 .. Len(Cases)) \X Nat)
    /\ echoed \subseteq (1 .. Len(Cases)) \X Var

Errors(r) == {i \in 1 .. Len(r.traces) : r.traces[i].err # "none"}
Passed(r) == ~r.skipped /\ Errors(r) = {}
Sent == {sent[n] : n \in 1 .. Len(sent)}
Introduced(cl) == Names(cl.args) \cup cl.body \cup cl.headers
Declared(c, n) ==
    Names(Cases[c].args) \cup (UNION {Introduced(Cases[c].calls[i]) : i \in 1 .. n})
Declares(c) ==
    Names(Cases[c].args)
        \cup (UNION {Names(Cases[c].calls[i].args) : i \in 1 .. Len(Cases[c].calls)})
MentionedBy(cl) == RefsOf(cl.args) \cup cl.content \cup cl.on \cup cl.expect
Mentioned(c) ==
    RefsOf(Cases[c].args)
        \cup (UNION {MentionedBy(Cases[c].calls[i]) : i \in 1 .. Len(Cases[c].calls)})

\* A case passes only if each of its calls was made, in order, with every
\* expectation of it checked and met, and if every argument it declares is
\* mentioned by one of its templates or by a text that a response to the case put
\* into a remembered variable.
NoFalsePass ==
    \A i \in 1 .. Len(results) :
        LET r == results[i]
            calls == Cases[r.case].calls
        IN Passed(r) /\ calls # << >> =>
               /\ Len(r.traces) = Len(calls)
               /\ \A j \in 1 .. Len(calls) : /\ r.traces[j].call = j
                                             /\ r.traces[j].met = calls[j].checks
                                             /\ <<r.case, j>> \in Sent
               /\ Declares(r.case) \subseteq Mentioned(r.case) \cup Echoed(r.case)

\* A failed case has one error, of its last trace: Error(), the console and the
\* "On Call #" of the JUnit report speak of the same call.
ErrorIsLast ==
    \A i \in 1 .. Len(results) :
        Errors(results[i]) \in {{}, {Len(results[i].traces)}}

\* The results are one per case and in the order of the file, skipped exactly
\* for the ignored cases: what ParallelRun assumes of Outcomes.
OneResultPerCase ==
    /\ \A i \in 1 .. Len(results) : /\ results[i].case = i
                                    /\ results[i].skipped = Cases[i].ignored
    /\ pc = "done" => Len(results) = Len(Cases)

\* No variable of an earlier case is known in a later one: the user-defined
\* variables are declared, or remembered, by the calls made so far.
InCase == pc \notin {"case", "done", "panicked"}
Isolation ==
    InCase => items \subseteq Declared(ci, k)

\* A request is never sent twice, nor out of order, nor after a call of the
\* same case has failed: the error stops the case, not the suite.
NoRequestAfterError ==
    [][sent' # sent =>
          /\ sent' = Append(sent, <<ci, k>>)
          /\ \A n \in 1 .. Len(sent) :
                 sent[n][1] < ci \/ (sent[n][1] = ci /\ sent[n][2] < k)
          /\ \A j \in 1 .. Len(traces) : traces[j].err = "none"]_vars

\* "Duplicated or unused argements are reported as test failure"
\* (README.md:286).  Unused arguments end in a report, not in a panic.
UnusedReported == pc # "panicked"

VerdictOf(r) ==
    IF r.skipped THEN "skipped" ELSE IF Errors(r) = {} THEN "passed" ELSE "failed"

Remembers(c) == \E i \in 1 .. Len(Cases[c].calls) :
                    Cases[c].calls[i].body \cup Cases[c].calls[i].headers # {}

\* What the execution of a suite promises (SuiteContract): a case with calls that
\* remembers nothing passes only if its templates mention all it declares, and
\* the process ends only at a case with arguments and no calls, or with a path
\* that has an index below zero.
Contract == INSTANCE SuiteContract WITH
    Count <- Len(Cases),
    Ignored <- {c \in 1 .. Len(Cases) : Cases[c].ignored},
    MayPass <- {c \in 1 .. Len(Cases) : \/ Cases[c].calls = << >>
                                       \/ Remembers(c)
                                       \/ Declares(c) \subseteq Mentioned(c)},
    MayPanic <- {c \in 1 .. Len(Cases) :
                    \/ Cases[c].calls = << >> /\ Cases[c].args # {}
                    \/ \E i \in 1 .. Len(Cases[c].calls) : Cases[c].calls[i].below # {}},
    verdicts <- [i \in 1 .. Len(results) |-> VerdictOf(results[i])],
    ending <- CASE pc = "panicked" -> "panicked"
                [] pc = "done" -> "returned"
                [] OTHER -> "none"

ImplementsContract == Contract!Spec

=============================================================================
