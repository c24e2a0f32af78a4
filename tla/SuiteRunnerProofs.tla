------------------------- MODULE SuiteRunnerProofs --------------------------
(***************************************************************************)
(* Proofs about SuiteRunner, for any suite: TypeOK, OneResultPerCase,      *)
(* ErrorIsLast, Isolation, NoRequestAfterError, NoFalsePass, and that the  *)
(* execution implements SuiteContract.                                     *)
(***************************************************************************)
EXTENDS SuiteRunner, SequenceTheorems, TLAPS

InCall == pc \in {"body", "request", "exchange", "expect", "schemas", "check"}

-----------------------------------------------------------------------------
(* Lemmas about the operators *)

\* What the assumptions say of one case of the suite and of one of its calls.
LEMMA CaseFacts ==
    ASSUME NEW c \in 1 .. Len(Cases)
    PROVE  /\ Cases[c] \in TestCase
           /\ Cases[c].ignored \in BOOLEAN
           /\ Cases[c].args \in SUBSET Arg
           /\ Cases[c].calls \in Seq(Call)
           /\ Len(Cases[c].calls) \in Nat
<1>1. Cases[c] \in TestCase
    BY CasesAssumption
<1>. QED
    BY <1>1 DEF TestCase

LEMMA CallFacts ==
    ASSUME NEW c \in 1 .. Len(Cases), NEW j \in 1 .. Len(Cases[c].calls)
    PROVE  /\ Cases[c].calls[j] \in Call
           /\ Cases[c].calls[j].args \in SUBSET Arg
           /\ Cases[c].calls[j].checks \in Nat
           /\ Cases[c].calls[j].body \in SUBSET Var
           /\ Cases[c].calls[j].headers \in SUBSET Var
<1>1. Cases[c].calls[j] \in Call
    BY CaseFacts
<1>. QED
    BY <1>1 DEF Call

\* Only names that exist are marked, and only those a text mentions itself or
\* through the values put into it.
LEMMA MarkedFacts ==
    ASSUME NEW refs, NEW known, NEW nested, NEW m \in MarkedBy(refs, known, nested)
    PROVE  m \subseteq known /\ m \subseteq refs \cup nested
BY DEF MarkedBy

\* AddAll adds names of the arguments, all of them unless it fails, and marks
\* only names that exist and that an argument or an earlier value mentions.
LEMMA AddAllFacts ==
    ASSUME NEW old \in SUBSET Var, NEW oldUsed \in SUBSET old,
           NEW args \in SUBSET Arg, NEW nested, NEW failed \in BOOLEAN,
           AddAll(old, oldUsed, args, nested, failed)
    PROVE  /\ items' \subseteq Var /\ used' \subseteq items'
           /\ old \subseteq items' /\ items' \subseteq old \cup Names(args)
           /\ used' \subseteq oldUsed \cup RefsOf(args) \cup nested
           /\ ~failed => items' = old \cup Names(args)
<1>1. Names(args) \subseteq Var
    BY DEF Names, Arg
<1>2. /\ old \subseteq items' /\ items' \subseteq old \cup Names(args)
      /\ ~failed => items' = old \cup Names(args)
    BY DEF AddAll
<1>3. PICK all \in MarkedBy(RefsOf(args), items', nested) :
          \E m \in SUBSET all : used' = oldUsed \cup m
    BY DEF AddAll
<1>4. all \subseteq items' /\ all \subseteq RefsOf(args) \cup nested
    BY <1>3, MarkedFacts
<1>. QED
    BY <1>1, <1>2, <1>3, <1>4

\* The traces after a call that ends at k.
LEMMA EndCallFacts ==
    ASSUME NEW err \in Error, EndCall(err), traces \in Seq(TraceRecord), k \in Nat, met \in Nat
    PROVE  /\ traces' = Append(traces, Trace(err))
           /\ Trace(err) \in TraceRecord
           /\ traces' \in Seq(TraceRecord)
           /\ pc' = IF err = "none" THEN "call" ELSE "unused"
<1>1. Trace(err) \in TraceRecord
    BY DEF Trace, TraceRecord
<1>2. traces' = Append(traces, Trace(err)) /\ pc' = IF err = "none" THEN "call" ELSE "unused"
    BY DEF EndCall, AfterTrace
<1>. QED
    BY <1>1, <1>2

\* The same at the start of a case.
LEMMA AddAllToNewVars ==
    ASSUME NEW args \in SUBSET Arg, NEW failed \in BOOLEAN, AddAll({}, {}, args, {}, failed)
    PROVE  /\ items' \subseteq Names(args) /\ used' \subseteq RefsOf(args)
           /\ ~failed => items' = Names(args)
<1>1. items' \subseteq Names(args) /\ (~failed => items' = Names(args))
    BY DEF AddAll
<1>2. PICK all \in MarkedBy(RefsOf(args), items', {}) : \E m \in SUBSET all : used' = {} \cup m
    BY DEF AddAll
<1>3. all \subseteq RefsOf(args) \cup {}
    BY MarkedFacts
<1>. QED
    BY <1>1, <1>2, <1>3

-----------------------------------------------------------------------------
(* Type correctness *)

LEMMA TypeInit == Init => TypeOK
<1>. SUFFICES ASSUME Init PROVE TypeOK
    OBVIOUS
<1>1. Len(Cases) \in Nat
    BY CasesAssumption
<1>2. /\ << >> \in Seq(TraceRecord) /\ << >> \in Seq(ResultRecord)
      /\ << >> \in Seq((1 .. Len(Cases)) \X Nat)
    BY EmptySeq
<1>3. /\ traces \in Seq(TraceRecord) /\ results \in Seq(ResultRecord)
      /\ sent \in Seq((1 .. Len(Cases)) \X Nat)
    BY <1>2 DEF Init
<1>4. pc = "case" /\ ci \in 0 .. Len(Cases)
    BY <1>1 DEF Init
<1>5. used \subseteq items /\ items \subseteq Var
    BY DEF Init
<1>6. argsErr \in BOOLEAN /\ echoed = {}
    BY DEF Init
<1>. QED
    BY <1>3, <1>4, <1>5, <1>6 DEF TypeOK

LEMMA TypeStep == TypeOK /\ [Next]_vars => TypeOK'
<1>. SUFFICES ASSUME TypeOK, [Next]_vars PROVE TypeOK'
    OBVIOUS
<1>0. Len(Cases) \in Nat
    BY CasesAssumption
<1>a. ASSUME InCase
      PROVE  /\ ci \in 1 .. Len(Cases) /\ k \in 0 .. Len(case.calls)
             /\ Len(case.calls) \in Nat
  <2>1. ci \in 1 .. Len(Cases)
      BY <1>0, <1>a DEF TypeOK, InCase
  <2>. QED
      BY <2>1, <1>a, CaseFacts DEF TypeOK, InCase, case
<1>b. ASSUME InCall
      PROVE  /\ ci \in 1 .. Len(Cases) /\ k \in 1 .. Len(case.calls)
             /\ call.checks \in Nat /\ met \in 0 .. call.checks
             /\ call.body \subseteq Var /\ call.headers \subseteq Var
  <2>1. ci \in 1 .. Len(Cases) /\ k \in 1 .. Len(case.calls)
      BY <1>a, <1>b DEF InCase, InCall, TypeOK
  <2>. QED
      BY <2>1, <1>b, CallFacts DEF InCall, TypeOK, case, call
<1>1. CASE SkipCase
  <2>1. ci' \in 1 .. Len(Cases) /\ ci' = ci + 1
      BY <1>0, <1>1 DEF SkipCase, TypeOK
  <2>2. Skipped(ci + 1) \in ResultRecord
      BY <2>1 DEF Skipped, ResultRecord
  <2>3. results' \in Seq(ResultRecord)
      BY <2>2, <1>1 DEF SkipCase, ResultsAfterSkip, TypeOK
  <2>. QED
      BY <2>1, <2>3, <1>1 DEF SkipCase, TypeOK, varsVars
<1>2. CASE StartCase
  <2>1. ci' \in 1 .. Len(Cases) /\ ci' = ci + 1 /\ k' = 0
      BY <1>0, <1>2 DEF StartCase, TypeOK
  <2>2. case'.calls = Cases[ci'].calls /\ Len(Cases[ci'].calls) \in Nat
      BY <2>1, CaseFacts DEF case
  <2>3. PICK failed \in BOOLEAN :
            argsErr' = failed /\ AddAll({}, {}, Cases[ci'].args, {}, failed)
      BY <2>1, <1>2 DEF StartCase, NewVars
  <2>4. used' \subseteq items' /\ items' \subseteq Var
      BY <2>1, <2>3, CaseFacts, AddAllFacts
  <2>. QED
      BY <2>1, <2>2, <2>3, <2>4, <1>2 DEF StartCase, TypeOK
<1>3. CASE StartCall
  <2>1. InCase /\ k < Len(case.calls) /\ k' = k + 1 /\ ci' = ci /\ met' = 0
      BY <1>3 DEF StartCall, InCase
  <2>2. /\ ci \in 1 .. Len(Cases) /\ k' \in 1 .. Len(case.calls) /\ case' = case
        /\ Len(case.calls) \in Nat /\ case = Cases[ci]
      BY <2>1, <1>a DEF case
  <2>3. case.calls[k'].args \in SUBSET Arg /\ call'.checks \in Nat
      BY <2>2, CallFacts DEF call
  <2>4. used' \subseteq items' /\ items' \subseteq Var
    <3>1. CASE UNCHANGED varsVars
        BY <3>1 DEF varsVars, TypeOK
    <3>2. CASE \E failed \in BOOLEAN : AddAll(items, used, case.calls[k'].args, Nested, failed)
        BY <3>2, <2>3, AddAllFacts DEF TypeOK
    <3>. QED
        BY <3>1, <3>2, <1>3 DEF StartCall
  <2>5. [call |-> k', err |-> "args", met |-> 0] \in TraceRecord
      BY <2>2 DEF TraceRecord, Error
  <2>6. traces' \in Seq(TraceRecord) /\ pc' \in {"unused", "body"}
    <3>1. Append(traces, [call |-> k', err |-> "args", met |-> 0]) \in Seq(TraceRecord)
        BY <2>5, AppendProperties DEF TypeOK
    <3>2. traces \in Seq(TraceRecord)
        BY DEF TypeOK
    <3>. QED
        BY <3>1, <3>2, <1>3 DEF StartCall
  <2>. QED
      BY <2>1, <2>2, <2>3, <2>4, <2>6, <1>3 DEF StartCall, TypeOK
<1>4. CASE NoMoreCalls
    BY <1>4, <1>a DEF NoMoreCalls, TypeOK, InCase, case, varsVars
<1>5. CASE EndCase
  <2>1. WithUnused \in Seq(TraceRecord)
    <3>1. CASE traces = << >>
        BY <3>1, <1>5 DEF EndCase, WithUnused, TypeOK
    <3>2. CASE traces # << >>
      <4>1. Len(traces) \in 1 .. Len(traces) /\ traces[Len(traces)] \in TraceRecord
          BY <3>2 DEF TypeOK
      <4>2. [traces[Len(traces)] EXCEPT !.err = "unused"] \in TraceRecord
          BY <4>1 DEF TraceRecord, Error
      <4>. QED
          BY <4>1, <4>2 DEF WithUnused, TypeOK
    <3>. QED
        BY <3>1, <3>2
  <2>2. [case |-> ci, skipped |-> FALSE, traces |-> WithUnused] \in ResultRecord
      BY <2>1, <1>5, <1>a DEF EndCase, InCase, ResultRecord
  <2>3. results' \in Seq(ResultRecord)
      BY <2>2, <1>5 DEF EndCase, TypeOK
  <2>. QED
      BY <2>3, <1>5 DEF EndCase, TypeOK, varsVars
<1>6. CASE PanicWithoutTraces \/ PanicAtPath
    BY <1>6, <1>a DEF PanicWithoutTraces, PanicAtPath, TypeOK, InCase, varsVars, case, call
<1>7. CASE Return
    BY <1>7 DEF Return, TypeOK, varsVars
<1>8. ASSUME InCall, traces' \in Seq(TraceRecord),
             used' \subseteq items', items' \subseteq Var,
             pc' \in {"call", "request", "exchange", "expect", "schemas", "check", "unused"},
             echoed' \subseteq (1 .. Len(Cases)) \X Var,
             UNCHANGED <<ci, k, argsErr, results>>, met' \in 0 .. call.checks,
             sent' \in Seq((1 .. Len(Cases)) \X Nat)
      PROVE  TypeOK'
    BY <1>8, <1>b DEF TypeOK, case, call
<1>9. ASSUME NEW refs, NEW next \in {"request", "exchange", "schemas"}, NEW err \in Error,
             InCall, ApplyTemplates(refs, next, err),
             UNCHANGED <<ci, k, items, echoed, argsErr, met, results, sent>>
      PROVE  TypeOK'
  <2>1. traces' \in Seq(TraceRecord) /\ pc' \in {"call", next, "unused"}
    <3>1. CASE EndCall(err)
        BY <3>1, <1>9, <1>b, EndCallFacts DEF TypeOK
    <3>2. CASE pc' = next /\ UNCHANGED traces
        BY <3>2 DEF TypeOK
    <3>. QED
        BY <3>1, <3>2, <1>9 DEF ApplyTemplates
  <2>2. used' \subseteq items' /\ items' \subseteq Var
    <3>1. PICK all \in MarkedBy(refs, items, Nested) : \E m \in SUBSET all : used' = used \cup m
        BY <1>9 DEF ApplyTemplates
    <3>. QED
        BY <3>1, <1>9, MarkedFacts DEF TypeOK
  <2>. QED
      BY <1>8, <2>1, <2>2, <1>9, <1>b DEF TypeOK
<1>10. CASE Exchange
  <2>1. InCall
      BY <1>10 DEF Exchange, InCall
  <2>2. traces' \in Seq(TraceRecord) /\ pc' \in {"call", "expect", "unused"}
    <3>1. CASE EndCall("exchange")
        BY <3>1, <2>1, <1>b, EndCallFacts DEF TypeOK, Error
    <3>2. CASE pc' = "expect" /\ UNCHANGED traces
        BY <3>2 DEF TypeOK
    <3>. QED
        BY <3>1, <3>2, <1>10 DEF Exchange
  <2>3. <<ci, k>> \in (1 .. Len(Cases)) \X Nat
      BY <2>1, <1>b
  <2>4. sent' \in Seq((1 .. Len(Cases)) \X Nat)
      BY <2>3, <1>10 DEF Exchange, TypeOK
  <2>. QED
      BY <1>8, <2>1, <2>2, <2>4, <1>10, <1>b DEF Exchange, TypeOK, varsVars
<1>11. CASE Expectations
  <2>1. InCall
      BY <1>11 DEF Expectations, InCall
  <2>2. traces' \in Seq(TraceRecord) /\ pc' \in {"call", "check", "unused"}
    <3>1. CASE EndCall("schema")
        BY <3>1, <2>1, <1>b, EndCallFacts DEF TypeOK, Error
    <3>2. CASE pc' = "check" /\ UNCHANGED traces
        BY <3>2 DEF TypeOK
    <3>. QED
        BY <3>1, <3>2, <1>11 DEF Expectations
  <2>. QED
      BY <1>8, <2>1, <2>2, <1>11, <1>b DEF Expectations, TypeOK, varsVars
<1>12. CASE Check
  <2>1. InCall
      BY <1>12 DEF Check, InCall
  <2>2. traces' \in Seq(TraceRecord) /\ pc' \in {"call", "check", "unused"}
    <3>1. CASE EndCall("check")
        BY <3>1, <2>1, <1>b, EndCallFacts DEF TypeOK, Error
    <3>2. CASE UNCHANGED <<pc, traces>>
        BY <3>2, <1>12 DEF TypeOK, Check
    <3>. QED
        BY <3>1, <3>2, <1>12 DEF Check
  <2>3. met' \in 0 .. call.checks
      BY <2>1, <1>12, <1>b DEF Check, ChecksLeft
  <2>. QED
      BY <1>8, <2>1, <2>2, <2>3, <1>12 DEF Check, TypeOK, varsVars
<1>13. CASE RememberAll
  <2>1. InCall
      BY <1>13 DEF RememberAll, InCall
  <2>2. traces' \in Seq(TraceRecord) /\ pc' \in {"call", "unused"}
    <3>1. CASE EndCall("none")
        BY <3>1, <2>1, <1>b, EndCallFacts DEF TypeOK, Error
    <3>2. CASE EndCall("remember")
        BY <3>2, <2>1, <1>b, EndCallFacts DEF TypeOK, Error
    <3>. QED
        BY <3>1, <3>2, <1>13 DEF RememberAll
  <2>3. used' \subseteq items' /\ items' \subseteq Var /\ echoed' \subseteq (1 .. Len(Cases)) \X Var
    <3>1. PICK found \in SUBSET (call.body \cup call.headers) : Remember(found)
        BY <1>13 DEF RememberAll
    <3>2. items' = items \cup found /\ items' \subseteq Var
        BY <2>1, <1>b, <3>1 DEF Remember, TypeOK
    <3>3. PICK named \in SUBSET Var :
              /\ echoed' = echoed \cup ({ci} \X named)
              /\ \E all \in MarkedBy(named, items', Nested) :
                     \E m \in SUBSET all : used' = used \cup m
        BY <3>1 DEF Remember
    <3>4. used' \subseteq items'
        BY <3>2, <3>3, MarkedFacts DEF TypeOK
    <3>5. echoed' \subseteq (1 .. Len(Cases)) \X Var
        BY <2>1, <1>b, <3>3 DEF TypeOK
    <3>. QED
        BY <3>2, <3>4, <3>5
  <2>. QED
      BY <1>8, <2>1, <2>2, <2>3, <1>13, <1>b DEF RememberAll, TypeOK
<1>14. CASE BodyContent
    BY <1>9, <1>14 DEF BodyContent, InCall, Error
<1>15. CASE PopulateRequest
    BY <1>9, <1>15 DEF PopulateRequest, InCall, Error
<1>16. CASE PopulateWith
    BY <1>9, <1>16 DEF PopulateWith, InCall, Error
<1>17. CASE UNCHANGED vars
    BY <1>17 DEF vars, varsVars, TypeOK, case, call
<1>. QED
    BY <1>1, <1>2, <1>3, <1>4, <1>5, <1>6, <1>7, <1>10, <1>11, <1>12, <1>13, <1>14, <1>15,
       <1>16, <1>17 DEF Next, Over

-----------------------------------------------------------------------------
(* The inductive invariant *)

NoError == \A j \in 1 .. Len(traces) : traces[j].err = "none"

\* The results are those of the cases before the current one.
Progress ==
    /\ Len(results) = IF pc \in {"case", "done"} THEN ci ELSE ci - 1
    /\ \A i \in 1 .. Len(results) : results[i].case = i /\ results[i].skipped = Cases[i].ignored
    /\ pc = "done" => ci = Len(Cases)
    /\ pc \notin {"case", "done"} => ~case.ignored

\* The traces are those of the calls up to the current one, and an error ends
\* the case: only the last trace has one, and without one every call was made.
TracesInOrder ==
    InCase =>
        /\ Len(traces) = IF InCall THEN k - 1 ELSE k
        /\ \A j \in 1 .. Len(traces) :
               /\ traces[j].call = j
               /\ traces[j].err # "none" => pc = "unused" /\ j = Len(traces)
        /\ pc = "unused" /\ NoError => k = Len(case.calls)

\* A trace without an error stands for a request sent and an answer that met
\* every check.
TracesEarned ==
    InCase =>
        /\ \A j \in 1 .. Len(traces) :
               traces[j].err = "none" => traces[j].met = case.calls[j].checks /\ <<ci, j>> \in Sent
        /\ pc \in {"expect", "schemas", "check"} => <<ci, k>> \in Sent

\* Until an error, every argument declared so far is a variable; a variable is
\* used only if a template of the case, or a text remembered by it, mentions it.
Known ==
    InCase =>
        /\ used \subseteq Mentioned(ci) \cup Echoed(ci)
        /\ NoError /\ argsErr => k = 0
        /\ NoError /\ ~argsErr => /\ Names(case.args) \subseteq items
                                  /\ \A i \in 1 .. k : Names(case.calls[i].args) \subseteq items

\* The requests sent so far come before the one to be sent next.
SentInOrder ==
    \A n \in 1 .. Len(sent) :
        \/ sent[n][1] < ci
        \/ sent[n][1] = ci /\ sent[n][2] < k
        \/ sent[n][1] = ci /\ sent[n][2] = k /\ pc \notin {"body", "request", "exchange"}

\* Texts are remembered only from responses to a case that remembers something.
EchoesRemembered == \A e \in echoed : Remembers(e[1])

IInv ==
    /\ TypeOK /\ Progress /\ TracesInOrder /\ TracesEarned /\ Known /\ SentInOrder
    /\ EchoesRemembered /\ Isolation /\ ErrorIsLast /\ NoFalsePass

-----------------------------------------------------------------------------
(* The steps of call *)

CallStep ==
    BodyContent \/ PopulateRequest \/ Exchange \/ PopulateWith \/ Expectations \/ Check \/ RememberAll

\* What the steps of one call have in common: the call either goes on or ends
\* with a trace, whose error is "none" only if every check was met.
LEMMA CallStepFacts ==
    ASSUME TypeOK, CallStep
    PROVE  /\ InCall /\ UNCHANGED <<ci, k, argsErr, results>>
           /\ pc' \notin {"case", "done", "panicked"}
           /\ \/ InCall' /\ UNCHANGED traces
              \/ \E err \in Error : /\ EndCall(err)
                                    /\ err = "none" => pc = "check" /\ met = call.checks
           /\ sent' = IF pc = "exchange" THEN Append(sent, <<ci, k>>) ELSE sent
           /\ pc \in {"body", "request"} => pc' \in {"request", "exchange", "unused"}
           /\ pc \notin {"body", "request"} => pc' \in {"expect", "schemas", "check", "call", "unused"}
           /\ items \subseteq items' /\ items' \subseteq items \cup call.body \cup call.headers
<1>1. CASE BodyContent \/ PopulateRequest \/ PopulateWith
    BY <1>1 DEF BodyContent, PopulateRequest, PopulateWith, ApplyTemplates, InCall, Error,
       EndCall, AfterTrace
<1>2. CASE Exchange
    BY <1>2 DEF Exchange, InCall, Error, EndCall, AfterTrace, varsVars
<1>3. CASE Expectations
    BY <1>3 DEF Expectations, InCall, Error, EndCall, AfterTrace, varsVars
<1>4. CASE Check
    BY <1>4 DEF Check, InCall, Error, EndCall, AfterTrace, varsVars
<1>5. CASE RememberAll
  <2>1. ci \in 1 .. Len(Cases) /\ k \in 1 .. Len(case.calls)
      BY <1>5, CasesAssumption, CaseFacts DEF RememberAll, TypeOK, case
  <2>2. call.checks \in Nat /\ met \in 0 .. call.checks
      BY <2>1, <1>5, CallFacts DEF RememberAll, TypeOK, case, call
  <2>3. met = call.checks
      BY <2>2, <1>5 DEF RememberAll, ChecksLeft
  <2>. QED
      BY <2>3, <1>5 DEF RememberAll, Remember, InCall, Error, EndCall, AfterTrace
<1>. QED
    BY <1>1, <1>2, <1>3, <1>4, <1>5 DEF CallStep

\* The shape of the traces after such a step.
LEMMA CallStepTraces ==
    ASSUME TypeOK, TracesInOrder, CallStep
    PROVE  /\ InCase /\ InCase' /\ NoError
           /\ ci \in 1 .. Len(Cases) /\ k \in 1 .. Len(case.calls)
           /\ call \in Call /\ case \in TestCase /\ case' = case /\ call' = call
           /\ Len(traces) = k - 1
           /\ \A j \in 1 .. k - 1 : traces'[j] = traces[j]
           /\ InCall' => UNCHANGED traces
           /\ ~InCall' => \E err \in Error :
                  /\ traces' = Append(traces, Trace(err))
                  /\ pc' = IF err = "none" THEN "call" ELSE "unused"
                  /\ err = "none" => pc = "check" /\ met = call.checks
                  /\ Len(traces') = k /\ traces'[k] = Trace(err)
<1>1. InCall /\ InCase /\ UNCHANGED <<ci, k>>
    BY CallStepFacts DEF InCall, InCase
<1>2. ci \in 1 .. Len(Cases) /\ k \in 1 .. Len(case.calls)
    BY <1>1, CasesAssumption, CaseFacts DEF InCall, InCase, TypeOK, case
<1>3. call \in Call /\ case \in TestCase /\ case' = case /\ call' = call
    BY <1>1, <1>2, CaseFacts, CallFacts DEF case, call
<1>4. Len(traces) = k - 1 /\ NoError
    BY <1>1 DEF TracesInOrder, InCall, NoError
<1>5. traces \in Seq(TraceRecord) /\ k \in Nat /\ met \in Nat
  <2>1. call.checks \in Nat
      BY <1>3 DEF Call
  <2>. QED
      BY <1>1, <1>2, <2>1 DEF TypeOK, InCall
<1>6. CASE InCall' /\ UNCHANGED traces
    BY <1>1, <1>2, <1>3, <1>4, <1>6 DEF InCall, InCase
<1>7. ASSUME NEW err \in Error, EndCall(err),
             err = "none" => pc = "check" /\ met = call.checks
      PROVE  /\ InCase' /\ ~InCall' /\ \A j \in 1 .. k - 1 : traces'[j] = traces[j]
             /\ traces' = Append(traces, Trace(err))
             /\ pc' = IF err = "none" THEN "call" ELSE "unused"
             /\ Len(traces') = k /\ traces'[k] = Trace(err)
  <2>1. /\ traces' = Append(traces, Trace(err)) /\ Trace(err) \in TraceRecord
        /\ pc' = IF err = "none" THEN "call" ELSE "unused"
      BY <1>5, <1>7, EndCallFacts
  <2>. QED
      BY <2>1, <1>4, <1>5 DEF InCall, InCase
<1>. QED
    BY <1>1, <1>2, <1>3, <1>4, <1>6, <1>7, CallStepFacts

-----------------------------------------------------------------------------
(* Each part of the invariant is preserved *)

LEMMA ProgressStep == TypeOK /\ Progress /\ [Next]_vars => Progress'
<1>. SUFFICES ASSUME TypeOK, Progress, [Next]_vars PROVE Progress'
    OBVIOUS
<1>0. Len(Cases) \in Nat /\ ci \in 0 .. Len(Cases) /\ results \in Seq(ResultRecord)
    BY CasesAssumption DEF TypeOK
<1>1. CASE SkipCase
  <2>1. /\ results' = Append(results, Skipped(ci + 1)) /\ ci' = ci + 1 /\ Cases[ci'].ignored
        /\ ~InCase /\ ~InCase' /\ pc' = "case"
      BY <1>1 DEF SkipCase, ResultsAfterSkip, InCase
  <2>2. Skipped(ci + 1).case = ci' /\ Skipped(ci + 1).skipped = TRUE
      BY <2>1 DEF Skipped
  <2>3. Cases[ci'].ignored = TRUE
      BY <2>1, <1>0, <1>1, CaseFacts DEF SkipCase
  <2>4. Len(results) = ci
      BY <1>1 DEF SkipCase, Progress
  <2>5. /\ Len(results') = ci' /\ results'[ci'] = Skipped(ci + 1)
        /\ \A i \in 1 .. ci : results'[i] = results[i]
      BY <2>1, <2>4, <1>0
  <2>6. \A i \in 1 .. Len(results') :
            results'[i].case = i /\ results'[i].skipped = Cases[i].ignored
    <3>1. TAKE i \in 1 .. Len(results')
    <3>2. CASE i \in 1 .. ci
        BY <3>2, <2>4, <2>5 DEF Progress
    <3>3. CASE i = ci'
        BY <3>3, <2>2, <2>3, <2>5
    <3>. QED
        BY <3>2, <3>3, <2>1, <2>5, <1>0
  <2>. QED
      BY <2>1, <2>5, <2>6 DEF Progress
<1>2. CASE StartCase
    BY <1>0, <1>2 DEF StartCase, Progress, InCase, case
<1>3. CASE StartCall
    BY <1>3 DEF StartCall, Progress, InCase, case
<1>4. CASE NoMoreCalls
    BY <1>4 DEF NoMoreCalls, Progress, InCase, case
<1>5. CASE EndCase
  <2>1. InCase /\ pc' = "case" /\ ~InCase' /\ ci' = ci
      BY <1>5 DEF EndCase, InCase
  <2> DEFINE r == [case |-> ci, skipped |-> FALSE, traces |-> WithUnused]
  <2>2. results' = Append(results, r) /\ r.case = ci /\ r.skipped = FALSE
      BY <1>5 DEF EndCase
  <2>3. Len(results) = ci - 1 /\ ci \in 1 .. Len(Cases)
      BY <1>0, <2>1 DEF Progress, InCase, TypeOK
  <2>4. Cases[ci].ignored = FALSE
      BY <2>1, <2>3, CaseFacts DEF Progress, case
  <2> HIDE DEF r
  <2>5. Len(results') = ci /\ results'[ci] = r /\ \A i \in 1 .. ci - 1 : results'[i] = results[i]
      BY <2>2, <2>3, <1>0
  <2>6. \A i \in 1 .. Len(results') :
            results'[i].case = i /\ results'[i].skipped = Cases[i].ignored
    <3>1. TAKE i \in 1 .. Len(results')
    <3>2. CASE i \in 1 .. ci - 1
        BY <3>2, <2>3, <2>5 DEF Progress
    <3>3. CASE i = ci
        BY <3>3, <2>2, <2>4, <2>5
    <3>. QED
        BY <3>2, <3>3, <2>5, <1>0
  <2>. QED
      BY <2>1, <2>5, <2>6 DEF Progress
<1>6. CASE PanicWithoutTraces \/ PanicAtPath
    BY <1>6 DEF PanicWithoutTraces, PanicAtPath, Progress, case
<1>7. CASE Return
    BY <1>7 DEF Return, Progress, InCase
<1>8. CASE CallStep
  <2>1. InCase /\ InCase' /\ UNCHANGED <<ci, results>>
      BY <1>8, CallStepFacts DEF InCall, InCase
  <2>. QED
      BY <2>1 DEF Progress, InCase, case
<1>9. CASE UNCHANGED vars
    BY <1>9 DEF vars, Progress, InCase, case
<1>. QED
    BY <1>1, <1>2, <1>3, <1>4, <1>5, <1>6, <1>7, <1>8, <1>9 DEF Next, Over, CallStep

LEMMA TracesInOrderStep == TypeOK /\ TypeOK' /\ TracesInOrder /\ [Next]_vars => TracesInOrder'
<1>. SUFFICES ASSUME TypeOK, TypeOK', TracesInOrder, [Next]_vars PROVE TracesInOrder'
    OBVIOUS
<1>0. traces \in Seq(TraceRecord)
    BY DEF TypeOK
<1>1. CASE SkipCase \/ EndCase \/ Return
    BY <1>1 DEF SkipCase, EndCase, Return, TracesInOrder, InCase
<1>2. CASE StartCase
    BY <1>2 DEF StartCase, TracesInOrder, InCase, InCall
<1>3. CASE StartCall
  <2>1. InCase /\ ~InCall /\ pc = "call" /\ k' = k + 1 /\ Len(traces) = k /\ NoError
      BY <1>3 DEF StartCall, TracesInOrder, InCase, InCall, NoError
  <2>2. CASE pc' = "body" /\ UNCHANGED traces
      BY <2>1, <2>2 DEF TracesInOrder, InCall, NoError
  <2>3. CASE pc' = "unused" /\ traces' = Append(traces, [call |-> k', err |-> "args", met |-> 0])
    <3> DEFINE t == [call |-> k', err |-> "args", met |-> 0]
    <3>1. t.call = k' /\ t.err = "args"
        OBVIOUS
    <3> HIDE DEF t
    <3>2. /\ Len(traces') = k' /\ traces'[k'] = t
          /\ \A j \in 1 .. k : traces'[j] = traces[j]
        BY <2>1, <2>3, <1>0 DEF t
    <3>3. k \in Nat
        BY <2>1, <1>0, LenProperties
    <3>4. k' \in 1 .. Len(traces') /\ traces'[k'].err # "none"
        BY <3>1, <3>2, <3>3, <2>1
    <3>5. \A j \in 1 .. Len(traces') :
              traces'[j].call = j /\ (traces'[j].err # "none" => j = Len(traces'))
        BY <3>1, <3>2, <3>3, <2>1 DEF TracesInOrder, NoError
    <3>. QED
        BY <3>2, <3>4, <3>5, <2>3 DEF TracesInOrder, InCall, NoError
  <2>. QED
      BY <2>2, <2>3, <1>3 DEF StartCall
<1>4. CASE NoMoreCalls
    BY <1>4 DEF NoMoreCalls, TracesInOrder, InCase, InCall, NoError, case
<1>5. CASE PanicWithoutTraces \/ PanicAtPath
    BY <1>5 DEF PanicWithoutTraces, PanicAtPath, TracesInOrder, InCase
<1>6. CASE CallStep
  <2>1. UNCHANGED k
      BY <1>6, CallStepFacts
  <2>2. CASE InCall'
      BY <2>1, <2>2, <1>6, CallStepTraces DEF TracesInOrder, NoError, InCall
  <2>3. CASE ~InCall'
    <3>1. PICK err \in Error :
              /\ pc' = IF err = "none" THEN "call" ELSE "unused"
              /\ Len(traces') = k /\ traces'[k] = Trace(err)
        BY <2>3, <1>6, CallStepTraces
    <3>2. Trace(err).call = k /\ Trace(err).err = err
        BY DEF Trace
    <3>3. k \in Nat \ {0}
      <4>1. k \in 1 .. Len(case.calls)
          BY <1>6, CallStepTraces
      <4>. QED
          BY <4>1
    <3>4. \A j \in 1 .. k - 1 : traces'[j].call = j /\ traces'[j].err = "none"
        BY <3>3, <1>6, CallStepTraces DEF TracesInOrder, NoError
    <3>5. \A j \in 1 .. k : /\ traces'[j].call = j
                            /\ traces'[j].err # "none" => pc' = "unused" /\ j = k
        BY <3>1, <3>2, <3>3, <3>4
    <3>6. pc' = "unused" => ~NoError'
        BY <3>1, <3>2, <3>3 DEF NoError
    <3>. QED
        BY <2>1, <2>3, <3>1, <3>5, <3>6 DEF TracesInOrder
  <2>. QED
      BY <2>2, <2>3
<1>7. CASE UNCHANGED vars
    BY <1>7 DEF vars, TracesInOrder, InCase, InCall, NoError, case
<1>. QED
    BY <1>1, <1>2, <1>3, <1>4, <1>5, <1>6, <1>7 DEF Next, Over, CallStep

\* Requests are only added to those sent.
LEMMA SentGrows ==
    ASSUME TypeOK, [Next]_vars
    PROVE  /\ Sent \subseteq Sent'
           /\ CallStep /\ pc = "exchange" => <<ci, k>> \in Sent'
<1>0. sent \in Seq((1 .. Len(Cases)) \X Nat) /\ Len(sent) \in Nat
    BY LenProperties DEF TypeOK
<1>1. CASE UNCHANGED sent
  <2>1. ~(CallStep /\ pc = "exchange")
    <3>1. SUFFICES ASSUME CallStep, pc = "exchange" PROVE FALSE
        OBVIOUS
    <3>2. sent' = Append(sent, <<ci, k>>)
        BY <3>1, CallStepFacts
    <3>3. Len(sent') = Len(sent) + 1
        BY <3>2, <1>0
    <3>. QED
        BY <3>3, <1>0, <1>1
  <2>. QED
      BY <2>1, <1>1 DEF Sent
<1>2. CASE Exchange
  <2>1. sent' = Append(sent, <<ci, k>>)
      BY <1>2 DEF Exchange
  <2>2. /\ Len(sent') = Len(sent) + 1 /\ sent'[Len(sent) + 1] = <<ci, k>>
        /\ \A n \in 1 .. Len(sent) : sent'[n] = sent[n]
      BY <2>1, <1>0
  <2>3. Len(sent) + 1 \in 1 .. Len(sent') /\ 1 .. Len(sent) \subseteq 1 .. Len(sent')
      BY <2>2, <1>0
  <2>. QED
      BY <2>2, <2>3 DEF Sent
<1>. QED
    BY <1>1, <1>2 DEF Next, Over, vars, SkipCase, StartCase, StartCall, NoMoreCalls, EndCase,
       PanicWithoutTraces, PanicAtPath, Return, BodyContent, PopulateRequest,
       PopulateWith, Expectations, Check, RememberAll

LEMMA TracesEarnedStep ==
    TypeOK /\ TypeOK' /\ TracesInOrder /\ TracesEarned /\ [Next]_vars => TracesEarned'
<1>. SUFFICES ASSUME TypeOK, TypeOK', TracesInOrder, TracesEarned, [Next]_vars PROVE TracesEarned'
    OBVIOUS
<1>0. traces \in Seq(TraceRecord) /\ Sent \subseteq Sent'
    BY SentGrows DEF TypeOK
<1>1. CASE SkipCase \/ EndCase \/ Return
    BY <1>1 DEF SkipCase, EndCase, Return, TracesEarned, InCase
<1>2. CASE StartCase
    BY <1>2 DEF StartCase, TracesEarned
<1>3. CASE StartCall
  <2>1. InCase /\ pc' \in {"body", "unused"} /\ case' = case /\ ci' = ci
      BY <1>3 DEF StartCall, InCase, case
  <2>2. CASE UNCHANGED traces
      BY <2>1, <2>2, <1>0 DEF TracesEarned
  <2>3. CASE traces' = Append(traces, [call |-> k', err |-> "args", met |-> 0])
    <3> DEFINE t == [call |-> k', err |-> "args", met |-> 0]
    <3>1. t.err = "args"
        OBVIOUS
    <3> HIDE DEF t
    <3>2. /\ Len(traces') = Len(traces) + 1 /\ traces'[Len(traces')] = t
          /\ \A j \in 1 .. Len(traces) : traces'[j] = traces[j]
          /\ Len(traces) \in Nat
        BY <2>3, <1>0 DEF t
    <3>3. ASSUME NEW j \in 1 .. Len(traces'), traces'[j].err = "none"
          PROVE  traces'[j].met = case.calls[j].checks /\ <<ci, j>> \in Sent
        BY <3>1, <3>2, <3>3, <2>1 DEF TracesEarned
    <3>. QED
        BY <3>3, <2>1, <1>0 DEF TracesEarned
  <2>. QED
      BY <2>2, <2>3, <1>3 DEF StartCall
<1>4. CASE NoMoreCalls
    BY <1>0, <1>4 DEF NoMoreCalls, TracesEarned, InCase, case
<1>5. CASE PanicWithoutTraces \/ PanicAtPath
    BY <1>5 DEF PanicWithoutTraces, PanicAtPath, TracesEarned, InCase
<1>6. CASE CallStep
  <2>1. UNCHANGED <<ci, k>> /\ InCase /\ InCase' /\ case' = case /\ Len(traces) = k - 1
      BY <1>6, CallStepFacts, CallStepTraces
  <2>2. pc' \in {"expect", "schemas", "check"} => <<ci, k>> \in Sent'
      BY <1>0, <1>6, <2>1, CallStepFacts, SentGrows DEF TracesEarned, InCall
  <2>3. CASE InCall'
      BY <2>1, <2>2, <2>3, <1>0, <1>6, CallStepTraces DEF TracesEarned
  <2>4. CASE ~InCall'
    <3>1. PICK err \in Error :
              /\ pc' = IF err = "none" THEN "call" ELSE "unused"
              /\ err = "none" => pc = "check" /\ met = call.checks
              /\ Len(traces') = k /\ traces'[k] = Trace(err)
        BY <2>4, <1>6, CallStepTraces
    <3>2. Trace(err).met = met /\ Trace(err).err = err
        BY DEF Trace
    <3>3. k \in Nat \ {0}
      <4>1. k \in 1 .. Len(case.calls)
          BY <1>6, CallStepTraces
      <4>. QED
          BY <4>1
    <3>4. \A j \in 1 .. k - 1 :
              traces'[j].err = "none" => traces'[j].met = case.calls[j].checks /\ <<ci, j>> \in Sent
        BY <2>1, <1>6, CallStepTraces DEF TracesEarned
    <3>5. traces'[k].err = "none" => traces'[k].met = case.calls[k].checks /\ <<ci, k>> \in Sent
        BY <3>1, <3>2, <2>1 DEF TracesEarned, call
    <3>6. \A j \in 1 .. k :
              traces'[j].err = "none" => traces'[j].met = case.calls[j].checks /\ <<ci, j>> \in Sent'
        BY <3>3, <3>4, <3>5, <1>0
    <3>. QED
        BY <3>1, <3>6, <2>1, <2>2 DEF TracesEarned
  <2>. QED
      BY <2>3, <2>4
<1>7. CASE UNCHANGED vars
    BY <1>0, <1>7 DEF vars, TracesEarned, InCase, case
<1>. QED
    BY <1>1, <1>2, <1>3, <1>4, <1>5, <1>6, <1>7 DEF Next, Over, CallStep

LEMMA SentInOrderStep == TypeOK /\ TypeOK' /\ SentInOrder /\ [Next]_vars => SentInOrder'
<1>. SUFFICES ASSUME TypeOK, TypeOK', SentInOrder, [Next]_vars PROVE SentInOrder'
    OBVIOUS
<1>0. /\ sent \in Seq((1 .. Len(Cases)) \X Nat) /\ Len(sent) \in Nat /\ ci \in Nat
      /\ \A n \in 1 .. Len(sent) : sent[n][1] \in Nat /\ sent[n][2] \in Nat
  <2>1. Len(Cases) \in Nat
      BY CasesAssumption
  <2>2. sent \in Seq((1 .. Len(Cases)) \X Nat) /\ Len(sent) \in Nat /\ ci \in Nat
      BY <2>1, LenProperties DEF TypeOK
  <2>3. \A n \in 1 .. Len(sent) : sent[n] \in (1 .. Len(Cases)) \X Nat
      BY <2>2
  <2>. QED
      BY <2>1, <2>2, <2>3
<1>1. CASE SkipCase \/ StartCase
    BY <1>0, <1>1 DEF SkipCase, StartCase, SentInOrder
<1>2. CASE StartCall
  <2>1. k \in Nat /\ k' = k + 1 /\ UNCHANGED <<ci, sent>>
    <3>1. Len(Cases) \in Nat /\ ci \in 1 .. Len(Cases) /\ k \in 0 .. Len(case.calls)
        BY <1>2, CasesAssumption DEF StartCall, TypeOK
    <3>. QED
        BY <3>1, <1>2, CaseFacts DEF StartCall, case
  <2>. QED
      BY <2>1, <1>0 DEF SentInOrder
<1>3. CASE NoMoreCalls \/ EndCase \/ PanicWithoutTraces \/ PanicAtPath \/ Return
    BY <1>0, <1>3 DEF NoMoreCalls, EndCase, PanicWithoutTraces, PanicAtPath, Return, SentInOrder
<1>4. CASE CallStep /\ pc # "exchange"
    BY <1>0, <1>4, CallStepFacts DEF SentInOrder, InCall
<1>5. CASE CallStep /\ pc = "exchange"
  <2>1. UNCHANGED <<ci, k>> /\ sent' = Append(sent, <<ci, k>>) /\ pc' \notin {"body", "request", "exchange"}
      BY <1>5, CallStepFacts
  <2>2. /\ Len(sent') = Len(sent) + 1 /\ sent'[Len(sent) + 1] = <<ci, k>>
        /\ \A n \in 1 .. Len(sent) : sent'[n] = sent[n]
      BY <2>1, <1>0
  <2>3. ASSUME NEW n \in 1 .. Len(sent')
        PROVE  n \in 1 .. Len(sent) \/ n = Len(sent) + 1
      BY <2>2, <1>0
  <2>. QED
      BY <2>1, <2>2, <2>3, <1>5 DEF SentInOrder
<1>6. CASE UNCHANGED vars
    BY <1>6 DEF vars, SentInOrder
<1>. QED
    BY <1>1, <1>2, <1>3, <1>4, <1>5, <1>6 DEF Next, Over, CallStep

\* What a call mentions is mentioned by its case, what it declares or remembers
\* is declared once the call is made.
LEMMA MentionedFacts ==
    ASSUME NEW c \in 1 .. Len(Cases), NEW j \in 1 .. Len(Cases[c].calls)
    PROVE  /\ Cases[c].calls[j].content \subseteq Mentioned(c)
           /\ Cases[c].calls[j].on \subseteq Mentioned(c)
           /\ Cases[c].calls[j].expect \subseteq Mentioned(c)
           /\ RefsOf(Cases[c].calls[j].args) \subseteq Mentioned(c)
<1>1. MentionedBy(Cases[c].calls[j]) \subseteq Mentioned(c)
    BY DEF Mentioned
<1>. QED
    BY <1>1 DEF MentionedBy

LEMMA DeclaredFacts ==
    ASSUME NEW c \in 1 .. Len(Cases), NEW j \in 1 .. Len(Cases[c].calls)
    PROVE  /\ Declared(c, j - 1) \subseteq Declared(c, j)
           /\ Names(Cases[c].calls[j].args) \subseteq Declared(c, j)
           /\ Cases[c].calls[j].body \subseteq Declared(c, j)
           /\ Cases[c].calls[j].headers \subseteq Declared(c, j)
<1>1. j \in 1 .. j /\ \A i \in 1 .. j - 1 : i \in 1 .. j
    OBVIOUS
<1>2. Declared(c, j - 1) \subseteq Declared(c, j)
    BY <1>1 DEF Declared
<1>3. Introduced(Cases[c].calls[j]) \subseteq Declared(c, j)
    BY <1>1 DEF Declared
<1>. QED
    BY <1>2, <1>3 DEF Introduced

\* The arguments of a call, added to the variables.
LEMMA StartCallFacts ==
    ASSUME TypeOK, StartCall
    PROVE  /\ InCase /\ ~InCall /\ InCase' /\ UNCHANGED <<ci, argsErr>> /\ case' = case
           /\ k' = k + 1 /\ k \in Nat /\ k' \in 1 .. Len(case.calls)
           /\ ci \in 1 .. Len(Cases) /\ case = Cases[ci]
           /\ items \subseteq items' /\ items' \subseteq items \cup Names(case.calls[k'].args)
           /\ used' \subseteq used \cup RefsOf(case.calls[k'].args) \cup Nested
           /\ UNCHANGED echoed
           /\ \/ /\ ~argsErr /\ UNCHANGED traces
                 /\ items' = items \cup Names(case.calls[k'].args)
              \/ traces' = Append(traces, [call |-> k', err |-> "args", met |-> 0])
<1>1. /\ InCase /\ ~InCall /\ InCase' /\ UNCHANGED <<ci, argsErr>> /\ case' = case
      /\ k' = k + 1 /\ k < Len(case.calls)
    BY DEF StartCall, InCase, InCall, case
<1>2. ci \in 1 .. Len(Cases) /\ k \in 0 .. Len(case.calls)
    BY <1>1, CasesAssumption DEF TypeOK, InCase
<1>3. Len(case.calls) \in Nat /\ case = Cases[ci]
    BY <1>2, CaseFacts DEF case
<1>4. k \in Nat /\ k' \in 1 .. Len(case.calls)
    BY <1>1, <1>2, <1>3
<1>5. case.calls[k'].args \in SUBSET Arg
    BY <1>2, <1>3, <1>4, CallFacts
<1>6. ASSUME NEW failed \in BOOLEAN, AddAll(items, used, case.calls[k'].args, Nested, failed)
      PROVE  /\ items \subseteq items' /\ items' \subseteq items \cup Names(case.calls[k'].args)
             /\ used' \subseteq used \cup RefsOf(case.calls[k'].args) \cup Nested
             /\ ~failed => items' = items \cup Names(case.calls[k'].args)
  <2>1. items \in SUBSET Var /\ used \in SUBSET items
      BY DEF TypeOK
  <2>2. PICK nested, args : nested = Nested /\ args = case.calls[k'].args
      OBVIOUS
  <2>3. AddAll(items, used, args, nested, failed) /\ args \in SUBSET Arg
      BY <1>5, <1>6, <2>2
  <2>4. /\ items \subseteq items' /\ items' \subseteq items \cup Names(args)
        /\ used' \subseteq used \cup RefsOf(args) \cup nested
        /\ ~failed => items' = items \cup Names(args)
      BY <2>1, <2>3, AddAllFacts
  <2>. QED
      BY <2>2, <2>4
<1>. QED
    BY <1>1, <1>2, <1>3, <1>4, <1>6 DEF StartCall, varsVars

LEMMA IsolationStep == TypeOK /\ TypeOK' /\ Isolation /\ [Next]_vars => Isolation'
<1>. SUFFICES ASSUME TypeOK, TypeOK', Isolation, [Next]_vars PROVE Isolation'
    OBVIOUS
<1>1. CASE SkipCase \/ EndCase \/ Return
    BY <1>1 DEF SkipCase, EndCase, Return, Isolation, InCase
<1>2. CASE StartCase
  <2>1. ci' \in 1 .. Len(Cases) /\ ci' = ci + 1 /\ k' = 0
      BY <1>2, CasesAssumption DEF StartCase, TypeOK
  <2>2. items' \subseteq Names(Cases[ci'].args)
    <3>1. PICK failed \in BOOLEAN : AddAll({}, {}, Cases[ci'].args, {}, failed)
        BY <2>1, <1>2 DEF StartCase, NewVars
    <3>2. Cases[ci'].args \in SUBSET Arg
        BY <2>1, CaseFacts
    <3>. QED
        BY <3>1, <3>2, AddAllToNewVars
  <2>. QED
      BY <2>2 DEF Isolation, Declared
<1>3. CASE StartCall
  <2>1. items \subseteq Declared(ci, k' - 1)
      BY <1>3, StartCallFacts DEF Isolation, InCase
  <2>. QED
      BY <2>1, <1>3, StartCallFacts, DeclaredFacts DEF Isolation
<1>4. CASE NoMoreCalls \/ PanicWithoutTraces \/ PanicAtPath
    BY <1>4 DEF NoMoreCalls, PanicWithoutTraces, PanicAtPath, Isolation, InCase, varsVars, Declared
<1>5. CASE CallStep
  <2>1. /\ UNCHANGED <<ci, k>> /\ InCase /\ ci \in 1 .. Len(Cases)
        /\ k \in 1 .. Len(Cases[ci].calls) /\ call = Cases[ci].calls[k]
    <3>1. InCall /\ InCase /\ UNCHANGED <<ci, k>>
        BY <1>5, CallStepFacts DEF InCall, InCase
    <3>2. ci \in 1 .. Len(Cases) /\ k \in 0 .. Len(case.calls) /\ k # 0
        BY <3>1, CasesAssumption DEF InCall, InCase, TypeOK
    <3>. QED
        BY <3>1, <3>2, CaseFacts DEF case, call
  <2>2. items' \subseteq Declared(ci, k)
      BY <2>1, <1>5, CallStepFacts, DeclaredFacts DEF Isolation, InCase
  <2>. QED
      BY <2>1, <2>2 DEF Isolation, Declared
<1>6. CASE UNCHANGED vars
    BY <1>6 DEF vars, varsVars, Isolation, InCase, Declared
<1>. QED
    BY <1>1, <1>2, <1>3, <1>4, <1>5, <1>6 DEF Next, Over, CallStep

\* The values of the variables mention only what templates and remembered texts do.
LEMMA NestedFacts ==
    ASSUME ci \in 1 .. Len(Cases), k \in 0 .. Len(case.calls)
    PROVE  Nested \subseteq Mentioned(ci) \cup Echoed(ci)
<1>1. \A i \in 1 .. k : i \in 1 .. Len(Cases[ci].calls)
    BY CaseFacts DEF case
<1>2. \A i \in 1 .. k : RefsOf(case.calls[i].args) \subseteq Mentioned(ci)
    BY <1>1, MentionedFacts DEF case
<1>. QED
    BY <1>2 DEF Nested, Mentioned, case

\* What a step of a call marks.
LEMMA CallStepMarks ==
    ASSUME TypeOK, CallStep, ci \in 1 .. Len(Cases), k \in 1 .. Len(Cases[ci].calls)
    PROVE  /\ used' \subseteq used \cup Mentioned(ci) \cup Echoed(ci)'
           /\ Echoed(ci) \subseteq Echoed(ci)'
           /\ \A e \in echoed' : e \in echoed \/ (e[1] = ci /\ Remembers(ci))
<1>0. /\ call = Cases[ci].calls[k] /\ Nested \subseteq Mentioned(ci) \cup Echoed(ci)
      /\ call.content \subseteq Mentioned(ci) /\ call.on \subseteq Mentioned(ci)
      /\ call.expect \subseteq Mentioned(ci) /\ UNCHANGED ci
    BY NestedFacts, MentionedFacts, CaseFacts, CallStepFacts DEF case, call
<1>1. ASSUME NEW refs \in SUBSET Mentioned(ci), NEW next, NEW err,
             ApplyTemplates(refs, next, err), UNCHANGED <<ci, echoed>>
      PROVE  used' \subseteq used \cup Mentioned(ci) \cup Echoed(ci)
  <2>1. PICK all \in MarkedBy(refs, items, Nested) : \E m \in SUBSET all : used' = used \cup m
      BY <1>1 DEF ApplyTemplates
  <2>2. all \subseteq refs \cup Nested
      BY MarkedFacts
  <2>. QED
      BY <2>1, <2>2, <1>0, <1>1
<1>2. CASE BodyContent \/ PopulateRequest \/ PopulateWith
  <2>1. UNCHANGED <<ci, echoed>>
      BY <1>2 DEF BodyContent, PopulateRequest, PopulateWith
  <2>2. used' \subseteq used \cup Mentioned(ci) \cup Echoed(ci)
      BY <1>0, <1>1, <1>2, <2>1 DEF BodyContent, PopulateRequest, PopulateWith
  <2>. QED
      BY <2>1, <2>2 DEF Echoed
<1>3. CASE Exchange \/ Expectations \/ Check
    BY <1>3 DEF Exchange, Expectations, Check, varsVars, Echoed
<1>4. CASE RememberAll
  <2>1. PICK found \in SUBSET (call.body \cup call.headers) : Remember(found)
      BY <1>4 DEF RememberAll
  <2>2. PICK named \in SUBSET Var :
            /\ found = {} => named = {}
            /\ echoed' = echoed \cup ({ci} \X named)
            /\ \E all \in MarkedBy(named, items', Nested) :
                   \E m \in SUBSET all : used' = used \cup m
      BY <2>1 DEF Remember
  <2>3. named # {} => Remembers(ci)
      BY <1>0, <2>2 DEF Remembers
  <2>4. \A v : <<ci, v>> \in {ci} \X named <=> v \in named
      OBVIOUS
  <2>5. Echoed(ci) \subseteq Echoed(ci)' /\ named \subseteq Echoed(ci)'
      BY <1>0, <2>2, <2>4 DEF Echoed
  <2>6. used' \subseteq used \cup named \cup Nested
    <3>1. PICK all \in MarkedBy(named, items', Nested) : \E m \in SUBSET all : used' = used \cup m
        BY <2>2
    <3>2. all \subseteq named \cup Nested
        BY MarkedFacts
    <3>. QED
        BY <3>1, <3>2
  <2>7. ASSUME NEW e \in echoed' PROVE e \in echoed \/ (e[1] = ci /\ Remembers(ci))
      BY <2>2, <2>3, <2>7
  <2>. QED
      BY <2>5, <2>6, <2>7, <1>0
<1>. QED
    BY <1>2, <1>3, <1>4 DEF CallStep

LEMMA EchoesRememberedStep ==
    TypeOK /\ TracesInOrder /\ EchoesRemembered /\ [Next]_vars
        => EchoesRemembered' /\ echoed \subseteq echoed'
<1>. SUFFICES ASSUME TypeOK, TracesInOrder, EchoesRemembered, [Next]_vars
              PROVE  EchoesRemembered' /\ echoed \subseteq echoed'
    OBVIOUS
<1>1. CASE CallStep
  <2>1. ci \in 1 .. Len(Cases) /\ k \in 1 .. Len(Cases[ci].calls)
      BY <1>1, CallStepTraces DEF case
  <2>2. \A e \in echoed' : e \in echoed \/ (e[1] = ci /\ Remembers(ci))
      BY <1>1, <2>1, CallStepMarks
  <2>3. echoed \subseteq echoed'
      BY <1>1 DEF CallStep, BodyContent, PopulateRequest, Exchange, PopulateWith, Expectations,
         Check, RememberAll, Remember, varsVars
  <2>. QED
      BY <2>2, <2>3 DEF EchoesRemembered, Remembers
<1>2. CASE UNCHANGED echoed
    BY <1>2 DEF EchoesRemembered, Remembers
<1>. QED
    BY <1>1, <1>2 DEF Next, Over, vars, varsVars, CallStep, SkipCase, StartCase, StartCall,
       NoMoreCalls, EndCase, PanicWithoutTraces, PanicAtPath, Return

LEMMA KnownStep == TypeOK /\ TypeOK' /\ TracesInOrder /\ Known /\ [Next]_vars => Known'
<1>. SUFFICES ASSUME TypeOK, TypeOK', TracesInOrder, Known, [Next]_vars PROVE Known'
    OBVIOUS
<1>0. traces \in Seq(TraceRecord)
    BY DEF TypeOK
<1>1. CASE SkipCase \/ EndCase \/ Return
    BY <1>1 DEF SkipCase, EndCase, Return, Known, InCase
<1>2. CASE StartCase
  <2>1. ci' \in 1 .. Len(Cases) /\ ci' = ci + 1 /\ k' = 0
      BY <1>2, CasesAssumption DEF StartCase, TypeOK
  <2>2. PICK failed \in BOOLEAN : argsErr' = failed /\ AddAll({}, {}, Cases[ci'].args, {}, failed)
      BY <2>1, <1>2 DEF StartCase, NewVars
  <2>3. /\ used' \subseteq RefsOf(Cases[ci'].args)
        /\ ~argsErr' => items' = Names(Cases[ci'].args)
    <3>1. Cases[ci'].args \in SUBSET Arg
        BY <2>1, CaseFacts
    <3>. QED
        BY <3>1, <2>2, AddAllToNewVars
  <2>4. used' \subseteq Mentioned(ci')
      BY <2>3 DEF Mentioned
  <2>. QED
      BY <2>1, <2>3, <2>4 DEF Known, case
<1>3. CASE StartCall
  <2>1. used' \subseteq Mentioned(ci) \cup Echoed(ci) /\ UNCHANGED echoed
    <3>1. Nested \subseteq Mentioned(ci) \cup Echoed(ci)
        BY <1>3, StartCallFacts, NestedFacts
    <3>. QED
        BY <3>1, <1>3, StartCallFacts, MentionedFacts DEF Known
  <2>2. NoError
      BY <1>3, StartCallFacts DEF StartCall, TracesInOrder, NoError
  <2>3. CASE ~argsErr /\ UNCHANGED traces /\ items' = items \cup Names(case.calls[k'].args)
    <3>1. /\ Names(case.args) \subseteq items
          /\ \A i \in 1 .. k : Names(case.calls[i].args) \subseteq items
        BY <2>2, <2>3, <1>3, StartCallFacts DEF Known
    <3>2. \A i \in 1 .. k' : i \in 1 .. k \/ i = k'
        BY <1>3, StartCallFacts
    <3>3. \A i \in 1 .. k' : Names(case.calls[i].args) \subseteq items'
        BY <3>1, <3>2, <2>3
    <3>. QED
        BY <3>1, <3>3, <2>1, <2>3, <1>3, StartCallFacts DEF Known, Echoed
  <2>4. CASE traces' = Append(traces, [call |-> k', err |-> "args", met |-> 0])
    <3> DEFINE t == [call |-> k', err |-> "args", met |-> 0]
    <3>1. t.err = "args"
        OBVIOUS
    <3> HIDE DEF t
    <3>2. Len(traces') \in 1 .. Len(traces') /\ traces'[Len(traces')] = t
        BY <2>4, <1>0 DEF t
    <3>3. ~NoError'
        BY <3>1, <3>2 DEF NoError
    <3>. QED
        BY <3>3, <2>1, <1>3, StartCallFacts DEF Known, Echoed
  <2>. QED
      BY <2>3, <2>4, <1>3, StartCallFacts
<1>4. CASE NoMoreCalls \/ PanicWithoutTraces \/ PanicAtPath
    BY <1>4 DEF NoMoreCalls, PanicWithoutTraces, PanicAtPath, Known, InCase, NoError, varsVars,
       case, Mentioned, Echoed
<1>5. CASE CallStep
  <2>1. /\ UNCHANGED <<ci, k, argsErr>> /\ InCase /\ NoError /\ case' = case
        /\ items \subseteq items'
      BY <1>5, CallStepFacts, CallStepTraces
  <2>2. /\ ci \in 1 .. Len(Cases) /\ k \in 1 .. Len(Cases[ci].calls)
        /\ call = Cases[ci].calls[k] /\ k # 0
      BY <1>5, CallStepTraces DEF case, call
  <2>3. used' \subseteq Mentioned(ci) \cup Echoed(ci)'
      BY <2>1, <2>2, <1>5, CallStepMarks DEF Known
  <2>4. ~argsErr
      BY <2>1, <2>2 DEF Known
  <2>. QED
      BY <2>1, <2>3, <2>4 DEF Known, Mentioned, Echoed
<1>6. CASE UNCHANGED vars
    BY <1>6 DEF vars, varsVars, Known, InCase, NoError, case, Mentioned, Echoed
<1>. QED
    BY <1>1, <1>2, <1>3, <1>4, <1>5, <1>6 DEF Next, Over, CallStep

-----------------------------------------------------------------------------
(* The results *)

\* The result of a case: it has at most one error, that of its last trace, and
\* none only if no trace had one and no argument is unused.
LEMMA EndCaseFacts ==
    ASSUME TypeOK, TracesInOrder, EndCase
    PROVE  /\ results' = Append(results, [case |-> ci, skipped |-> FALSE, traces |-> WithUnused])
           /\ Len(WithUnused) = Len(traces)
           /\ {j \in 1 .. Len(WithUnused) : WithUnused[j].err # "none"}
                  \in {{}, {Len(WithUnused)}}
           /\ (\A j \in 1 .. Len(WithUnused) : WithUnused[j].err = "none") =>
                  WithUnused = traces /\ NoError /\ Unused = {}
<1>0. /\ traces \in Seq(TraceRecord) /\ Len(traces) \in Nat /\ InCase
      /\ \A j \in 1 .. Len(traces) : traces[j].err # "none" => j = Len(traces)
    BY LenProperties DEF TypeOK, EndCase, InCase, TracesInOrder
<1>1. results' = Append(results, [case |-> ci, skipped |-> FALSE, traces |-> WithUnused])
    BY DEF EndCase
<1>2. CASE Unused # {} /\ traces[Len(traces)].err = "none"
  <2>1. traces # << >> /\ Len(traces) \in 1 .. Len(traces)
      BY <1>0, <1>2 DEF EndCase
  <2>2. /\ WithUnused = [traces EXCEPT ![Len(traces)].err = "unused"]
        /\ traces[Len(traces)] \in TraceRecord
      BY <1>0, <1>2, <2>1 DEF WithUnused
  <2>3. /\ Len(WithUnused) = Len(traces)
        /\ WithUnused[Len(traces)].err = "unused"
        /\ \A j \in 1 .. Len(traces) : j # Len(traces) => WithUnused[j] = traces[j]
      BY <1>0, <2>1, <2>2 DEF TraceRecord
  <2>4. {j \in 1 .. Len(WithUnused) : WithUnused[j].err # "none"} = {Len(WithUnused)}
      BY <1>0, <2>1, <2>3
  <2>. QED
      BY <1>1, <2>1, <2>3, <2>4
<1>3. CASE ~(Unused # {} /\ traces[Len(traces)].err = "none")
  <2>1. WithUnused = traces
      BY <1>3 DEF WithUnused
  <2>2. {j \in 1 .. Len(traces) : traces[j].err # "none"} \in {{}, {Len(traces)}}
      BY <1>0
  <2>3. NoError => Unused = {}
    <3>1. SUFFICES ASSUME NoError, Unused # {} PROVE FALSE
        OBVIOUS
    <3>2. Len(traces) \in 1 .. Len(traces)
        BY <3>1, <1>0 DEF EndCase
    <3>. QED
        BY <3>1, <3>2, <1>3 DEF NoError
  <2>. QED
      BY <1>1, <2>1, <2>2, <2>3 DEF NoError
<1>. QED
    BY <1>2, <1>3

LEMMA ErrorIsLastStep == TypeOK /\ TracesInOrder /\ ErrorIsLast /\ [Next]_vars => ErrorIsLast'
<1>. SUFFICES ASSUME TypeOK, TracesInOrder, ErrorIsLast, [Next]_vars PROVE ErrorIsLast'
    OBVIOUS
<1>0. results \in Seq(ResultRecord) /\ Len(results) \in Nat
    BY LenProperties DEF TypeOK
<1>1. ASSUME NEW r, results' = Append(results, r), Errors(r) \in {{}, {Len(r.traces)}}
      PROVE  ErrorIsLast'
  <2>1. /\ Len(results') = Len(results) + 1 /\ results'[Len(results) + 1] = r
        /\ \A i \in 1 .. Len(results) : results'[i] = results[i]
      BY <1>0, <1>1
  <2>2. \A i \in 1 .. Len(results') : i \in 1 .. Len(results) \/ i = Len(results) + 1
      BY <2>1, <1>0
  <2>. QED
      BY <2>1, <2>2, <1>1 DEF ErrorIsLast
<1>2. CASE SkipCase
  <2>1. results' = Append(results, Skipped(ci + 1))
      BY <1>2 DEF SkipCase, ResultsAfterSkip
  <2>2. Skipped(ci + 1).traces = << >>
      BY DEF Skipped
  <2>3. Errors(Skipped(ci + 1)) = {}
      BY <2>2 DEF Errors
  <2>. QED
      BY <1>1, <2>1, <2>3
<1>3. CASE EndCase
  <2> DEFINE r == [case |-> ci, skipped |-> FALSE, traces |-> WithUnused]
  <2>1. r.traces = WithUnused
      OBVIOUS
  <2>2. Errors(r) \in {{}, {Len(r.traces)}} /\ results' = Append(results, r)
      BY <2>1, <1>3, EndCaseFacts DEF Errors
  <2>. QED
      BY <1>1, <2>2
<1>4. CASE UNCHANGED results
    BY <1>4 DEF ErrorIsLast
<1>. QED
    BY <1>2, <1>3, <1>4, CallStepFacts DEF Next, Over, vars, CallStep, StartCase, StartCall,
       NoMoreCalls, PanicWithoutTraces, PanicAtPath, Return

\* NoFalsePass of one result.
Earned(r) ==
    Passed(r) /\ Cases[r.case].calls # << >> =>
        /\ Len(r.traces) = Len(Cases[r.case].calls)
        /\ \A j \in 1 .. Len(Cases[r.case].calls) :
               /\ r.traces[j].call = j
               /\ r.traces[j].met = Cases[r.case].calls[j].checks
               /\ <<r.case, j>> \in Sent
        /\ Declares(r.case) \subseteq Mentioned(r.case) \cup Echoed(r.case)

LEMMA NoFalsePassStep ==
    TypeOK /\ EchoesRemembered /\ TracesInOrder /\ TracesEarned /\ Known /\ NoFalsePass /\ [Next]_vars => NoFalsePass'
<1>. SUFFICES ASSUME TypeOK, EchoesRemembered, TracesInOrder, TracesEarned, Known, NoFalsePass,
                     [Next]_vars
              PROVE  NoFalsePass'
    OBVIOUS
<1>0. /\ results \in Seq(ResultRecord) /\ Len(results) \in Nat /\ Sent \subseteq Sent'
      /\ \A i \in 1 .. Len(results) : Earned(results[i])
    BY LenProperties, SentGrows DEF TypeOK, NoFalsePass, Earned
<1>e. echoed \subseteq echoed' /\ \A c : Echoed(c) \subseteq Echoed(c)'
    BY EchoesRememberedStep DEF Echoed
<1>1. ASSUME NEW r, Earned(r)
      PROVE  Earned(r)'
    BY <1>0, <1>e, <1>1 DEF Earned, Passed, Errors, Declares, Mentioned
<1>2. ASSUME NEW r, results' = Append(results, r), Earned(r)
      PROVE  NoFalsePass'
  <2>1. /\ Len(results') = Len(results) + 1 /\ results'[Len(results) + 1] = r
        /\ \A i \in 1 .. Len(results) : results'[i] = results[i]
      BY <1>0, <1>2
  <2>2. \A i \in 1 .. Len(results') : i \in 1 .. Len(results) \/ i = Len(results) + 1
      BY <2>1, <1>0
  <2>3. \A i \in 1 .. Len(results') : Earned(results'[i])
      BY <2>1, <2>2, <1>0, <1>2
  <2>4. \A i \in 1 .. Len(results') : Earned(results[i])'
    <3>1. TAKE i \in 1 .. Len(results')
    <3>2. PICK x : x = results'[i] /\ Earned(x)
        BY <2>3
    <3>. QED
        BY <3>2, <1>1 DEF Earned
  <2>. QED
      BY <2>4 DEF NoFalsePass, Earned
<1>3. CASE SkipCase
  <2>1. results' = Append(results, Skipped(ci + 1)) /\ Skipped(ci + 1).skipped = TRUE
      BY <1>3 DEF SkipCase, ResultsAfterSkip, Skipped
  <2>2. Earned(Skipped(ci + 1))
      BY <2>1 DEF Earned, Passed
  <2>. QED
      BY <1>2, <2>1, <2>2
<1>4. CASE EndCase
  <2> DEFINE r == [case |-> ci, skipped |-> FALSE, traces |-> WithUnused]
  <2>0. /\ results' = Append(results, r) /\ r.case = ci /\ r.traces = WithUnused
        /\ InCase /\ pc = "unused"
      BY <1>4 DEF EndCase, InCase
  <2> HIDE DEF r
  <2>1. SUFFICES ASSUME Passed(r), Cases[ci].calls # << >>
                 PROVE  /\ Len(r.traces) = Len(Cases[ci].calls)
                        /\ \A j \in 1 .. Len(Cases[ci].calls) :
                               /\ r.traces[j].call = j
                               /\ r.traces[j].met = Cases[ci].calls[j].checks
                               /\ <<ci, j>> \in Sent
                        /\ Declares(ci) \subseteq Mentioned(ci) \cup Echoed(ci)
      BY <1>2, <2>0 DEF Earned
  <2>2. \A j \in 1 .. Len(WithUnused) : WithUnused[j].err = "none"
      BY <2>0, <2>1 DEF Passed, Errors
  <2>3. r.traces = traces /\ NoError /\ Unused = {}
      BY <2>0, <2>2, <1>4, EndCaseFacts
  <2>4. k = Len(case.calls) /\ Len(traces) = k /\ case = Cases[ci]
      BY <2>0, <2>3 DEF TracesInOrder, InCall, case
  <2>5. \A j \in 1 .. Len(Cases[ci].calls) :
            /\ traces[j].call = j
            /\ traces[j].met = Cases[ci].calls[j].checks /\ <<ci, j>> \in Sent
      BY <2>0, <2>3, <2>4 DEF TracesInOrder, TracesEarned, NoError
  <2>6. k # 0
    <3>1. ci \in 1 .. Len(Cases)
        BY <2>0, CasesAssumption DEF TypeOK, InCase
    <3>2. Cases[ci].calls \in Seq(Call)
        BY <3>1, CaseFacts
    <3>. QED
        BY <3>2, <2>1, <2>4, EmptySeq
  <2>7. /\ Names(Cases[ci].args) \subseteq items
        /\ \A i \in 1 .. Len(Cases[ci].calls) : Names(Cases[ci].calls[i].args) \subseteq items
      BY <2>0, <2>3, <2>4, <2>6 DEF Known
  <2>8. Declares(ci) \subseteq items
      BY <2>7 DEF Declares
  <2>9. items \subseteq used /\ used \subseteq Mentioned(ci) \cup Echoed(ci)
      BY <2>0, <2>3 DEF Unused, Known
  <2>. QED
      BY <2>3, <2>4, <2>5, <2>8, <2>9
<1>5. CASE UNCHANGED results
  <2>1. \A i \in 1 .. Len(results) : Earned(results[i])'
    <3>1. TAKE i \in 1 .. Len(results)
    <3>2. Earned(results[i])
        BY <1>0
    <3>. QED
        BY <3>2, <1>0, <1>e, <1>5, SMTT(20) DEF Earned, Passed, Errors, Declares, Mentioned
  <2>. QED
      BY <2>1, <1>5 DEF NoFalsePass, Earned
<1>. QED
    BY <1>3, <1>4, <1>5, CallStepFacts DEF Next, Over, vars, CallStep, StartCase, StartCall,
       NoMoreCalls, PanicWithoutTraces, PanicAtPath, Return

-----------------------------------------------------------------------------
(* The theorems *)

LEMMA InitInv == Init => IInv
<1>. SUFFICES ASSUME Init PROVE IInv
    OBVIOUS
<1>1. /\ Len(results) = 0 /\ Len(sent) = 0 /\ ci = 0 /\ pc = "case" /\ ~InCase
    BY EmptySeq DEF Init, InCase
<1>2. TypeOK
    BY TypeInit
<1>3. Progress /\ SentInOrder /\ ErrorIsLast /\ NoFalsePass
    BY <1>1 DEF Progress, SentInOrder, ErrorIsLast, NoFalsePass
<1>4. TracesInOrder /\ TracesEarned /\ Known /\ Isolation
    BY <1>1 DEF TracesInOrder, TracesEarned, Known, Isolation
<1>5. EchoesRemembered
    BY DEF Init, EchoesRemembered
<1>. QED
    BY <1>2, <1>3, <1>4, <1>5 DEF IInv

\* Every step keeps the inductive invariant.
LEMMA InvStep == IInv /\ [Next]_vars => IInv'
<1>. SUFFICES ASSUME IInv, [Next]_vars PROVE IInv'
    OBVIOUS
<1>1. TypeOK /\ TypeOK'
    BY TypeStep DEF IInv
<1>2. Progress' /\ TracesInOrder' /\ SentInOrder' /\ Isolation'
    BY <1>1, ProgressStep, TracesInOrderStep, SentInOrderStep, IsolationStep DEF IInv
<1>3. TracesEarned' /\ Known' /\ ErrorIsLast' /\ NoFalsePass'
    BY <1>1, TracesEarnedStep, KnownStep, ErrorIsLastStep, NoFalsePassStep DEF IInv
<1>4. EchoesRemembered'
    BY EchoesRememberedStep DEF IInv
<1>. QED
    BY <1>1, <1>2, <1>3, <1>4 DEF IInv

\* The inductive invariant holds in every reachable state.
THEOREM Invariance == Spec => []IInv
BY InitInv, InvStep, PTL DEF Spec

\* Every variable of runSuite and call stays in its range; in particular no
\* call, case or check is indexed that the suite does not have.
THEOREM TypeCorrect == Spec => []TypeOK
    BY Invariance, PTL DEF IInv

\* A case is reported as passed only if all its calls were made and every check
\* of them was met, and if its templates, or texts that responses to it put into
\* remembered variables, mention every argument it declares.
THEOREM PassesAreEarned == Spec => []NoFalsePass
    BY Invariance, PTL DEF IInv

\* The trace with the error is the last one: what the reporters take for "the
\* error" of a case is its only one.
THEOREM OneError == Spec => []ErrorIsLast
    BY Invariance, PTL DEF IInv

\* runSuite returns one result for each case, in the order of the file, skipped
\* exactly for the ignored ones.
THEOREM OneResult == Spec => []OneResultPerCase
<1>1. IInv => OneResultPerCase
  <2>. SUFFICES ASSUME IInv PROVE OneResultPerCase
      OBVIOUS
  <2>1. pc = "done" => Len(results) = Len(Cases)
      BY DEF IInv, Progress, InCase
  <2>. QED
      BY <2>1 DEF IInv, Progress, OneResultPerCase
<1>. QED
    BY <1>1, Invariance, PTL

\* A case starts without the variables of the cases before it.
THEOREM CasesIsolated == Spec => []Isolation
    BY Invariance, PTL DEF IInv

\* Requests are sent in the order of the file, each at most once, and none of a
\* case after one of its calls has failed.
THEOREM StopsAtError == Spec => NoRequestAfterError
<1> DEFINE A == sent' # sent =>
                  /\ sent' = Append(sent, <<ci, k>>)
                  /\ \A n \in 1 .. Len(sent) :
                         sent[n][1] < ci \/ (sent[n][1] = ci /\ sent[n][2] < k)
                  /\ \A j \in 1 .. Len(traces) : traces[j].err = "none"
<1>1. IInv /\ [Next]_vars => [A]_vars
  <2>. SUFFICES ASSUME IInv, Next PROVE A
      BY DEF vars
  <2>1. CASE Exchange
      BY <2>1 DEF Exchange, IInv, SentInOrder, TracesInOrder, InCase
  <2>2. CASE UNCHANGED sent
      BY <2>2
  <2>. QED
      BY <2>1, <2>2 DEF Next, Over, vars, SkipCase, StartCase, StartCall, NoMoreCalls, EndCase,
         PanicWithoutTraces, PanicAtPath, Return, BodyContent, PopulateRequest,
       PopulateWith, Expectations, Check, RememberAll
<1>. QED
    BY <1>1, Invariance, PTL DEF Spec, NoRequestAfterError

-----------------------------------------------------------------------------
(* The suite runner implements its contract *)

Verdicts == [i \in 1 .. Len(results) |-> VerdictOf(results[i])]

\* A new result is a new verdict.
LEMMA VerdictsGrow ==
    ASSUME TypeOK, NEW r \in ResultRecord, results' = Append(results, r)
    PROVE  Verdicts' = Append(Verdicts, VerdictOf(r))
<1>1. /\ results \in Seq(ResultRecord) /\ Len(results) \in Nat
      /\ Len(results') = Len(results) + 1 /\ results'[Len(results) + 1] = r
      /\ \A i \in 1 .. Len(results) : results'[i] = results[i]
    BY LenProperties, AppendProperties DEF TypeOK
<1> DEFINE n == Len(results)
           W(i) == VerdictOf(results[i])
           V(i) == VerdictOf(results'[i])
<1>2. Verdicts = [i \in 1 .. n |-> W(i)] /\ Verdicts' = [i \in 1 .. n + 1 |-> V(i)]
    BY <1>1 DEF Verdicts, VerdictOf, Errors
<1>3. V(n + 1) = VerdictOf(r) /\ \A i \in 1 .. n : V(i) = W(i)
    BY <1>1
<1>4. n \in Nat
    BY <1>1
<1> HIDE DEF n, V, W
<1>5. Len(Verdicts) = n
    BY <1>2, <1>4
<1>6. Append(Verdicts, VerdictOf(r)) =
          [i \in 1 .. n + 1 |-> IF i = n + 1 THEN VerdictOf(r) ELSE Verdicts[i]]
    BY <1>2, <1>4, <1>5
<1>7. \A i \in 1 .. n + 1 : i \in 1 .. n \/ i = n + 1
    BY <1>4
<1>8. \A i \in 1 .. n + 1 : V(i) = IF i = n + 1 THEN VerdictOf(r) ELSE Verdicts[i]
    BY <1>2, <1>3, <1>7
<1>. QED
    BY <1>2, <1>6, <1>8

\* The execution of any suite is an execution of SuiteContract: it settles the
\* cases in order, passes none it may not pass, and panics at no other case
\* than one with arguments and no calls or one with a path below zero.
THEOREM Refinement == Spec => ImplementsContract
<1>1. Init => Contract!Init
  <2>. SUFFICES ASSUME Init PROVE Contract!Init
      OBVIOUS
  <2>1. results = << >> /\ Len(results) = 0 /\ pc = "case"
      BY EmptySeq DEF Init
  <2>2. Verdicts = << >>
      BY <2>1 DEF Verdicts
  <2>. QED
      BY <2>1, <2>2 DEF Contract!Init, Verdicts
<1>2. IInv /\ [Next]_vars => [Contract!Next]_(Contract!vars)
  <2>. SUFFICES ASSUME IInv, [Next]_vars PROVE [Contract!Next]_(Contract!vars)
      OBVIOUS
  <2>1. TypeOK /\ Len(Cases) \in Nat /\ ci \in 0 .. Len(Cases) /\ Len(Verdicts) = Len(results)
        /\ Len(results) \in Nat /\ IInv'
      BY CasesAssumption, InvStep, LenProperties DEF IInv, TypeOK, Verdicts
  <2>2. ASSUME NEW v, pc \notin {"done", "panicked"}, pc' \notin {"done", "panicked"}, Len(results) < Len(Cases),
               v \in Contract!MayBe(Len(results) + 1), Verdicts' = Append(Verdicts, v)
        PROVE  Contract!Next
    <3> DEFINE ending == CASE pc = "panicked" -> "panicked"
                           [] pc = "done" -> "returned"
                           [] OTHER -> "none"
    <3>1. ending = "none" /\ ending' = ending
        BY <2>2
    <3>2. /\ Len(Verdicts) + 1 <= Len(Cases)
          /\ v \in Contract!MayBe(Len(Verdicts) + 1) /\ Verdicts' = Append(Verdicts, v)
        BY <2>1, <2>2
    <3>3. Contract!Settle
        BY <3>1, <3>2 DEF Contract!Settle, Contract!current, Verdicts
    <3>. QED
        BY <3>3 DEF Contract!Next
  <2>3. CASE SkipCase
    <3>1. results' = Append(results, Skipped(ci + 1)) /\ ci + 1 \in 1 .. Len(Cases)
          /\ Cases[ci + 1].ignored /\ Len(results) = ci
          /\ pc \notin {"done", "panicked"} /\ pc' \notin {"done", "panicked"}
        BY <2>1, <2>3 DEF SkipCase, ResultsAfterSkip, IInv, Progress, InCase
    <3>2. Skipped(ci + 1) \in ResultRecord /\ VerdictOf(Skipped(ci + 1)) = "skipped"
        BY <3>1, EmptySeq DEF Skipped, ResultRecord, VerdictOf
    <3>3. Verdicts' = Append(Verdicts, "skipped")
        BY <2>1, <3>1, <3>2, VerdictsGrow
    <3>4. "skipped" \in Contract!MayBe(ci + 1)
        BY <3>1 DEF Contract!MayBe
    <3>. QED
        BY <2>1, <2>2, <3>1, <3>3, <3>4
  <2>4. CASE EndCase
    <3> DEFINE r == [case |-> ci, skipped |-> FALSE, traces |-> WithUnused]
    <3>1. results' = Append(results, r) /\ ci \in 1 .. Len(Cases) /\ InCase
          /\ ~Cases[ci].ignored /\ Len(results) + 1 = ci
          /\ pc \notin {"done", "panicked"} /\ pc' \notin {"done", "panicked"}
        BY <2>1, <2>4 DEF EndCase, IInv, Progress, InCase, TypeOK, case
    <3>2. r.case = ci /\ r.skipped = FALSE
        OBVIOUS
    <3> HIDE DEF r
    <3>3. Len(results') = ci /\ results'[ci] = r /\ results' \in Seq(ResultRecord)
        BY <2>1, <3>1, AppendProperties DEF IInv, TypeOK
    <3>4. r \in ResultRecord
        BY <3>1, <3>3, ElementOfSeq
    <3>5. Verdicts' = Append(Verdicts, VerdictOf(r))
        BY <2>1, <3>1, <3>4, VerdictsGrow
    <3>6. Errors(r) = {} /\ Cases[ci].calls # << >> /\ ~Remembers(ci)
              => Declares(ci) \subseteq Mentioned(ci)
      <4>1. NoFalsePass'
          BY <2>1 DEF IInv
      <4>2. ci \in 1 .. Len(results')
          BY <3>1, <3>3
      <4>3. LET x == results'[ci]
            IN Passed(x) /\ Cases[x.case].calls # << >> =>
                   Declares(x.case) \subseteq Mentioned(x.case) \cup {v \in Var : <<x.case, v>> \in echoed'}
          BY <4>1, <4>2 DEF NoFalsePass, Passed, Errors, Declares, Mentioned, Echoed
      <4>4. ~Remembers(ci) => {v \in Var : <<ci, v>> \in echoed'} = {}
        <5>1. \A e \in echoed' : Remembers(e[1])
            BY <2>1 DEF IInv, EchoesRemembered, Remembers
        <5>2. \A v : <<ci, v>>[1] = ci
            OBVIOUS
        <5>. QED
            BY <5>1, <5>2
      <4>. QED
          BY <3>2, <3>3, <4>3, <4>4 DEF Passed
    <3>7. VerdictOf(r) \in Contract!MayBe(ci)
        BY <3>1, <3>2, <3>6 DEF VerdictOf, Contract!MayBe
    <3>. QED
        BY <2>1, <2>2, <3>1, <3>5, <3>7
  <2>5. CASE Return
    <3>1. UNCHANGED results /\ pc' = "done" /\ pc = "case" /\ Len(results) = Len(Cases)
        BY <2>5 DEF Return, IInv, Progress, InCase
    <3>2. Contract!Return
        BY <2>1, <3>1 DEF Contract!Return, Verdicts
    <3>. QED
        BY <3>2 DEF Contract!Next
  <2>6. CASE PanicWithoutTraces
    <3>1. /\ UNCHANGED results /\ pc' = "panicked" /\ pc = "unused"
          /\ Unused # {} /\ traces = << >> /\ InCase /\ ~InCall
        BY <2>6 DEF PanicWithoutTraces, InCase, InCall
    <3>2. ci \in 1 .. Len(Cases) /\ case = Cases[ci] /\ Len(results) + 1 = ci
        BY <2>1, <3>1 DEF IInv, Progress, TypeOK, InCase, case
    <3>3. Len(traces) = 0 /\ k = 0 /\ NoError /\ Len(case.calls) = 0
        BY <3>1, EmptySeq DEF IInv, TracesInOrder, NoError
    <3>4. Cases[ci].calls = << >>
        BY <3>2, <3>3, CaseFacts, EmptySeq
    <3>5. items \subseteq Names(Cases[ci].args) /\ items # {}
        BY <3>1, <3>3 DEF IInv, Isolation, InCase, Declared, Unused
    <3>6. Cases[ci].args # {}
        BY <3>5 DEF Names
    <3>7. Contract!Panic
        BY <2>1, <3>1, <3>2, <3>4, <3>6 DEF Contract!Panic, Contract!current, Verdicts
    <3>. QED
        BY <3>7 DEF Contract!Next
  <2>7. CASE PanicAtPath
    <3>1. /\ UNCHANGED results /\ pc' = "panicked" /\ pc = "check" /\ InCase
          /\ call.below # {}
        BY <2>7 DEF PanicAtPath, InCase
    <3>2. /\ ci \in 1 .. Len(Cases) /\ k \in 1 .. Len(Cases[ci].calls)
          /\ call = Cases[ci].calls[k] /\ Len(results) + 1 = ci
        BY <2>1, <3>1, CaseFacts DEF IInv, Progress, TypeOK, InCase, case, call
    <3>3. Contract!Panic
        BY <2>1, <3>1, <3>2 DEF Contract!Panic, Contract!current, Verdicts
    <3>. QED
        BY <3>3 DEF Contract!Next
  <2>8. CASE UNCHANGED results /\ pc \notin {"done", "panicked"} /\ pc' \notin {"done", "panicked"}
      BY <2>8 DEF Contract!vars, VerdictOf, Errors
  <2>9. CASE CallStep
    <3>1. pc \notin {"done", "panicked"}
        BY <2>1, <2>9, CallStepTraces DEF IInv, InCase
    <3>. QED
        BY <2>1, <2>8, <2>9, <3>1, CallStepFacts
  <2>10. CASE StartCase \/ StartCall \/ NoMoreCalls
      BY <2>8, <2>10 DEF StartCase, StartCall, NoMoreCalls
  <2>11. CASE UNCHANGED vars
      BY <2>11 DEF vars, Contract!vars, VerdictOf, Errors
  <2>. QED
      BY <2>3, <2>4, <2>5, <2>6, <2>7, <2>8, <2>9, <2>10, <2>11 DEF Next, CallStep, Over
<1>. QED
    BY <1>1, <1>2, Invariance, PTL DEF Spec, ImplementsContract, Contract!Spec

=============================================================================
