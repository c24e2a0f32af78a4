---------------------------- MODULE Expectations ----------------------------
(***************************************************************************)
(* What becomes of a response: the list of checks that expectations        *)
(* (main.go) makes of the Expect of a call, the checks themselves          *)
(* (expect.go), the trace that records them (types.go), the values that    *)
(* are remembered and the last word of runSuite on arguments nobody used.  *)
(*                                                                         *)
(* A condition on the body (a schema, an expected body, a path and its     *)
(* value, a path that must be absent) is a name; `holds` of a response is  *)
(* the set of those that are true of it.  The parsed body is kept by       *)
(* Response.Body and changed by nobody, so that parsing is a function of   *)
(* the response here.                                                      *)
(***************************************************************************)
EXTENDS Naturals, Sequences, FiniteSets, SequencesExt

CONSTANTS
    \* [status, schemas, unloadable, paths, bodies, absent, headers, contentType,
    \* body, header]: the Expect of a call and, last, the names it remembers.
    Expects,
    \* [status, media, body, holds, headers, has]: body is "empty", "good" or
    \* "malformed", headers the lines of names and values in their order, has what
    \* can be remembered.
    Responses

ASSUME ExpectsAssumption ==
    \A e \in Expects :
        /\ e.schemas \subseteq {"uri", "file", "raw"} /\ e.bodies \subseteq {"body", "exact"}
        /\ IsFiniteSet(e.headers)

VARIABLES
    expect, response,   \* the inputs
    exps,       \* the list of checks
    i,          \* how many of them are done
    err,        \* trace.ErrorCause, << >> for nil
    described,  \* trace.ExpDesc, the texts, each "met" or "failed"
    todo,       \* the values of the body that are not remembered yet
    remembered, \* the values that are
    pc          \* where the call is

vars == <<expect, response, exps, i, err, described, todo, remembered, pc>>

Init ==
    /\ expect \in Expects /\ response \in Responses
    /\ exps = << >> /\ i = 0
    /\ err = << >> /\ described = {}
    /\ todo = expect.body /\ remembered = {}
    /\ pc = "expectations"

-----------------------------------------------------------------------------
(* Response.Body *)

\* A body that is empty parses as nil, whatever its type is.
Parses ==
    \/ response.body = "empty"
    \/ response.body = "good" /\ response.media \in {"json", "xml", "html"}

-----------------------------------------------------------------------------
(* expectations *)

Optional(condition, exp) == IF condition THEN <<exp>> ELSE << >>
Exp(kind, of) == [kind |-> kind, of |-> of]

ExactAlone == expect.bodies = {"exact"}
ExactExpected == "exact" \in expect.bodies

\* A Go map of headers gives them in any order; everything else has its place.
Lists ==
    {Optional(expect.status # "", Exp("status", {expect.status}))
        \o Optional("uri" \in expect.schemas, Exp("schema", {"uri"}))
        \o Optional("file" \in expect.schemas, Exp("schema", {"file"}))
        \o Optional("raw" \in expect.schemas, Exp("schema", {"raw"}))
        \o Optional(expect.paths # {}, Exp("paths", expect.paths))
        \o Optional("body" \in expect.bodies, Exp("body", {"body"}))
        \o Optional(ExactExpected, Exp("body", {"exact"}))
        \o Optional(expect.absent # {}, Exp("absent", expect.absent))
        \o order
        \o Optional(expect.contentType # "", Exp("type", {expect.contentType}))
     : order \in SetToSeqs({Exp("header", {h[1]}) : h \in expect.headers})}

expectations ==
    /\ pc = "expectations"
    /\ \/ /\ expect.unloadable = {}
          /\ \E list \in Lists : exps' = list
          /\ pc' = "check"
          /\ UNCHANGED err
       \/ /\ expect.unloadable # {}
          /\ err' = <<"schema">>
          /\ pc' = "unused"
          /\ UNCHANGED exps
    /\ UNCHANGED <<expect, response, i, described, todo, remembered>>

-----------------------------------------------------------------------------
(* ResponseExpectation.check *)

\* Header.Get gives the first of the values of a name; what is empty counts as missing.
IsFirst(n) == \A m \in 1 .. n - 1 : response.headers[m][1] # response.headers[n][1]
HeaderOf(name) ==
    {response.headers[n][2] :
        n \in {m \in DOMAIN response.headers : response.headers[m][1] = name /\ IsFirst(m)}} \ {""}

HeaderMeets(h) == HeaderOf(h[1]) # {} /\ (h[2] = "" \/ h[2] \in HeaderOf(h[1]))

\* The schemas are JSON schemas; paths are looked up one by one, in any order.
Meets(exp) ==
    CASE exp.kind = "status" -> response.status \in exp.of
      [] exp.kind = "schema" -> /\ response.media = "json" /\ response.body = "good"
                                /\ exp.of \subseteq response.holds
      [] exp.kind \in {"paths", "body", "absent"} -> Parses /\ exp.of \subseteq response.holds
      [] exp.kind = "header" -> \A h \in expect.headers : h[1] \in exp.of => HeaderMeets(h)
      [] exp.kind = "type" -> response.media # "" /\ response.media \in exp.of

\* desc(): the same text for both bodies and for any paths.
Desc(exp) == CASE exp.kind \in {"paths", "body"} -> [kind |-> exp.kind, of |-> {}]
               [] OTHER -> exp

\* What an error says: the first condition that does not hold.
Failures(exp) ==
    IF exp.kind \in {"paths", "absent"} /\ Parses THEN exp.of \ response.holds ELSE exp.of

AfterAnyCheck == pc
AfterFailed == "unused"

addExp(exp) == described \cup {<<Desc(exp), "met">>}
addFail(exp, error) == described \cup {<<error, "failed">>}

Check ==
    /\ pc = "check" /\ i < Len(exps)
    /\ LET exp == exps[i + 1]
       IN \/ /\ Meets(exp)
             /\ described' = addExp(exp)
             /\ UNCHANGED <<err, pc>>
          \/ /\ ~Meets(exp)
             /\ \E failure \in Failures(exp) :
                   LET error == [kind |-> exp.kind, of |-> {failure}]
                   IN /\ err' = <<"check", error>>
                      /\ described' = addFail(exp, error)
             /\ pc' = AfterFailed
    /\ i' = i + 1
    /\ UNCHANGED <<expect, response, exps, todo, remembered>>

AllMet ==
    /\ pc = "check" /\ i = Len(exps)
    /\ pc' = "remember"
    /\ UNCHANGED <<expect, response, exps, i, err, described, todo, remembered>>

-----------------------------------------------------------------------------
(* rememberBody, rememberHeaders *)

AfterAnyValue == "remember"
AfterNotFound == "unused"

RememberBody ==
    /\ pc = "remember"
    /\ \E name \in todo :
          /\ todo' = todo \ {name}
          /\ \/ /\ Parses /\ name \in response.has
                /\ remembered' = remembered \cup {name}
                /\ UNCHANGED <<err, pc>>
             \/ /\ ~Parses \/ name \notin response.has
                /\ err' = <<"remember">>
                /\ pc' = AfterNotFound
                /\ UNCHANGED remembered
    /\ UNCHANGED <<expect, response, exps, i, described>>

Found == {name \in expect.header : HeaderOf(name) # {}}

RememberHeaders ==
    /\ pc = "remember" /\ todo = {}
    /\ remembered' = remembered \cup Found
    /\ pc' = "unused"
    /\ UNCHANGED <<expect, response, exps, i, err, described, todo>>

-----------------------------------------------------------------------------
(* The end of the case in runSuite *)

\* Arguments of the case, or values remembered just now, may be unused; the error
\* of the trace, if there is one, is kept.
ReportUnused ==
    /\ pc = "unused"
    /\ err' \in {err, IF err = << >> THEN <<"unused">> ELSE err}
    /\ pc' = "done"
    /\ UNCHANGED <<expect, response, exps, i, described, todo, remembered>>

Over == pc = "done" /\ UNCHANGED vars

Next ==
    \/ expectations \/ Check \/ AllMet \/ RememberBody \/ RememberHeaders \/ ReportUnused
    \/ Over

Spec == Init /\ [][Next]_vars

-----------------------------------------------------------------------------
(* CallTrace *)

hasFailedExp == \E d \in described : d[2] = "failed"
Terminated == err # << >> /\ ~hasFailedExp

\* What the console reporter writes of a failed case's last call.
Shown == IF Terminated THEN {err} ELSE {<<"check", d[1]>> : d \in {e \in described : e[2] = "failed"}}

-----------------------------------------------------------------------------
(* Properties *)

Kinds == {"status", "schema", "paths", "body", "absent", "header", "type"}

\* Every check is one of the list, and only what the call names is remembered.
TypeOK ==
    /\ \A n \in DOMAIN exps : exps[n].kind \in Kinds /\ exps[n].of # {}
    /\ i \in 0 .. Len(exps)
    /\ err = << >> \/ err \in {<<"schema">>, <<"remember">>, <<"unused">>} \/ err[1] = "check"
    /\ \A d \in described : d[1].kind \in Kinds /\ d[2] \in {"met", "failed"}
    /\ todo \subseteq expect.body
    /\ remembered \subseteq expect.body \cup expect.header
    /\ pc \in {"expectations", "check", "remember", "unused", "done"}

\* What the table of README.md:133 asks of a response, field by field.  A header that
\* comes more than once counts by its first line alone.
AsExpected ==
    /\ expect.status \in {"", response.status}
    /\ expect.schemas # {} => response.media = "json" /\ response.body = "good"
    /\ expect.paths \cup expect.bodies \cup expect.absent # {} => Parses
    /\ expect.schemas \cup expect.paths \cup expect.bodies \cup expect.absent
           \subseteq response.holds
    /\ \A h \in expect.headers :
           \E n \in DOMAIN response.headers :
               /\ response.headers[n][1] = h[1] /\ IsFirst(n)
               /\ response.headers[n][2] # "" /\ h[2] \in {"", response.headers[n][2]}
    /\ expect.contentType \in {"", response.media}

\* A call passes only if the response is as expected and has what the call
\* remembers of its body, and fails for a check only if it is not, in whatever
\* order headers and paths are looked at.
Verdict ==
    /\ pc = "done" /\ err = << >> =>
           /\ AsExpected /\ expect.unloadable = {}
           /\ expect.body # {} => Parses /\ expect.body \subseteq remembered
    /\ hasFailedExp => ~AsExpected

\* The report of a failed call names its error and no other: as the reason it was
\* terminated, or as the one failure among its expectations.
ErrorShown == err # << >> => Shown = {err}

\* An expectation listed as met is met: what fails is listed by its error alone.
ListedAreMet ==
    \A d \in described : d[2] = "met" =>
        \E n \in 1 .. i : Desc(exps[n]) = d[1] /\ Meets(exps[n])

\* Nothing of a response that is not as expected is remembered, and no header
\* unless all values of the body are.
RememberedAfterChecks ==
    remembered # {} =>
        /\ AsExpected
        /\ ~(remembered \subseteq expect.body) => expect.body \subseteq remembered

=============================================================================
