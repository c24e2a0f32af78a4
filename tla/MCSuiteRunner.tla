--------------------------- MODULE MCSuiteRunner ----------------------------
(* Suites for TLC. *)
EXTENDS SuiteRunner

MCVar == {"user", "url", "token"}

NoArgs == {}
A(name, refs) == [name |-> name, refs |-> refs]
C(args, content, on, expect, checks, body, headers, below) ==
    [args |-> args, content |-> content, on |-> on, expect |-> expect, checks |-> checks,
     body |-> body, headers |-> headers, below |-> below]
Case(ignored, args, calls) == [ignored |-> ignored, args |-> args, calls |-> calls]

\* A case that logs in and uses what it remembers, whose user is used only if the
\* remembered token names it, and whose paths may be below zero; an ignored one;
\* one whose argument nothing mentions and which names variables of the first;
\* one that remembers nothing and mentions all it declares; one without calls,
\* one with arguments and no calls.
MCCases ==
    << Case(FALSE, {A("user", {}), A("url", {})},
            << C(NoArgs, {}, {"url"}, {}, 2, {"token"}, {"url"}, {"check", "remember"}),
               C({A("url", {"token"})}, {"url"}, {}, {"token"}, 1, {}, {}, {}) >>),
       Case(TRUE, {A("user", {})}, << C(NoArgs, {}, {"user"}, {}, 1, {}, {}, {}) >>),
       Case(FALSE, {A("url", {})}, << C(NoArgs, {}, {"user"}, {"token"}, 1, {}, {}, {}) >>),
       Case(FALSE, {A("user", {}), A("url", {"user"})},
            << C(NoArgs, {}, {"url"}, {}, 1, {}, {}, {}) >>),
       Case(FALSE, NoArgs, << >>),
       Case(FALSE, {A("user", {})}, << >>) >>

\* Arguments, and no calls to use them.
EmptyCases == << Case(FALSE, {A("user", {})}, << >>) >>

=============================================================================
