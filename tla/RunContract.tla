---------------------------- MODULE RunContract -----------------------------
(***************************************************************************)
(* What a run of bozr promises whoever reads its output, whatever the      *)
(* number of workers: every suite is reported at most once, with a result  *)
(* its execution could return; the summary comes last, covers every suite  *)
(* that had to be reported, and says FAILED exactly when a reported case   *)
(* failed.  A run may also end in a crash, and then has no summary.        *)
(***************************************************************************)
CONSTANTS
    Suite,          \* the suites found under the root directory
    Mandatory,      \* those no summary may leave out
    MayReport,      \* [Suite -> set of results its execution may return]
    Fails(_)        \* does this result hold a failed case?

VARIABLES
    reports,        \* set of [suite, results]: what has been printed
    verdict         \* "none", "PASSED" or "FAILED": the printed summary

vars == <<reports, verdict>>

Reported == {r.suite : r \in reports}

Init == /\ reports = {}
        /\ verdict = "none"

Report(s) ==
    /\ verdict = "none"
    /\ s \notin Reported
    /\ \E r \in MayReport[s] : reports' = reports \cup {[suite |-> s, results |-> r]}
    /\ UNCHANGED verdict

Summarise ==
    /\ verdict = "none"
    /\ Mandatory \subseteq Reported
    /\ verdict' = IF \E r \in reports : Fails(r.results) THEN "FAILED" ELSE "PASSED"
    /\ UNCHANGED reports

Next == (\E s \in Suite : Report(s)) \/ Summarise

Spec == Init /\ [][Next]_vars

=============================================================================
