--------------------------- MODULE SuiteContract ----------------------------
(***************************************************************************)
(* What the execution of a suite promises to the goroutine that runs it,   *)
(* whatever the server answers: a verdict for each case in the order of    *)
(* the file, and then a return; or a panic at a case that may cause one.   *)
(* It says nothing of variables, calls, requests and checks.               *)
(***************************************************************************)
EXTENDS Naturals, Sequences

CONSTANTS
    Count,          \* the number of cases
    Ignored,        \* the cases that are not run
    MayPass,        \* the cases that may be reported as passed
    MayPanic        \* the cases that may end the process

VARIABLES
    verdicts,       \* "passed", "failed" or "skipped" for the cases so far
    ending          \* "none", "returned" or "panicked"

vars == <<verdicts, ending>>

Init == verdicts = << >> /\ ending = "none"

current == Len(verdicts) + 1

MayBe(c) ==
    IF c \in Ignored THEN {"skipped"}
    ELSE {"failed"} \cup {v \in {"passed"} : c \in MayPass}

Settle ==
    /\ ending = "none" /\ current <= Count
    /\ \E v \in MayBe(current) : verdicts' = Append(verdicts, v)
    /\ UNCHANGED ending

Return ==
    /\ ending = "none" /\ Len(verdicts) = Count
    /\ ending' = "returned"
    /\ UNCHANGED verdicts

Panic ==
    /\ ending = "none" /\ current \in MayPanic
    /\ ending' = "panicked"
    /\ UNCHANGED verdicts

Next == Settle \/ Return \/ Panic

Spec == Init /\ [][Next]_vars

=============================================================================
