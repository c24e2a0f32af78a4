----------------------------- MODULE MCLoading ------------------------------
(* Contents of files and arguments for TLC. *)
EXTENDS Loading

CONSTANTS
    suite,      \* a suite in order
    twins,      \* two cases of one name
    number,     \* a number as a path to remember: valid, and not decoded
    extra,      \* a field that the schema does not know
    nulls,      \* [null]
    text        \* no JSON

MCContents == {suite, twins, number, extra, nulls, text}
MCSchemaValid == {suite, twins, number}
MCNamed == {suite, number, extra}
MCDecodable == {suite, twins, extra, nulls}
MCNullCases == {nulls}

Given(v, h, host, dir, headers) ==
    [version |-> v, help |-> h, host |-> host, dir |-> dir, headers |-> headers]
Proper == Given(FALSE, FALSE, TRUE, TRUE, TRUE)

MCArguments ==
    {Proper, [Proper EXCEPT !.version = TRUE], [Proper EXCEPT !.help = TRUE],
     [Proper EXCEPT !.host = FALSE], [Proper EXCEPT !.dir = FALSE],
     [Proper EXCEPT !.headers = FALSE]}

=============================================================================
