--------------------------- MODULE MCParallelRun ----------------------------
(***************************************************************************)
(* Instances of ParallelRun for TLC: five suite files of every kind, and   *)
(* four of which two pairs share a full name.                              *)
(***************************************************************************)
EXTENDS ParallelRun

MCLabel == {"", "users", "login", "admin", "git"}

Suite(dir, base, xext) == [dir |-> dir, base |-> base, xext |-> xext]

\* login.suite.json at the root and under users/, a file ToSuite rejects, an
\* ignored suite and a suite without cases in a hidden directory.
MCFiles ==
    << Suite(<< <<"users">> >>, <<"login">>, FALSE),
       Suite(<< >>, <<"login">>, FALSE),
       Suite(<< <<"users">> >>, <<"admin">>, FALSE),
       Suite(<< <<"users">> >>, <<"git">>, TRUE),
       Suite(<< <<"", "git">> >>, <<"admin">>, FALSE) >>

MCOutcomes ==
    << {<<"passed">>, <<"passed", "failed">>},
       {<<"passed">>, <<"skipped", "failed">>},
       {<<"passed">>},
       {<<"skipped", "skipped">>},
       {<< >>} >>

MCLeftOver == {<<"users", "login">>, <<"admin">>}

\* The same base name with both extensions, twice the same dotted path.
CollidingFiles ==
    << Suite(<< <<"users">> >>, <<"login">>, FALSE),
       Suite(<< <<"users">> >>, <<"login">>, TRUE),
       Suite(<< <<"users", "admin">> >>, <<"git">>, FALSE),
       Suite(<< <<"users">>, <<"admin">> >>, <<"git">>, FALSE) >>

CollidingOutcomes ==
    << {<<"passed">>}, {<<"skipped">>}, {<<"failed">>}, {<<"passed">>} >>

=============================================================================
