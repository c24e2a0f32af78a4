--------------------------- MODULE MCSchemaCache ----------------------------
(* Workers, references and sources for TLC. *)
EXTENDS SchemaCache

CONSTANTS v1, v2, page

File(absolute, dir, name) == [kind |-> "file", absolute |-> absolute, dir |-> dir, name |-> name]
URI(absolute, name) == [kind |-> "uri", absolute |-> absolute, dir |-> << >>, name |-> name]

\* One file under two names, its name on the server and a URL.
Relative == File(FALSE, <<"users">>, <<"user.json">>)
Absolute == File(TRUE, << >>, <<"tests", "users", "user.json">>)
OnServer == URI(FALSE, <<"tests", "users", "user.json">>)
Elsewhere == URI(TRUE, <<"http://schemas", "user.json">>)

MCRefs == {Relative, Absolute, OnServer, Elsewhere}
MCWorkers == 1 .. 3

\* Two workers check one file and one URI, one of them both in one call, and
\* a third the file and a schema of another host.
MCCalls ==
    <<  <<<<OnServer, Relative>>, <<OnServer>>, <<Relative>>>>,
        <<<<Absolute>>, <<OnServer>>>>,
        <<<<Elsewhere, Relative>>>>  >>

MCDir == <<"tests">>
MCHost == <<"http://host">>

=============================================================================
