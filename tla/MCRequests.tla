----------------------------- MODULE MCRequests -----------------------------
(* Flags, calls and headers for TLC. *)
EXTENDS Requests

Plain == {<<"A", "1">>, <<"A", "2">>, <<"B", "1">>}
MCFlags == UNION {[1 .. n -> Plain \cup {<<"A">>, <<"A", "">>, <<"", "1">>}] : n \in 0 .. 2}
                \cup [1 .. 3 -> Plain]
                \cup {<< <<"A", "http", "//host">> >>, << <<"A", "http", "//host">>, <<"B", "1">> >>}

On(absolute, url, headers, params, failing) ==
    [absolute |-> absolute, url |-> url, headers |-> headers, params |-> params,
     failing |-> failing]

users == <<"users">>
a == <<"a">>

\* users, /users/, users/./1, users/../../x, users?q=1, users?next=http://host, ?a=a,
\* users?next=a/a&a&&a=%&=a, and no text.
MCUrls ==
    {<<users>>, <<Empty, users, Empty>>, <<users, Dot, a>>, <<users, DotDot, DotDot, a>>,
     << <<"users", "?", "q", "=", "1">> >>,
     << <<"users", "?", "next", "=", "http:">>, Empty, a>>,
     << <<"?", "a", "=", "a">> >>,
     << <<"users", "?", "next", "=", "a">>, <<"a", "&", "a", "&", "&", "a", "=", Bad, "&", "=", "a">> >>,
     << >>}
MCParams == {{}, {<<a, <<"1">>>>}}
MCHeaders == {{}, {<<"A", <<"1">>>>, <<"A", <<"3">>>>}}
MCOns ==
    {On(FALSE, u, h, {}, FALSE) : u \in MCUrls, h \in MCHeaders}
        \cup {On(FALSE, u, {}, {<<a, <<"1">>>>}, FALSE) : u \in MCUrls}
        \cup {On(TRUE, << <<"http:">>, Empty, <<"else">>, <<"users", "?", "a", "=">>, a>>, {}, p, FALSE) :
                  p \in MCParams}
        \cup {On(FALSE, <<users>>, {}, {}, TRUE)}

\* No path, /api, /api/v1/, and one with an escaped question mark.
MCBases ==
    {NoHost, << >>, <<Empty, <<"api">>>>, <<Empty, <<"api">>, <<"v1">>, Empty>>,
     <<Empty, <<"api", "?", "a">>>>}

MCLocations ==
    {NoLocation, [text |-> "http://host/users", path |-> "/users", parsed |-> TRUE],
     [text |-> "users", path |-> "", parsed |-> FALSE]}
MCTemplates ==
    {NoTemplate, [parses |-> FALSE, pieces |-> << >>],
     [parses |-> TRUE, pieces |-> <<"base", "{path}">>],
     [parses |-> TRUE, pieces |-> <<"base", "{unknown field}", "{path}">>],
     [parses |-> TRUE, pieces |-> <<"{variable}">>]}

=============================================================================
