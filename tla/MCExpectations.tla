--------------------------- MODULE MCExpectations ---------------------------
(* Expectations and responses for TLC. *)
EXTENDS Expectations

Nothing ==
    [status |-> "", schemas |-> {}, unloadable |-> {}, paths |-> {}, bodies |-> {},
     absent |-> {}, headers |-> {}, contentType |-> "", body |-> {}, header |-> {}]

\* What one call may ask of the status, the headers and the type, of the body, and
\* to remember.
Outer ==
    {[Nothing EXCEPT !.status = s, !.headers = h, !.contentType = t] :
        s \in {"", "200"}, h \in {{}, {<<"X", "1">>}, {<<"X", "">>, <<"Y", "2">>}}, t \in {"", "json"}}
Inner ==
    {[Nothing EXCEPT !.schemas = s, !.paths = p, !.bodies = b, !.absent = a] :
        s \in {{}, {"uri", "raw"}}, p \in {{}, {"p", "q"}}, b \in SUBSET {"body", "exact"},
        a \in {{}, {"gone"}}}
Remember == {<<{}, {}>>, <<{"v", "w"}, {"X"}>>}

MCExpects ==
    {[x EXCEPT !.status = o.status, !.headers = o.headers, !.contentType = o.contentType,
               !.body = r[1], !.header = r[2]] : x \in Inner, o \in Outer, r \in Remember}
        \cup {[Nothing EXCEPT !.schemas = {"file"}, !.unloadable = u] : u \in {{}, {"file"}}}
Response(status, media, body, holds, headers, has) ==
    [status |-> status, media |-> media, body |-> body, holds |-> holds,
     headers |-> headers, has |-> has]

All == {"uri", "file", "raw", "p", "q", "body", "exact", "gone"}
BothHeaders == <<<<"X", "1">>, <<"Y", "2">>>>

MCResponses ==
    {Response("200", m, "good", h, BothHeaders, {"v", "w"}) :
        m \in {"json", "xml", ""}, h \in {All, All \ {"p"}, All \ {"p", "q"}, All \ {"exact"}, All \ {"raw"}}}
    \cup {Response("200", "json", b, {"gone"}, BothHeaders, {}) : b \in {"empty", "malformed"}}
    \cup {Response("500", "json", "good", All, hs, {"v"}) :
        hs \in {<< >>, BothHeaders, <<<<"X", "3">>, <<"Y", "2">>>>, <<<<"X", "">>, <<"Y", "2">>>>,
                <<<<"X", "3">>, <<"Y", "2">>, <<"X", "1">>>>, <<<<"Y", "2">>, <<"X", "1">>, <<"X", "">>>>}}

=============================================================================
