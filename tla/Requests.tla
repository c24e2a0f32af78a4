------------------------------ MODULE Requests ------------------------------
(***************************************************************************)
(* What surrounds an exchange: newRequestConfig makes headers of the       *)
(* --header flags, populateRequest (main.go) makes a request of a call,    *)
(* the URL of the host and those headers, and LocationRewrite changes the  *)
(* Location of the response before the expectations see it (types.go).     *)
(*                                                                         *)
(* A header flag, and a value of a header, is the sequence of its parts    *)
(* between colons; a Location is a sequence of texts.  A URL is the        *)
(* sequence of its parts between slashes, those of its query too; the      *)
(* empty text has no parts.  A part is a sequence of texts and of the      *)
(* marks of a query; escapes are decoded, and one that cannot be, or a     *)
(* semicolon, is the mark Bad.  Fragments are left out.                    *)
(***************************************************************************)
EXTENDS Naturals, Sequences, FiniteSets, SequencesExt

CONSTANTS
    Flags,          \* sequences of header flags
    Ons,            \* [url, absolute, headers, params, failing]: the On of a call
    Bases,          \* paths of the host given with -H, or NoHost
    Locations,      \* [text, path, parsed] of Location headers, or NoLocation
    Templates       \* [parses, pieces] of a template for them, or NoTemplate

CONSTANTS NoHost, NoLocation, NoTemplate, NotSet

Part == Seq(STRING)
Empty == << >>
Dot == <<".">>
DotDot == <<"..">>
Bad == "%"

\* A flag has a text before its first colon.  Headers are pairs of a name and the
\* parts of a value.  url.ParseRequestURI accepts no path that does not start with a
\* slash, except the empty one.
ASSUME FlagsAssumption == Flags \subseteq Seq(Seq(STRING) \ {<< >>})
ASSUME OnsAssumption ==
    \A o \in Ons : o.url \in Seq(Part) /\ o.headers \subseteq STRING \X Seq(STRING)
ASSUME TemplatesAssumption ==
    \A t \in Templates \ {NoTemplate} : t.pieces \in Seq(STRING)
ASSUME LocationsAssumption ==
    \A l \in Locations \ {NoLocation} : {l.text, l.path} \subseteq STRING
ASSUME BasesAssumption ==
    \A b \in Bases \ {NoHost} : b \in Seq(Part) /\ (b # << >> => b[1] = Empty)

VARIABLES
    flags, on, base, template,  \* the inputs
    config,     \* Headers of RequestConfig
    request,    \* the request that was sent
    location,   \* the Location of its response
    output,     \* what a template has written so far
    answer,     \* the Location that the expectations see
    pc          \* where the call is, or how it ended

inputs == <<flags, on, base, template>>
vars == <<inputs, config, request, location, output, answer, pc>>

Init ==
    /\ flags \in Flags /\ on \in Ons /\ base \in Bases
    /\ template \in Templates
    /\ config = {} /\ request = NotSet
    /\ location = NotSet /\ output = << >> /\ answer = NotSet
    /\ pc = "start"

-----------------------------------------------------------------------------
(* newRequestConfig *)

Unparsable(flag) == ~(Len(flag) >= 2 /\ flag[2] # "")

\* A map from names to the second parts: the last flag of a name is kept.
HeadersOfFirst(fs) ==
    {<<fs[i][1], <<fs[i][2]>>>> : i \in {j \in DOMAIN fs : \A k \in 1 .. j - 1 : fs[k][1] # fs[j][1]}}
HeadersOf(fs) ==
    {<<fs[i][1], <<fs[i][2]>>>> : i \in {j \in DOMAIN fs : \A k \in j + 1 .. Len(fs) : fs[k][1] # fs[j][1]}}

newRequestConfig ==
    /\ pc = "start"
    /\ \/ /\ \E f \in ToSet(flags) : Unparsable(f)
          /\ pc' = "refused"
          /\ UNCHANGED config
       \/ /\ \A f \in ToSet(flags) : ~Unparsable(f)
          /\ pc' = "request"
          /\ config' = HeadersOf(flags)
    /\ UNCHANGED <<inputs, request, location, output, answer>>

-----------------------------------------------------------------------------
(* populateRequest *)

\* path.Clean takes one part after the other: empty parts and dots go, and a double
\* dot takes the name before it; at the root of a rooted path there is none.
Push(rooted, done, part) ==
    IF part \in {Empty, Dot} THEN done
    ELSE IF part # DotDot THEN Append(done, part)
    ELSE IF done # << >> /\ Last(done) # DotDot THEN Front(done)
    ELSE IF rooted THEN done
    ELSE Append(done, part)
Clean(rooted, parts) ==
    LET done[i \in 0 .. Len(parts)] ==
            IF i = 0 THEN << >> ELSE Push(rooted, done[i - 1], parts[i])
    IN done[Len(parts)]

\* A text that starts with a slash has an empty first part.
Rooted(parts) == parts # << >> /\ parts[1] = Empty

Join(b, p) ==
    LET clean == Clean(Rooted(b \o p), b \o p)
    IN IF Rooted(b \o p) THEN <<Empty>> \o (IF clean = << >> THEN <<Empty>> ELSE clean)
       ELSE IF clean = << >> /\ b \o p # << >> THEN <<Dot>>
       ELSE clean

\* What follows the name of the host: without a path there and a slash here, the
\* first part becomes the end of that name.  The whole text goes through path.Join,
\* the query too.
JoinPathFirst(b, p) == Join(p, b)
concatURL(b, p) == Join(b, p)

urlPrefix == IF on.absolute THEN on.url ELSE concatURL(base, on.url)

\* url.Parse cuts the text at the first question mark.
First(indices) == CHOOSE i \in indices : \A j \in indices : i <= j
At(mark, texts) == {i \in DOMAIN texts : texts[i] = mark}
Marked(text) == {i \in DOMAIN text : At("?", text[i]) # {}}
BeforeMark(mark, texts) == SubSeq(texts, 1, First(At(mark, texts)) - 1)
AfterMark(mark, texts) == SubSeq(texts, First(At(mark, texts)) + 1, Len(texts))

Path(text) ==
    LET i == First(Marked(text))
    IN IF Marked(text) = {} THEN text
       ELSE SubSeq(text, 1, i - 1) \o <<BeforeMark("?", text[i])>>
Query(text) ==
    LET i == First(Marked(text))
    IN IF Marked(text) = {} THEN << >>
       ELSE <<AfterMark("?", text[i])>> \o SubSeq(text, i + 1, Len(text))

\* url.Values of a query: its pieces between ampersands, but for empty and malformed
\* ones; each is a key and, after its first equals sign, a value.
Flat(parts) ==
    FlattenSeq([i \in DOMAIN parts |-> IF i = 1 THEN parts[i] ELSE <<"/">> \o parts[i]])
Pieces(texts) ==
    {SubSeq(texts, piece[1], piece[2]) : piece \in
        {p \in (1 .. Len(texts)) \X (1 .. Len(texts)) :
            /\ p[1] = 1 \/ texts[p[1] - 1] = "&"
            /\ p[2] = Len(texts) \/ texts[p[2] + 1] = "&"
            /\ \A i \in p[1] .. p[2] : texts[i] # "&"}}
Pair(piece) ==
    IF At("=", piece) = {} THEN <<piece, << >>>>
    ELSE <<BeforeMark("=", piece), AfterMark("=", piece)>>
Values(query) == {Pair(piece) : piece \in {p \in Pieces(Flat(query)) : Bad \notin ToSet(p)}}

SentHeaders == on.headers \cup config

\* The parameters are added to the values of the URL's query, which is written anew:
\* in the order of the keys and with other escapes, but with the same values.
SentRequest ==
    [path |-> Path(urlPrefix), query |-> Values(Query(urlPrefix)) \cup on.params,
     headers |-> SentHeaders]

populateRequest ==
    /\ pc = "request"
    /\ \/ /\ (~on.absolute /\ base = NoHost) \/ on.failing
          /\ pc' = "failed"
          /\ UNCHANGED request
       \/ /\ on.absolute \/ base # NoHost
          /\ ~on.failing    \* its URL parses, and its templates are in order
          /\ pc' = "sent"
          /\ request' = SentRequest
    /\ UNCHANGED <<inputs, config, location, output, answer>>

-----------------------------------------------------------------------------
(* LocationRewrite.Rewrite *)

\* What a piece of a template writes: a text is itself, the others ask for the
\* variable or for one of its fields.  The variable is there if the header is a URL
\* or a path; where it is not, the piece says that there is no value.
Error == "error"
NoValue == "no value"
Output(piece) ==
    CASE piece = "{path}" -> IF location.parsed THEN location.path ELSE NoValue
      [] piece = "{variable}" -> IF location.parsed THEN location.text ELSE NoValue
      [] piece = "{unknown field}" -> IF location.parsed THEN Error ELSE NoValue
      [] OTHER -> piece

Unchanged == IF location = NoLocation THEN NoLocation ELSE <<location.text>>

Receive ==
    /\ pc = "sent"
    /\ location' \in Locations
    /\ \/ /\ location' = NoLocation \/ template = NoTemplate
          /\ pc' = "received" /\ answer' = Unchanged'
       \/ /\ location' # NoLocation /\ template # NoTemplate
          /\ IF template.parses THEN pc' = "rewriting" /\ UNCHANGED answer
             ELSE pc' = "received" /\ answer' = Unchanged'
    /\ UNCHANGED <<inputs, config, request, output>>

\* The pieces are written to a buffer one after the other.  An error leaves the
\* header as it is: the buffer is dropped, and call drops the error.
HeaderWritten == output
HeaderKept == Unchanged

Execute ==
    /\ pc = "rewriting" /\ Len(output) < Len(template.pieces)
    /\ LET written == Output(template.pieces[Len(output) + 1])
       IN \/ /\ written # Error
             /\ output' = Append(output, written)
             /\ UNCHANGED <<answer, pc>>
          \/ /\ written = Error
             /\ answer' = HeaderKept /\ pc' = "received"
             /\ UNCHANGED output
    /\ UNCHANGED <<inputs, config, request, location>>

SetHeader ==
    /\ pc = "rewriting" /\ Len(output) = Len(template.pieces)
    /\ answer' = output /\ pc' = "received"
    /\ UNCHANGED <<inputs, config, request, location, output>>

Over == pc \in {"refused", "failed", "received"} /\ UNCHANGED vars

Next == newRequestConfig \/ populateRequest \/ Receive \/ Execute \/ SetHeader \/ Over

Spec == Init /\ [][Next]_vars

-----------------------------------------------------------------------------
(* Properties *)

\* A flag is one header if it has one colon.
IsOneHeader(flag) == Len(flag) = 2
IsLast(i) == \A j \in i + 1 .. Len(flags) : flags[j][1] # flags[i][1]

\* A URL is clean if path.Clean leaves it as it is, but for a slash at its start.
Stem(url) == IF Rooted(url) THEN Tail(url) ELSE url
IsClean(url) == ToSet(Stem(url)) \cap {Empty, Dot, DotDot} = {}

\* What is sent is what the suite and the command line ask for.  All headers of the
\* suite are, whatever the flags say; of the flags of one name the last; and no
\* other: "Extra header to add to each request" (README.md:17), although what comes
\* after a second colon is lost.  An absolute URL is sent with its path and the
\* well-formed pairs of its query, and so is a clean one; no other pair is but those
\* of the parameters.  A relative URL is at the host and below its path unless it
\* climbs out of it, or neither it nor the path of the host has a slash to part it
\* from the name; a clean one keeps all parts of its path.
RequestAsGiven ==
    request # NotSet =>
        /\ on.headers \subseteq request.headers
        /\ \A i \in DOMAIN flags : IsLast(i) /\ IsOneHeader(flags[i]) =>
               <<flags[i][1], Tail(flags[i])>> \in request.headers
        /\ \A h \in request.headers \ on.headers :
               \E i \in DOMAIN flags :
                   IsLast(i) /\ h[1] = flags[i][1] /\ h[2] # <<"">> /\ IsPrefix(h[2], Tail(flags[i]))
        /\ on.absolute => request.path = Path(on.url)
        /\ on.absolute \/ (IsClean(on.url) /\ Marked(base) = {}) =>
               request.query = Values(Query(on.url)) \cup on.params
        /\ ~on.absolute /\ DotDot \notin ToSet(on.url) /\ Rooted(base \o on.url) /\ Marked(base) = {} =>
               IsPrefix(<<Empty>> \o Clean(TRUE, base), request.path)
        /\ ~on.absolute /\ IsClean(on.url) /\ Marked(base) = {} =>
               IsSuffix(Path(Stem(on.url)), request.path)

\* What the expectations see is the header of the response or, if no piece of the
\* template fails, what all its pieces make of it: an error in the middle leaves
\* nothing of what was written before.
IsRewritten ==
    /\ location # NoLocation /\ template # NoTemplate
    /\ template.parses
    /\ \A i \in DOMAIN template.pieces : Output(template.pieces[i]) # Error
WholeLocation ==
    pc = "received" =>
        answer = IF IsRewritten THEN [i \in DOMAIN template.pieces |-> Output(template.pieces[i])]
                 ELSE Unchanged

=============================================================================
