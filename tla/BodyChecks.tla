----------------------------- MODULE BodyChecks ------------------------------
(***************************************************************************)
(* What the checks of a call make of a parsed body (expect.go): an         *)
(* expected body is compared with it (BodyExpectation, BodyDiff), or the   *)
(* value at a path into it (BodyPaths) is expected to be a given one       *)
(* (BodyPathExpectation), the path is expected to lead nowhere             *)
(* (AbsentExpectation), and its value is remembered (rememberBody).  A     *)
(* behaviour is one input, and one comparison or all three uses of a path. *)
(***************************************************************************)
EXTENDS BodyDiff, BodyPaths

CONSTANTS
    Comparisons,    \* pairs <<expected, actual>> of bodies
    Docs,           \* parsed bodies
    Paths,          \* sequences of parts
    Values          \* expected values

ASSUME ChecksAssumption ==
    /\ Comparisons \subseteq JSON \X JSON
    /\ Docs \subseteq JSON /\ Paths \subseteq Seq(STRING) /\ Values \subseteq JSON

VARIABLES
    asked,      \* two bodies, or a body, a path and the value expected there
    outcome     \* what the checks made of them, or NotYet

bodyVars == <<asked, outcome>>

NotYet == [notYet |-> TRUE]
Compares == [pair : Comparisons, strict : BOOLEAN]
Lookups == [doc : Docs, path : Paths, expected : Values]

BodyInit == asked \in Compares \cup Lookups /\ outcome = NotYet

Compare ==
    /\ outcome = NotYet /\ asked \in Compares
    /\ outcome' = [met |-> Met(asked.pair[1], asked.pair[2], asked.strict)]
    /\ UNCHANGED asked

Outcome(doc, path, expected) ==
    LET found == Search(doc, path)
        crashed == Panic \in ToSet(found)
    IN [crashed |-> crashed, found |-> found,
        value |-> IF crashed THEN Error ELSE GetByPath(doc, path),
        met |-> ~crashed /\ SearchByPath(doc, expected, path),
        absent |-> ~crashed /\ AbsentPathMet(doc, path)]

LookUp ==
    /\ outcome = NotYet /\ asked \in Lookups
    /\ outcome' = Outcome(asked.doc, asked.path, asked.expected)
    /\ UNCHANGED asked

Answered == outcome # NotYet /\ UNCHANGED bodyVars

BodyNext == Compare \/ LookUp \/ Answered

BodySpec == BodyInit /\ [][BodyNext]_bodyVars

-----------------------------------------------------------------------------
(* Properties of comparisons *)

Compared(strict) == outcome # NotYet /\ asked \in Compares /\ asked.strict = strict

\* y has all that x specifies: the fields of an object, and the elements of a
\* list in their order.
embedsFrom(e, x, y) ==
    IF DOMAIN x # DOMAIN y THEN FALSE
    ELSE IF DOMAIN x = {"obj"}
    THEN \A k \in DOMAIN x.obj : k \in DOMAIN y.obj /\ e[<<x.obj[k], y.obj[k]>>]
    ELSE IF DOMAIN x = {"list"}
    THEN \E at \in [DOMAIN x.list -> DOMAIN y.list] :
             \A n \in DOMAIN x.list :
                 /\ e[<<x.list[n], y.list[at[n]]>>]
                 /\ n > 1 => at[n - 1] < at[n]
    ELSE x = y

Embeds(x, y) ==
    LET e[z \in JSON \X JSON] == embedsFrom(e, z[1], z[2])
    IN e[<<x, y>>]

hasListFrom(h, x) ==
    DOMAIN x = {"list"} \/ \E k \in Fields(x) : h[x.obj[k]]

HasList(x) ==
    LET h[v \in JSON] == hasListFrom(h, v)
    IN h[x]

\* An exact body is met by an equal one and by no other, whatever the edit script
\* that go-cmp finds.
StrictIsEquality ==
    Compared(TRUE) => (outcome.met <=> asked.pair[1] = asked.pair[2])

\* A body is met in part only by one that has all that is specified: no pairing
\* of the elements of two lists hides a difference.  "Response may contain more
\* properties. But all specified must match." (README.md:139): one that has all
\* that is specified meets it.  Lists are the exception: their elements are
\* paired by a heuristic of go-cmp, which may miss elements that are there.
PartialIsEmbedding ==
    Compared(FALSE) =>
        /\ outcome.met => Embeds(asked.pair[1], asked.pair[2])
        /\ Embeds(asked.pair[1], asked.pair[2]) => outcome.met \/ HasList(asked.pair[1])

-----------------------------------------------------------------------------
(* Properties of paths *)

LookedUp == outcome # NotYet /\ asked \in Lookups

\* The three uses of a path agree.  A path that is expected to have a value, and
\* does, is not absent; and a primitive value that is remembered from a response
\* is the value the path is expected to have in it, and no other is.
ChecksAgree ==
    LookedUp =>
        /\ ~HasPathFunc(asked.path) /\ outcome.met /\ outcome.absent =>
               asked.expected = [list |-> << >>]
        /\ outcome.value # Error /\ IsPrimitive(outcome.value) /\ IsPrimitive(asked.expected) =>
               (outcome.met <=> asked.expected = outcome.value)

\* "index exists in array" (matchers.go:166) does not hold of a negative index,
\* which ends the process; no other path does.
PanicsOnlyBelowZero ==
    LookedUp /\ outcome.crashed =>
        \E part \in ToSet(asked.path) : IsNumber(part) /\ Atoi[part] < 0

\* What is in a document, in its order: each value, and the keys and positions that
\* lead there.  From a step on: what is in the value the step leads to.
From(step, places) ==
    [n \in DOMAIN places |-> [at |-> <<step>> \o places[n].at, value |-> places[n].value]]

placesFrom(pl, v) ==
    LET items == Elements(v)
        keys == SetToSeq(Fields(v))
    IN <<[at |-> << >>, value |-> v]>>
       \o FlattenSeq([n \in DOMAIN items |-> From([index |-> n - 1], pl[items[n]])])
       \o FlattenSeq([n \in DOMAIN keys |-> From([key |-> keys[n]], pl[v.obj[keys[n]]])])

PlacesOf(v) ==
    LET pl[u \in JSON] == placesFrom(pl, u)
    IN pl[v]

Names(part, step) ==
    IF DOMAIN step = {"index"} THEN IsNumber(part) /\ Atoi[part] = step.index
    ELSE part = step.key

\* The parts of a path that are left when some are done, by their numbers.
Rest(path, done) == {n \in DOMAIN path : n > done /\ path[n] # Empty}

\* Steps follow these parts if they are the parts, in their order, but for positions in
\* arrays that come before a part that is no number.
Follows(steps, path, rest) ==
    \E at \in [rest -> DOMAIN steps] :
        /\ \A n \in rest : Names(path[n], steps[at[n]])
        /\ \A n, m \in rest : n < m => at[n] < at[m]
        /\ \A s \in DOMAIN steps \ {at[n] : n \in rest} :
               /\ DOMAIN steps[s] = {"index"}
               /\ \E n \in rest :
                      /\ s < at[n] /\ ~IsNumber(path[n])
                      /\ \A m \in rest : m < n => at[m] < s

\* The values of the places whose steps follow what is left of a path.
Selection(places, path, done) ==
    FlattenSeq([n \in DOMAIN places |->
        IF Follows(places[n].at, path, Rest(path, done)) THEN <<places[n].value>> ELSE << >>])

\* Search finds the values at the places on the path, each once and in the order
\* of the document.
SearchIsSelection ==
    LookedUp /\ ~outcome.crashed =>
        outcome.found = Selection(PlacesOf(asked.doc), cleanPath(asked.path), 0)

=============================================================================
