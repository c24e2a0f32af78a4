---------------------------- MODULE SchemaCache -----------------------------
(***************************************************************************)
(* loadSchemaFromFile, loadSchemaFromURI and jsonSchemaCache (types.go),   *)
(* as expectations (main.go) calls them from every worker: a schema is     *)
(* looked up in a map that all workers share, read from its source when it *)
(* is not there, and stored.  A lookup, a read and a store are steps of    *)
(* their own: sync.Map makes each of them atomic, and nothing makes the    *)
(* three one step.                                                         *)
(*                                                                         *)
(* The sources are files and a server, which may change, fail or hang      *)
(* while the run goes on.  Paths and URLs are sequences of segments, a     *)
(* reference has a kind, whether it is absolute, the directory of its      *)
(* suite and the segments written in the suite.                            *)
(***************************************************************************)
EXTENDS Naturals, Sequences

CONSTANTS
    Workers,
    Refs,           \* references to schemas
    Calls,          \* the references of each call of each worker, in order
    suitesDir,      \* the directory of the suites
    hostFlag,       \* the host, or << >> if none is given
    Contents,       \* what a file or a response may contain
    ErrorPages,     \* those of them that come with a status that is no success
    MaxChanges      \* bound: changes of the sources during a run

CONSTANTS Missing, Hanging, NotCached

ASSUME SchemaCacheAssumption ==
    /\ Refs \subseteq [kind : {"file", "uri"}, absolute : BOOLEAN, dir : Seq(STRING), name : Seq(STRING)]
    /\ Calls \in [Workers -> Seq(Seq(Refs) \ {<< >>})]
    /\ suitesDir \in Seq(STRING) /\ hostFlag \in Seq(STRING)
    /\ ErrorPages \subseteq Contents
    /\ {Missing, Hanging, NotCached} \cap Contents = {}
    /\ Missing # Hanging
    /\ MaxChanges \in Nat

-----------------------------------------------------------------------------
(* References *)

toAbsPath(ref) == IF ref.absolute THEN ref.name ELSE suitesDir \o ref.dir \o ref.name
toAbsURLWithoutHost(ref) == ref.name
toAbsURL(ref) == IF ref.absolute THEN ref.name ELSE hostFlag \o ref.name

\* The key in the cache, and where the schema is read from.
uri(ref) == IF ref.kind = "file" THEN toAbsPath(ref) ELSE toAbsURL(ref)
Source(ref) == <<ref.kind, uri(ref)>>

Keys == {uri(ref) : ref \in Refs}
Sources == {Source(ref) : ref \in Refs}

\* What a source may give: a file is there or not, a server may also answer with
\* an error or not at all, and a URI without a host cannot be requested.
Gives(s) ==
    CASE s[1] = "file" -> (Contents \ ErrorPages) \cup {Missing}
      [] \E ref \in Refs : Source(ref) = s /\ ref.kind = "uri" /\ (ref.absolute \/ hostFlag # << >>) ->
            Contents \cup {Missing, Hanging}
      [] OTHER -> {Missing}

VARIABLES
    source,     \* what each source gives now: a content, Missing or Hanging
    served,     \* what each source has given to a read
    changes,
    cache,      \* jsonSchemaCache
    call, step, \* per worker, the next call and the next reference in it
    pc,         \* per worker: "lookup", "fetch" or "store"
    schema,     \* per worker, what was read and is not stored yet
    reads,      \* per worker and key, how often it was read
    used        \* what references were resolved to: <<worker, reference, content>>

vars == <<source, served, changes, cache, call, step, pc, schema, reads, used>>

Init ==
    /\ source \in [Sources -> Contents \cup {Missing, Hanging}]
    /\ \A s \in Sources : source[s] \in Gives(s)
    /\ served = [s \in Sources |-> {}]
    /\ changes = 0
    /\ cache = [k \in Keys |-> NotCached]
    /\ call = [w \in Workers |-> 1]
    /\ step = [w \in Workers |-> 1]
    /\ pc = [w \in Workers |-> "lookup"]
    /\ schema = [w \in Workers |-> NotCached]
    /\ reads = [w \in Workers |-> [k \in Keys |-> 0]]
    /\ used = {}

Finished(w) == call[w] > Len(Calls[w])
Ref(w) == Calls[w][call[w]][step[w]]

-----------------------------------------------------------------------------

\* Files are written and the server is restarted while the run goes on.
Change(s) ==
    /\ changes < MaxChanges
    /\ changes' = changes + 1
    /\ \E c \in Gives(s) : source' = [source EXCEPT ![s] = c]
    /\ UNCHANGED <<served, cache, call, step, pc, schema, reads, used>>

\* The reference of w is resolved to c: the next one, or the next call.
Resolve(w, c) ==
    /\ used' = used \cup {<<w, Ref(w), c>>}
    /\ pc' = [pc EXCEPT ![w] = "lookup"]
    /\ IF step[w] = Len(Calls[w][call[w]])
       THEN call' = [call EXCEPT ![w] = @ + 1] /\ step' = [step EXCEPT ![w] = 1]
       ELSE step' = [step EXCEPT ![w] = @ + 1] /\ UNCHANGED call

Found(w) ==
    /\ ~Finished(w) /\ pc[w] = "lookup"
    /\ cache[uri(Ref(w))] # NotCached
    /\ Resolve(w, cache[uri(Ref(w))])
    /\ UNCHANGED <<source, served, changes, cache, schema, reads>>

NotFound(w) ==
    /\ ~Finished(w) /\ pc[w] = "lookup"
    /\ cache[uri(Ref(w))] = NotCached
    /\ pc' = [pc EXCEPT ![w] = "fetch"]
    /\ UNCHANGED <<source, served, changes, cache, call, step, schema, reads, used>>

Read(w) ==
    /\ pc[w] = "fetch"
    /\ source[Source(Ref(w))] \in Contents
    /\ schema' = [schema EXCEPT ![w] = source[Source(Ref(w))]]
    /\ served' = [served EXCEPT ![Source(Ref(w))] = @ \cup {source[Source(Ref(w))]}]
    /\ reads' = [reads EXCEPT ![w][uri(Ref(w))] = @ + 1]
    /\ pc' = [pc EXCEPT ![w] = "store"]
    /\ UNCHANGED <<source, changes, cache, call, step, used>>

ReadFailsAgain(w) ==
    /\ pc[w] = "fetch"
    /\ source[Source(Ref(w))] = Missing
    /\ UNCHANGED vars
\* An error of the read is an error of the call; nothing is stored.
ReadFails(w) ==
    /\ pc[w] = "fetch"
    /\ source[Source(Ref(w))] = Missing
    /\ pc' = [pc EXCEPT ![w] = "lookup"]
    /\ call' = [call EXCEPT ![w] = @ + 1]
    /\ step' = [step EXCEPT ![w] = 1]
    /\ UNCHANGED <<source, served, changes, cache, schema, reads, used>>

StoredForgotten(w) == cache
Stored(w) == [cache EXCEPT ![uri(Ref(w))] = schema[w]]
Store(w) ==
    /\ pc[w] = "store"
    /\ cache' = Stored(w)
    /\ schema' = [schema EXCEPT ![w] = NotCached]
    /\ Resolve(w, schema[w])
    /\ UNCHANGED <<source, served, changes, reads>>

Over == (\A w \in Workers : Finished(w)) /\ UNCHANGED vars

Worker(w) == Found(w) \/ NotFound(w) \/ Read(w) \/ ReadFails(w) \/ Store(w)

Next == (\E s \in Sources : Change(s)) \/ (\E w \in Workers : Worker(w)) \/ Over

Spec == Init /\ [][Next]_vars

\* A worker goes on as long as the source it waits for answers.
FairSpec == Spec /\ \A w \in Workers : WF_vars(Worker(w))

-----------------------------------------------------------------------------
(* Properties *)

TypeOK ==
    /\ source \in [Sources -> Contents \cup {Missing, Hanging}]
    /\ served \in [Sources -> SUBSET Contents]
    /\ changes \in 0 .. MaxChanges
    /\ cache \in [Keys -> Contents \cup {NotCached}]
    /\ call \in [Workers -> Nat \ {0}] /\ step \in [Workers -> Nat \ {0}]
    /\ pc \in [Workers -> {"lookup", "fetch", "store"}]
    /\ schema \in [Workers -> Contents \cup {NotCached}]
    /\ reads \in [Workers -> [Keys -> Nat]]
    /\ used \subseteq Workers \X Refs \X Contents

\* However the workers race for a schema, none of them reads it twice: what one
\* has stored is found by every later lookup, whoever overwrites it.
ReadOnce == \A w \in Workers, k \in Keys : reads[w][k] <= 1

\* A schema that a response is checked against was read from the source its
\* reference names, as it was at some moment of the run: a file is not served
\* for a URI, and no failed read is served as a schema.
FromItsSource == \A u \in used : u[3] \in served[Source(u[2])]

\* Two responses are checked against different contents of one source only if two
\* workers read it, each before the other had stored it: with one worker, which is
\* the default, a source that changes never changes the schema within a run.
OneSchema ==
    \A u, v \in used :
        uri(u[2]) = uri(v[2]) /\ u[3] # v[3] =>
            \E w, x \in Workers :
                w # x /\ reads[w][uri(u[2])] > 0 /\ reads[x][uri(u[2])] > 0

\* A server that does not answer keeps only the workers that wait for it.
Waits(w) == pc[w] = "fetch" /\ source[Source(Ref(w))] = Hanging
OnlyWaitersHang == \A w \in Workers : <>(Finished(w) \/ []Waits(w))

=============================================================================
