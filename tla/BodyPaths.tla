----------------------------- MODULE BodyPaths ------------------------------
(***************************************************************************)
(* Paths into the body of a response (matchers.go, path_funcs.go) and what *)
(* is done with them: a body path is expected to have a value (bodyPath),  *)
(* expected to lead nowhere (absent), or its value is remembered.          *)
(*                                                                         *)
(* A path is the sequence of its parts; the redundant sign ~ is left out.  *)
(***************************************************************************)
EXTENDS BodyValues, SequencesExt, TLC

CONSTANT Atoi   \* strconv.Atoi, on the parts that are numbers

ASSUME AtoiAssumption == \A part \in DOMAIN Atoi : Atoi[part] \in Int

IsNumber(part) == part \in DOMAIN Atoi

pathFuncs == {"size()", "string()", "sizeAsString()"}
\* Every last part that ends like a call is dropped, known or not.
IsCall(part) == part \in pathFuncs \cup {"length()"}
HasPathFunc(p) == p # << >> /\ Last(p) \in pathFuncs

cleanPath(p) == IF p # << >> /\ IsCall(Last(p)) THEN Front(p) ELSE p

-----------------------------------------------------------------------------
(* Search *)

Empty == ""

\* The index of a slice that is out of its range ends the process.
Panic == [panic |-> TRUE]

InRangeOrNext(n, list) == n <= Len(list)
InRange(n, list) == n < Len(list)

\* The parts of a path that are done with for the items of an array, when the next
\* is no index.
OneMore(i) == i + 1
NoMore(i) == i

\* What is found in a value when i parts of a path are done; s is search itself.
searchFrom(s, path, v, i) ==
    IF i = Len(path) THEN <<v>>
    ELSE LET part == path[i + 1]
             n == Atoi[part]
             items == Elements(v)
         IN IF part = Empty THEN s[<<v, i + 1>>]
            ELSE IF part \in Fields(v) THEN s[<<v.obj[part], i + 1>>]
            ELSE IF ~IsNumber(part)
            THEN FlattenSeq([j \in DOMAIN items |-> s[<<items[j], NoMore(i)>>]])
            ELSE IF DOMAIN v # {"list"} \/ ~InRange(n, items) THEN << >>
            ELSE IF n + 1 \in DOMAIN items THEN s[<<items[n + 1], i + 1>>]
            ELSE <<Panic>>

search(v, path) ==
    LET s[x \in JSON \X (0 .. Len(path))] == searchFrom(s, path, x[1], x[2])
    IN s[<<v, 0>>]

Search(v, p) == search(v, cleanPath(p))

-----------------------------------------------------------------------------
(* Functions of a path *)

Error == [error |-> TRUE]

toString(v) ==
    IF DOMAIN v = {"str"} THEN v
    ELSE IF DOMAIN v = {"num"} THEN [str |-> ToString(v.num)]
    ELSE [str |-> ToString(v)]
size(v) == IF DOMAIN v = {"list"} THEN [num |-> Len(v.list)] ELSE Error
sizeAsStr(v) == IF size(v) = Error THEN Error ELSE toString(size(v))

CallPathFunc(p, v) ==
    CASE Last(p) = "size()" -> size(v)
      [] Last(p) = "string()" -> toString(v)
      [] Last(p) = "sizeAsString()" -> sizeAsStr(v)

GetByPath(v, p) ==
    LET found == Search(v, p)
    IN IF Len(found) # 1 THEN Error
       ELSE IF HasPathFunc(p) THEN CallPathFunc(p, found[1])
       ELSE found[1]

-----------------------------------------------------------------------------
(* SearchByPath *)

Null == [null |-> TRUE]
FieldOf(v, k) == IF k \in Fields(v) THEN v.obj[k] ELSE Null

\* Objects are compared field by field, and only primitive fields match.
matchesAll(object, v) ==
    \A k \in Fields(object) :
        /\ IsPrimitive(object.obj[k]) /\ IsPrimitive(FieldOf(v, k))
        /\ object.obj[k] = FieldOf(v, k)

\* Whether a value is among items or in the lists among them; f is findDeep itself.
findIn(f, items, value) ==
    \E i \in DOMAIN items :
        LET item == items[i]
        IN \/ DOMAIN item = {"list"} /\ f[item.list]
           \/ DOMAIN item = {"obj"} /\ DOMAIN value = {"obj"} /\ matchesAll(value, item)
           \/ IsPrimitive(item) /\ item = value

findDeep(items, value) ==
    LET f[list \in Seq(JSON)] == findIn(f, list, value)
    IN f[items]

SearchByPathAny(v, value, p) ==
    LET found == Search(v, p)
    IN IF HasPathFunc(p) THEN Len(found) = 1 /\ CallPathFunc(p, found[1]) = value
       ELSE IF DOMAIN value = {"list"}
       THEN \E i \in DOMAIN value.list : findDeep(found, value.list[i])
       ELSE found = << >> \/ findDeep(found, value)
SearchByPath(v, value, p) ==
    LET found == Search(v, p)
    IN IF HasPathFunc(p) THEN Len(found) = 1 /\ CallPathFunc(p, found[1]) = value
       ELSE IF DOMAIN value = {"list"}
       THEN \A i \in DOMAIN value.list : findDeep(found, value.list[i])
       ELSE findDeep(found, value)

AbsentPathMet(v, p) == Search(v, p) = << >>

=============================================================================
