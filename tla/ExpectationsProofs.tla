------------------------- MODULE ExpectationsProofs -------------------------
(***************************************************************************)
(* Proofs about Expectations, for any Expect and any response.  The heart  *)
(* of them is ListMeansExpected: the list of checks asks of the response   *)
(* neither more nor less than the fields of the Expect do.                 *)
(*                                                                         *)
(* The second half is about BodyChecks, for any bodies, paths and expected *)
(* values.  The recursions of the comparison and of the search go down a   *)
(* tree of bounded depth, so each has a solution (Recursion) and holds of  *)
(* all values what it passes on from lesser ones (Ranks).  The edit script *)
(* of two lists covers both and calls identical only elements that are     *)
(* (DifferenceLeads); from there, what meets a body is what equals it, or  *)
(* has all it specifies.  Unless an index is negative, a path finds the    *)
(* values at the places that Selection describes without a search, each    *)
(* once and in order (FoundSelected), and its three uses agree.            *)
(***************************************************************************)
EXTENDS Expectations, BodyChecks, FiniteSetTheorems, WellFoundedInduction, TLAPS

-----------------------------------------------------------------------------
(* Lists of checks *)

AllMeet(list) == \A n \in DOMAIN list : Meets(list[n])

Conditions ==
    {expect.status, expect.contentType, "uri", "file", "raw", "body", "exact"}
        \cup expect.paths \cup expect.absent \cup {h[1] : h \in expect.headers}
Checks == [kind : Kinds, of : (SUBSET Conditions) \ {{}}]

\* One list after another is met if both are.
LEMMA MetConcat ==
    ASSUME NEW s \in Seq(Checks), NEW t \in Seq(Checks)
    PROVE  /\ s \o t \in Seq(Checks)
           /\ AllMeet(s \o t) <=> AllMeet(s) /\ AllMeet(t)
<1>1. s \o t \in Seq(Checks) /\ Len(s \o t) = Len(s) + Len(t)
  OBVIOUS
<1>2. ASSUME AllMeet(s \o t), NEW n \in DOMAIN s
      PROVE  Meets(s[n])
  <2>1. n \in DOMAIN (s \o t) /\ (s \o t)[n] = s[n]
    OBVIOUS
  <2> QED
    BY <1>2, <2>1 DEF AllMeet
<1>3. ASSUME AllMeet(s \o t), NEW n \in DOMAIN t
      PROVE  Meets(t[n])
  <2>1. Len(s) + n \in DOMAIN (s \o t) /\ (s \o t)[Len(s) + n] = t[n]
    OBVIOUS
  <2> QED
    BY <1>3, <2>1 DEF AllMeet
<1>4. ASSUME AllMeet(s), AllMeet(t), NEW n \in DOMAIN (s \o t)
      PROVE  Meets((s \o t)[n])
  <2>1. CASE n \in DOMAIN s
    <3>1. (s \o t)[n] = s[n]
      BY <2>1
    <3> QED
      BY <1>4, <2>1, <3>1 DEF AllMeet
  <2>2. CASE n \notin DOMAIN s
    <3>1. n - Len(s) \in DOMAIN t /\ (s \o t)[n] = t[n - Len(s)]
      BY <2>2
    <3> QED
      BY <1>4, <3>1 DEF AllMeet
  <2> QED
    BY <2>1, <2>2
<1> QED
  BY <1>1, <1>2, <1>3, <1>4 DEF AllMeet

\* A check that is made on a condition.
LEMMA MetOptional ==
    ASSUME NEW condition, NEW kind \in Kinds, NEW of \in SUBSET Conditions,
           condition => of # {}
    PROVE  /\ Optional(condition, Exp(kind, of)) \in Seq(Checks)
           /\ AllMeet(Optional(condition, Exp(kind, of))) <=> (condition => Meets(Exp(kind, of)))
<1>1. CASE condition
  <2>1. Exp(kind, of) \in Checks
    BY <1>1 DEF Exp, Checks
  <2>2. Optional(condition, Exp(kind, of)) = <<Exp(kind, of)>>
    BY <1>1 DEF Optional
  <2>3. <<Exp(kind, of)>> \in Seq(Checks) /\ DOMAIN <<Exp(kind, of)>> = {1}
    BY <2>1
  <2>4. <<Exp(kind, of)>>[1] = Exp(kind, of)
    OBVIOUS
  <2> QED
    BY <1>1, <2>2, <2>3, <2>4 DEF AllMeet
<1>2. CASE ~condition
  <2>1. Optional(condition, Exp(kind, of)) = << >>
    BY <1>2 DEF Optional
  <2>2. << >> \in Seq(Checks) /\ Len(<< >>) = 0
    OBVIOUS
  <2>3. AllMeet(<< >>)
    BY <2>2 DEF AllMeet
  <2> QED
    BY <1>2, <2>1, <2>2, <2>3
<1> QED
  BY <1>1, <1>2

\* A list of each element of a finite set has them all.
LEMMA OrderHasAll ==
    ASSUME NEW S, IsFiniteSet(S), NEW order \in SetToSeqs(S)
    PROVE  /\ order \in Seq(S)
           /\ \A x \in S : \E n \in DOMAIN order : order[n] = x
<1> DEFINE D == 1 .. Cardinality(S)
<1>1. Cardinality(S) \in Nat
  BY FS_CardinalityType
<1>2. order \in [D -> S] /\ \A m, n \in D : m # n => order[m] # order[n]
  BY DEF SetToSeqs
<1>3. order \in Seq(S)
  BY <1>1, <1>2
<1>4. IsFiniteSet(D) /\ Cardinality(D) = Cardinality(S)
  BY <1>1, FS_Interval
<1>5. order \in Injection(D, S)
  BY <1>2 DEF Injection, IsInjective
<1>6. order \in Surjection(D, S)
  BY <1>1, <1>4, <1>5, FS_Injection
<1> QED
  BY <1>2, <1>3, <1>6 DEF Surjection

\* The checks on headers, in any order, ask for all headers of the Expect.
LEMMA MetHeaders ==
    ASSUME IsFiniteSet(expect.headers),
           NEW order \in SetToSeqs({Exp("header", {h[1]}) : h \in expect.headers})
    PROVE  /\ order \in Seq(Checks)
           /\ AllMeet(order) <=> \A h \in expect.headers : HeaderMeets(h)
<1> DEFINE S == {Exp("header", {h[1]}) : h \in expect.headers}
<1> DEFINE check[h \in expect.headers] == Exp("header", {h[1]})
<1>0. check \in Surjection(expect.headers, S)
  BY DEF Surjection
<1> HIDE DEF check
<1>1. IsFiniteSet(S)
  <2> HIDE DEF S
  <2> QED
    BY <1>0, FS_Surjection
<1>2. S \subseteq Checks
  <2>1. SUFFICES ASSUME NEW h \in expect.headers
                 PROVE  Exp("header", {h[1]}) \in Checks
    OBVIOUS
  <2>2. {h[1]} \in (SUBSET Conditions) \ {{}}
    BY DEF Conditions
  <2> QED
    BY <2>2 DEF Exp, Checks, Kinds
<1> HIDE DEF S
<1>3. order \in Seq(S) /\ \A x \in S : \E n \in DOMAIN order : order[n] = x
  BY <1>1, OrderHasAll, ZenonT(30) DEF S
<1>4. order \in Seq(Checks)
  BY <1>2, <1>3
<1>5. \A n \in DOMAIN order : order[n] \in S
  BY <1>3
<1>6. \A x : Meets(Exp("header", {x})) <=> \A h \in expect.headers : h[1] = x => HeaderMeets(h)
  BY DEF Meets, Exp
<1>7. ASSUME AllMeet(order), NEW h \in expect.headers
      PROVE  HeaderMeets(h)
  <2>1. PICK n \in DOMAIN order : order[n] = Exp("header", {h[1]})
    BY <1>3 DEF S
  <2> QED
    BY <1>6, <1>7, <2>1, ZenonT(30) DEF AllMeet
<1>8. ASSUME \A h \in expect.headers : HeaderMeets(h), NEW n \in DOMAIN order
      PROVE  Meets(order[n])
  <2>1. PICK h \in expect.headers : order[n] = Exp("header", {h[1]})
    BY <1>5 DEF S
  <2> QED
    BY <1>6, <1>8, <2>1
<1> QED
  BY <1>4, <1>7, <1>8 DEF AllMeet

\* The check of a header asks what the field of the Expect does.
LEMMA HeaderAsExpected ==
    ASSUME NEW h
    PROVE  HeaderMeets(h) <=>
             \E n \in DOMAIN response.headers :
                 /\ response.headers[n][1] = h[1] /\ IsFirst(n)
                 /\ response.headers[n][2] # "" /\ h[2] \in {"", response.headers[n][2]}
<1>1. \A v : v \in HeaderOf(h[1]) <=>
             \E n \in DOMAIN response.headers :
                 /\ response.headers[n][1] = h[1] /\ IsFirst(n)
                 /\ response.headers[n][2] = v /\ v # ""
  BY DEF HeaderOf
<1>2. HeaderMeets(h) <=> \E v \in HeaderOf(h[1]) : h[2] \in {"", v}
  BY DEF HeaderMeets
<1>3. ASSUME HeaderMeets(h)
      PROVE  \E n \in DOMAIN response.headers :
                 /\ response.headers[n][1] = h[1] /\ IsFirst(n)
                 /\ response.headers[n][2] # "" /\ h[2] \in {"", response.headers[n][2]}
  <2>1. PICK v \in HeaderOf(h[1]) : h[2] \in {"", v}
    BY <1>2, <1>3
  <2>2. PICK n \in DOMAIN response.headers :
           /\ response.headers[n][1] = h[1] /\ IsFirst(n)
           /\ response.headers[n][2] = v /\ v # ""
    BY <1>1, <2>1
  <2> QED
    BY <2>1, <2>2
<1>4. ASSUME NEW n \in DOMAIN response.headers,
             response.headers[n][1] = h[1] /\ IsFirst(n),
             response.headers[n][2] # "" /\ h[2] \in {"", response.headers[n][2]}
      PROVE  HeaderMeets(h)
  <2>1. response.headers[n][2] \in HeaderOf(h[1])
    BY <1>1, <1>4
  <2> QED
    BY <1>2, <1>4, <2>1
<1> QED
  BY <1>3, <1>4

\* The list of checks is met by exactly the responses that are as expected: no
\* field of the Expect is without its check, and no check without its field.
THEOREM ListMeansExpected ==
    ASSUME expect \in Expects, NEW list \in Lists
    PROVE  /\ list \in Seq(Checks)
           /\ AllMeet(list) <=> AsExpected
<1>0. /\ expect.schemas \subseteq {"uri", "file", "raw"} /\ expect.bodies \subseteq {"body", "exact"}
      /\ IsFiniteSet(expect.headers)
  BY ExpectsAssumption
<1> DEFINE status == Optional(expect.status # "", Exp("status", {expect.status}))
           uri == Optional("uri" \in expect.schemas, Exp("schema", {"uri"}))
           file == Optional("file" \in expect.schemas, Exp("schema", {"file"}))
           raw == Optional("raw" \in expect.schemas, Exp("schema", {"raw"}))
           paths == Optional(expect.paths # {}, Exp("paths", expect.paths))
           body == Optional("body" \in expect.bodies, Exp("body", {"body"}))
           exact == Optional(ExactExpected, Exp("body", {"exact"}))
           absent == Optional(expect.absent # {}, Exp("absent", expect.absent))
           type == Optional(expect.contentType # "", Exp("type", {expect.contentType}))
<1>1. PICK order \in SetToSeqs({Exp("header", {h[1]}) : h \in expect.headers}) :
         list = status \o uri \o file \o raw \o paths \o body \o exact \o absent \o order \o type
  BY DEF Lists
<1>2. /\ status \in Seq(Checks)
      /\ AllMeet(status) <=> (expect.status # "" => Meets(Exp("status", {expect.status})))
  BY MetOptional DEF Kinds, Conditions
<1>3. /\ uri \in Seq(Checks)
      /\ AllMeet(uri) <=> ("uri" \in expect.schemas => Meets(Exp("schema", {"uri"})))
  BY MetOptional DEF Kinds, Conditions
<1>4. /\ file \in Seq(Checks)
      /\ AllMeet(file) <=> ("file" \in expect.schemas => Meets(Exp("schema", {"file"})))
  BY MetOptional DEF Kinds, Conditions
<1>5. /\ raw \in Seq(Checks)
      /\ AllMeet(raw) <=> ("raw" \in expect.schemas => Meets(Exp("schema", {"raw"})))
  BY MetOptional DEF Kinds, Conditions
<1>6. /\ paths \in Seq(Checks)
      /\ AllMeet(paths) <=> (expect.paths # {} => Meets(Exp("paths", expect.paths)))
  BY MetOptional DEF Kinds, Conditions
<1>7. /\ body \in Seq(Checks)
      /\ AllMeet(body) <=> ("body" \in expect.bodies => Meets(Exp("body", {"body"})))
  BY MetOptional DEF Kinds, Conditions
<1>8. /\ exact \in Seq(Checks)
      /\ AllMeet(exact) <=> (ExactExpected => Meets(Exp("body", {"exact"})))
  BY MetOptional DEF Kinds, Conditions
<1>9. /\ absent \in Seq(Checks)
      /\ AllMeet(absent) <=> (expect.absent # {} => Meets(Exp("absent", expect.absent)))
  BY MetOptional DEF Kinds, Conditions
<1>10. /\ type \in Seq(Checks)
       /\ AllMeet(type) <=> (expect.contentType # "" => Meets(Exp("type", {expect.contentType})))
  BY MetOptional DEF Kinds, Conditions
<1>11. /\ order \in Seq(Checks)
       /\ AllMeet(order) <=> \A h \in expect.headers : HeaderMeets(h)
  BY <1>0, MetHeaders
<1> HIDE DEF status, uri, file, raw, paths, body, exact, absent, type
<1>12. /\ status \o uri \in Seq(Checks)
       /\ AllMeet(status \o uri) <=> AllMeet(status) /\ AllMeet(uri)
  BY <1>2, <1>3, MetConcat
<1>13. /\ status \o uri \o file \in Seq(Checks)
       /\ AllMeet(status \o uri \o file) <=> AllMeet(status \o uri) /\ AllMeet(file)
  BY <1>12, <1>4, MetConcat
<1>14. /\ status \o uri \o file \o raw \in Seq(Checks)
       /\ AllMeet(status \o uri \o file \o raw) <=> AllMeet(status \o uri \o file) /\ AllMeet(raw)
  BY <1>13, <1>5, MetConcat
<1> DEFINE outer == status \o uri \o file \o raw
<1>15. outer \in Seq(Checks) /\ (AllMeet(outer) <=> AllMeet(status) /\ AllMeet(uri) /\ AllMeet(file) /\ AllMeet(raw))
  BY <1>12, <1>13, <1>14
<1> HIDE DEF outer
<1>16. /\ outer \o paths \in Seq(Checks)
       /\ AllMeet(outer \o paths) <=> AllMeet(outer) /\ AllMeet(paths)
  BY <1>15, <1>6, MetConcat
<1>17. /\ outer \o paths \o body \in Seq(Checks)
       /\ AllMeet(outer \o paths \o body) <=> AllMeet(outer \o paths) /\ AllMeet(body)
  BY <1>16, <1>7, MetConcat
<1>18. /\ outer \o paths \o body \o exact \in Seq(Checks)
       /\ AllMeet(outer \o paths \o body \o exact) <=> AllMeet(outer \o paths \o body) /\ AllMeet(exact)
  BY <1>17, <1>8, MetConcat
<1> DEFINE inner == outer \o paths \o body \o exact
<1>19. inner \in Seq(Checks) /\ (AllMeet(inner) <=> AllMeet(outer) /\ AllMeet(paths) /\ AllMeet(body) /\ AllMeet(exact))
  BY <1>16, <1>17, <1>18
<1> HIDE DEF inner
<1>20. /\ inner \o absent \in Seq(Checks)
       /\ AllMeet(inner \o absent) <=> AllMeet(inner) /\ AllMeet(absent)
  BY <1>19, <1>9, MetConcat
<1>21. /\ inner \o absent \o order \in Seq(Checks)
       /\ AllMeet(inner \o absent \o order) <=> AllMeet(inner \o absent) /\ AllMeet(order)
  BY <1>20, <1>11, MetConcat
<1>22. /\ inner \o absent \o order \o type \in Seq(Checks)
       /\ AllMeet(inner \o absent \o order \o type) <=> AllMeet(inner \o absent \o order) /\ AllMeet(type)
  BY <1>21, <1>10, MetConcat
<1>23. list = inner \o absent \o order \o type
  BY <1>1 DEF inner, outer
<1>24. AllMeet(list) <=> /\ AllMeet(status) /\ AllMeet(uri) /\ AllMeet(file) /\ AllMeet(raw) /\ AllMeet(paths) /\ AllMeet(body)
                     /\ AllMeet(exact) /\ AllMeet(absent) /\ AllMeet(order) /\ AllMeet(type)
  BY <1>15, <1>19, <1>20, <1>21, <1>22, <1>23
<1>25. AllMeet(status) <=> expect.status \in {"", response.status}
  BY <1>2 DEF Meets, Exp
<1>26. AllMeet(uri) /\ AllMeet(file) /\ AllMeet(raw) <=>
         /\ expect.schemas # {} => response.media = "json" /\ response.body = "good"
         /\ expect.schemas \subseteq response.holds
  BY <1>0, <1>3, <1>4, <1>5 DEF Meets, Exp
<1>27. AllMeet(paths) <=> (expect.paths # {} => Parses /\ expect.paths \subseteq response.holds)
  BY <1>6 DEF Meets, Exp
<1>28. AllMeet(body) /\ AllMeet(exact) <=> (expect.bodies # {} => Parses /\ expect.bodies \subseteq response.holds)
  BY <1>0, <1>7, <1>8 DEF Meets, Exp, ExactExpected
<1>29. AllMeet(absent) <=> (expect.absent # {} => Parses /\ expect.absent \subseteq response.holds)
  BY <1>9 DEF Meets, Exp
<1>30. AllMeet(type) <=> expect.contentType \in {"", response.media}
  BY <1>10 DEF Meets, Exp
<1>31. AllMeet(order) <=> \A h \in expect.headers :
         \E n \in DOMAIN response.headers :
             /\ response.headers[n][1] = h[1] /\ IsFirst(n)
             /\ response.headers[n][2] # "" /\ h[2] \in {"", response.headers[n][2]}
  BY <1>11, HeaderAsExpected
<1>32. AllMeet(list) <=> AsExpected
  BY <1>24, <1>25, <1>26, <1>27, <1>28, <1>29, <1>30, <1>31 DEF AsExpected
<1> QED
  BY <1>22, <1>23, <1>32

-----------------------------------------------------------------------------
(* The invariant *)

\* The list is made once, for a call whose schemas load.
Listed ==
    /\ expect \in Expects
    /\ pc = "expectations" => exps = << >> /\ i = 0 /\ err = << >> /\ described = {}
    /\ pc # "expectations" /\ expect.unloadable = {} => exps \in Lists
    /\ pc # "expectations" /\ expect.unloadable # {} =>
           exps = << >> /\ i = 0 /\ err # << >> /\ described = {} /\ pc \in {"unused", "done"}
    /\ pc \in {"expectations", "check", "remember", "unused", "done"}

\* Up to a failure, which ends the checks, all of them are met.
Checked ==
    /\ exps \in Seq(Checks) /\ i \in 0 .. Len(exps)
    /\ ~hasFailedExp => \A n \in 1 .. i : Meets(exps[n])
    /\ hasFailedExp => pc \in {"unused", "done"} /\ \E n \in 1 .. i : ~Meets(exps[n])
    /\ pc = "remember" => i = Len(exps)
    /\ pc \in {"unused", "done"} /\ err = << >> => i = Len(exps)

\* The failure and the error of the trace are the same.
Traced ==
    /\ pc \in {"check", "remember"} => err = << >>
    /\ err = << >> => ~hasFailedExp
    /\ hasFailedExp => \E e : e.kind \in Kinds /\ err = <<"check", e>> /\ {d \in described : d[2] = "failed"} = {<<e, "failed">>}
    /\ \A d \in described : d[1].kind \in Kinds /\ d[2] \in {"met", "failed"}
    /\ err = << >> \/ err \in {<<"schema">>, <<"remember">>, <<"unused">>} \/ err[1] = "check"

\* The values of the body are remembered first, and one that is missing ends it.
BodyFirst ==
    /\ pc \in {"expectations", "check"} => remembered = {} /\ todo = expect.body
    /\ remembered # {} => i = Len(exps) /\ ~hasFailedExp /\ exps \in Lists
    /\ pc = "remember" => /\ expect.body \subseteq todo \cup remembered
                          /\ remembered \subseteq expect.body
                          /\ remembered # {} => Parses
    /\ pc \in {"unused", "done"} /\ err = << >> =>
           expect.body \subseteq remembered /\ (expect.body # {} => Parses)
    /\ ~(remembered \subseteq expect.body) => expect.body \subseteq remembered
    /\ remembered \subseteq expect.body \cup expect.header
    /\ todo \subseteq expect.body

Inv == Listed /\ Checked /\ Traced /\ ListedAreMet /\ BodyFirst

\* The invariant holds at the start, and every action keeps it.
LEMMA InitInv == Init => Inv
<1> SUFFICES ASSUME Init PROVE Inv
  OBVIOUS
<1>1. described = {} /\ ~hasFailedExp
  BY DEF Init, hasFailedExp
<1> QED
  BY <1>1 DEF Init, Inv, Listed, Checked, Traced, ListedAreMet, BodyFirst

\* A step of the call changes neither the Expect nor the response.
LEMMA SameChecks ==
    ASSUME expect' = expect, response' = response
    PROVE  /\ Lists' = Lists /\ Checks' = Checks /\ Parses' = Parses
           /\ exps' = exps => \A n : /\ Meets(exps[n])' <=> Meets(exps[n])
                                     /\ Desc(exps[n])' = Desc(exps[n])
<1>1. Lists' = Lists /\ Checks' = Checks
  BY DEF Lists, Optional, Exp, ExactExpected, Checks, Conditions
<1>2. Parses' = Parses
  BY DEF Parses
<1>3. ASSUME exps' = exps, NEW n
      PROVE  (Meets(exps[n])' <=> Meets(exps[n])) /\ Desc(exps[n])' = Desc(exps[n])
  BY <1>3 DEF Meets, Desc, Parses, HeaderMeets, HeaderOf, IsFirst
<1> QED
  BY <1>1, <1>2, <1>3

LEMMA expectationsInv ==
    ASSUME Inv, expectations
    PROVE  Inv'
<1>1. /\ expect' = expect /\ response' = response /\ described' = {} /\ i' = 0
      /\ todo' = expect.body /\ remembered' = {} /\ expect \in Expects
  BY DEF expectations, Inv, Listed, BodyFirst
<1>2. Lists' = Lists /\ Checks' = Checks
  BY <1>1, SameChecks
<1>3. ~hasFailedExp' /\ {d \in described' : d[2] = "failed"} = {}
  BY <1>1 DEF hasFailedExp
<1>4. \/ /\ expect.unloadable = {} /\ exps' \in Lists /\ pc' = "check" /\ err' = << >>
      \/ /\ expect.unloadable # {} /\ err' = <<"schema">> /\ pc' = "unused" /\ exps' = << >>
  BY DEF expectations, Inv, Listed
<1>5. exps' \in Seq(Checks)
  <2>1. CASE exps' \in Lists
    BY <1>1, <2>1, ListMeansExpected
  <2>2. CASE exps' = << >>
    BY <2>2
  <2> QED
    BY <1>4, <2>1, <2>2
<1>6. Listed'
  BY <1>1, <1>2, <1>4 DEF Listed
<1>7. Checked'
  BY <1>1, <1>2, <1>3, <1>4, <1>5 DEF Checked
<1>8. Traced'
  BY <1>1, <1>3, <1>4 DEF Traced
<1>9. ListedAreMet'
  BY <1>1 DEF ListedAreMet
<1>10. BodyFirst'
  BY <1>1, <1>4 DEF BodyFirst
<1> QED
  BY <1>6, <1>7, <1>8, <1>9, <1>10 DEF Inv

LEMMA CheckInv ==
    ASSUME Inv, Check
    PROVE  Inv'
<1> DEFINE exp == exps[i + 1]
<1>1. /\ expect' = expect /\ response' = response /\ exps' = exps /\ i' = i + 1
      /\ todo' = todo /\ remembered' = remembered /\ pc = "check"
  BY DEF Check
<1>2. /\ i \in 0 .. Len(exps) /\ i < Len(exps) /\ exps \in Seq(Checks) /\ ~hasFailedExp
      /\ err = << >> /\ \A n \in 1 .. i : Meets(exps[n])
      /\ expect.unloadable = {} /\ exps \in Lists /\ remembered = {} /\ todo = expect.body
      /\ expect \in Expects
  BY <1>1 DEF Inv, Listed, Checked, Traced, BodyFirst, Check
<1>3. exp \in Checks /\ i + 1 \in 1 .. Len(exps)
  BY <1>2
<1>4. /\ Lists' = Lists /\ Checks' = Checks
      /\ \A n : (Meets(exps[n])' <=> Meets(exps[n])) /\ Desc(exps[n])' = Desc(exps[n])
  BY <1>1, SameChecks
<1>5. {d \in described : d[2] = "failed"} = {} /\ \A d \in described : d[1].kind \in Kinds /\ d[2] \in {"met", "failed"}
  BY <1>2 DEF hasFailedExp, Inv, Traced
<1>6. \A d \in described : \E n \in 1 .. i : Desc(exps[n]) = d[1] /\ Meets(exps[n])
  BY <1>5 DEF Inv, ListedAreMet
<1>7. CASE Meets(exp) /\ described' = addExp(exp) /\ UNCHANGED <<err, pc>>
  <2>1. Desc(exp).kind \in Kinds
    BY <1>3 DEF Desc, Checks
  <2>2. described' = described \cup {<<Desc(exp), "met">>} /\ pc' = "check" /\ err' = << >>
    BY <1>1, <1>2, <1>7 DEF addExp
  <2>3. ~hasFailedExp' /\ {d \in described' : d[2] = "failed"} = {}
    BY <1>5, <2>2 DEF hasFailedExp
  <2>4. Listed'
    BY <1>1, <1>2, <1>4, <2>2 DEF Listed
  <2>5. Checked'
    <3>1. \A n \in 1 .. i + 1 : Meets(exps[n])
      BY <1>2, <1>7
    <3> QED
      BY <1>1, <1>2, <1>4, <2>2, <2>3, <3>1 DEF Checked
  <2>6. Traced'
    BY <1>5, <2>1, <2>2, <2>3 DEF Traced
  <2>7. ListedAreMet'
    <3>1. \A d \in described' : \E n \in 1 .. i + 1 : Desc(exps[n]) = d[1] /\ Meets(exps[n])
      BY <1>2, <1>3, <1>6, <1>7, <2>2
    <3> QED
      BY <1>1, <1>4, <3>1 DEF ListedAreMet
  <2>8. BodyFirst'
    BY <1>1, <1>2, <2>2 DEF BodyFirst
  <2> QED
    BY <2>4, <2>5, <2>6, <2>7, <2>8 DEF Inv
<1>8. ASSUME ~Meets(exp), NEW failure \in Failures(exp),
             err' = <<"check", [kind |-> exp.kind, of |-> {failure}]>>,
             described' = addFail(exp, [kind |-> exp.kind, of |-> {failure}]),
             pc' = AfterFailed
      PROVE  Inv'
  <2> DEFINE e == [kind |-> exp.kind, of |-> {failure}]
  <2>1. e.kind \in Kinds
    BY <1>3 DEF Checks
  <2> HIDE DEF e
  <2>2. described' = described \cup {<<e, "failed">>} /\ err' = <<"check", e>> /\ pc' = "unused"
    BY <1>8 DEF addFail, AfterFailed, e
  <2>3. hasFailedExp' /\ {d \in described' : d[2] = "failed"} = {<<e, "failed">>}
    <3>1. \A d \in described : d[2] # "failed"
      BY <1>5
    <3>2. <<e, "failed">>[2] = "failed"
      OBVIOUS
    <3>3. \A d \in described' : d[2] = "failed" <=> d = <<e, "failed">>
      BY <2>2, <3>1, <3>2
    <3> QED
      BY <2>2, <3>2, <3>3 DEF hasFailedExp
  <2>4. Listed'
    BY <1>1, <1>2, <1>4, <2>2 DEF Listed
  <2>5. Checked'
    <3>1. \E n \in 1 .. i + 1 : ~Meets(exps[n])
      BY <1>2, <1>3, <1>8
    <3> QED
      BY <1>1, <1>2, <1>4, <2>2, <2>3, <3>1 DEF Checked
  <2>6. Traced'
    BY <1>5, <2>1, <2>2, <2>3 DEF Traced
  <2>7. ListedAreMet'
    <3>1. \A d \in described' : d[2] = "met" => \E n \in 1 .. i + 1 : Desc(exps[n]) = d[1] /\ Meets(exps[n])
      BY <1>2, <1>6, <2>2
    <3> QED
      BY <1>1, <1>4, <3>1 DEF ListedAreMet
  <2>8. BodyFirst'
    BY <1>1, <1>2, <2>2 DEF BodyFirst
  <2> QED
    BY <2>4, <2>5, <2>6, <2>7, <2>8 DEF Inv
<1> QED
  BY <1>7, <1>8 DEF Check

LEMMA AllMetInv ==
    ASSUME Inv, AllMet
    PROVE  Inv'
<1>1. /\ UNCHANGED <<expect, response, exps, i, err, described, todo, remembered>>
      /\ pc = "check" /\ pc' = "remember" /\ i = Len(exps)
  BY DEF AllMet
<1>2. /\ Lists' = Lists /\ Checks' = Checks
      /\ \A n : (Meets(exps[n])' <=> Meets(exps[n])) /\ Desc(exps[n])' = Desc(exps[n])
  BY <1>1, SameChecks
<1>3. hasFailedExp' = hasFailedExp
  BY <1>1 DEF hasFailedExp
<1>4. Listed'
  BY <1>1, <1>2 DEF Inv, Listed
<1>5. Checked'
  BY <1>1, <1>2, <1>3 DEF Inv, Checked
<1>6. Traced'
  BY <1>1, <1>3 DEF Inv, Traced
<1>7. ListedAreMet'
  BY <1>1, <1>2 DEF Inv, ListedAreMet
<1>8. BodyFirst'
  BY <1>1, <1>2, <1>3 DEF Inv, BodyFirst
<1> QED
  BY <1>4, <1>5, <1>6, <1>7, <1>8 DEF Inv

LEMMA RememberBodyInv ==
    ASSUME Inv, RememberBody
    PROVE  Inv'
<1>1. /\ UNCHANGED <<expect, response, exps, i, described>>
      /\ pc = "remember"
  BY DEF RememberBody
<1>2. PICK name \in todo :
         /\ todo' = todo \ {name}
         /\ \/ /\ Parses /\ name \in response.has
               /\ remembered' = remembered \cup {name}
               /\ UNCHANGED <<err, pc>>
            \/ /\ ~Parses \/ name \notin response.has
               /\ err' = <<"remember">>
               /\ pc' = AfterNotFound
               /\ UNCHANGED remembered
  BY DEF RememberBody
<1>3. /\ Lists' = Lists /\ Checks' = Checks /\ Parses' = Parses
      /\ \A n : (Meets(exps[n])' <=> Meets(exps[n])) /\ Desc(exps[n])' = Desc(exps[n])
  BY <1>1, SameChecks
<1>4. hasFailedExp' = hasFailedExp /\ ~hasFailedExp
  BY <1>1 DEF hasFailedExp, Inv, Checked
<1>5. i = Len(exps) /\ exps \in Lists
  BY <1>1 DEF Inv, Checked, Listed
<1>6. Listed'
  BY <1>1, <1>2, <1>3 DEF Inv, Listed, AfterNotFound
<1>7. Checked'
  BY <1>1, <1>2, <1>3, <1>4 DEF Inv, Checked, AfterNotFound
<1>8. Traced'
  BY <1>1, <1>2, <1>4 DEF Inv, Traced, AfterNotFound
<1>9. ListedAreMet'
  BY <1>1, <1>3 DEF Inv, ListedAreMet
<1>10. BodyFirst'
  <2>1. /\ todo \subseteq expect.body /\ expect.body \subseteq todo \cup remembered
        /\ remembered \subseteq expect.body
    BY <1>1 DEF Inv, BodyFirst
  <2>2. CASE Parses /\ remembered' = remembered \cup {name} /\ UNCHANGED <<err, pc>>
    <3>1. /\ todo' \subseteq expect.body /\ expect.body \subseteq todo' \cup remembered'
          /\ remembered' \subseteq expect.body
      BY <1>2, <2>1, <2>2
    <3> QED
      BY <1>1, <1>3, <1>4, <1>5, <2>2, <3>1 DEF BodyFirst
  <2>3. CASE err' = <<"remember">> /\ pc' = AfterNotFound /\ UNCHANGED remembered
    <3>1. todo' \subseteq expect.body /\ pc' = "unused" /\ err' # << >>
      BY <1>2, <2>1, <2>3 DEF AfterNotFound
    <3> QED
      BY <1>1, <1>3, <1>4, <1>5, <2>1, <2>3, <3>1 DEF BodyFirst
  <2> QED
    BY <1>2, <2>2, <2>3
<1> QED
  BY <1>6, <1>7, <1>8, <1>9, <1>10 DEF Inv

LEMMA RememberHeadersInv ==
    ASSUME Inv, RememberHeaders
    PROVE  Inv'
<1>1. /\ UNCHANGED <<expect, response, exps, i, err, described, todo>>
      /\ pc = "remember" /\ pc' = "unused" /\ todo = {}
      /\ remembered' = remembered \cup Found
  BY DEF RememberHeaders
<1>2. /\ Lists' = Lists /\ Checks' = Checks /\ Parses' = Parses
      /\ \A n : (Meets(exps[n])' <=> Meets(exps[n])) /\ Desc(exps[n])' = Desc(exps[n])
  BY <1>1, SameChecks
<1>3. hasFailedExp' = hasFailedExp /\ ~hasFailedExp
  BY <1>1 DEF hasFailedExp, Inv, Checked
<1>4. i = Len(exps) /\ exps \in Lists
  BY <1>1 DEF Inv, Checked, Listed
<1>5. Found \subseteq expect.header
  BY DEF Found
<1>6. Listed'
  BY <1>1, <1>2 DEF Inv, Listed
<1>7. Checked'
  BY <1>1, <1>2, <1>3 DEF Inv, Checked
<1>8. Traced'
  BY <1>1, <1>3 DEF Inv, Traced
<1>9. ListedAreMet'
  BY <1>1, <1>2 DEF Inv, ListedAreMet
<1>10. BodyFirst'
  BY <1>1, <1>2, <1>3, <1>4, <1>5 DEF Inv, BodyFirst
<1> QED
  BY <1>6, <1>7, <1>8, <1>9, <1>10 DEF Inv

LEMMA ReportUnusedInv ==
    ASSUME Inv, ReportUnused
    PROVE  Inv'
<1>1. /\ UNCHANGED <<expect, response, exps, i, described, todo, remembered>>
      /\ pc = "unused" /\ pc' = "done"
      /\ err' = err \/ (err = << >> /\ err' = <<"unused">>)
  BY DEF ReportUnused
<1>2. /\ Lists' = Lists /\ Checks' = Checks /\ Parses' = Parses
      /\ \A n : (Meets(exps[n])' <=> Meets(exps[n])) /\ Desc(exps[n])' = Desc(exps[n])
  BY <1>1, SameChecks
<1>3. hasFailedExp' = hasFailedExp
  BY <1>1 DEF hasFailedExp
<1>4. Listed'
  BY <1>1, <1>2 DEF Inv, Listed
<1>5. Checked'
  BY <1>1, <1>2, <1>3 DEF Inv, Checked
<1>6. Traced'
  BY <1>1, <1>3 DEF Inv, Traced
<1>7. ListedAreMet'
  BY <1>1, <1>2 DEF Inv, ListedAreMet
<1>8. BodyFirst'
  BY <1>1, <1>2, <1>3 DEF Inv, BodyFirst
<1> QED
  BY <1>4, <1>5, <1>6, <1>7, <1>8 DEF Inv

LEMMA StutterInv ==
    ASSUME Inv, UNCHANGED vars
    PROVE  Inv'
<1>1. UNCHANGED <<expect, response, exps, i, err, described, todo, remembered, pc>>
  BY DEF vars
<1>2. /\ Lists' = Lists /\ Checks' = Checks /\ Parses' = Parses
      /\ \A n : (Meets(exps[n])' <=> Meets(exps[n])) /\ Desc(exps[n])' = Desc(exps[n])
  BY <1>1, SameChecks
<1>3. hasFailedExp' = hasFailedExp
  BY <1>1 DEF hasFailedExp
<1>4. Listed'
  BY <1>1, <1>2 DEF Inv, Listed
<1>5. Checked'
  BY <1>1, <1>2, <1>3 DEF Inv, Checked
<1>6. Traced'
  BY <1>1, <1>3 DEF Inv, Traced
<1>7. ListedAreMet'
  BY <1>1, <1>2 DEF Inv, ListedAreMet
<1>8. BodyFirst'
  BY <1>1, <1>2, <1>3 DEF Inv, BodyFirst
<1> QED
  BY <1>4, <1>5, <1>6, <1>7, <1>8 DEF Inv

LEMMA StepInv == Inv /\ [Next]_vars => Inv'
BY expectationsInv, CheckInv, AllMetInv, RememberBodyInv, RememberHeadersInv, ReportUnusedInv,
   StutterInv DEF Next, Over

THEOREM Invariance == Spec => []Inv
BY InitInv, StepInv, PTL DEF Spec

-----------------------------------------------------------------------------
(* What follows from it *)

\* Checks and errors keep their form (addExp, addFail, rememberHeaders).
THEOREM TypeCorrect == Spec => []TypeOK
<1>1. Inv => TypeOK
  <2> SUFFICES ASSUME Inv PROVE TypeOK
    OBVIOUS
  <2>1. \A n \in DOMAIN exps : exps[n].kind \in Kinds /\ exps[n].of # {}
    <3>1. \A n \in DOMAIN exps : exps[n] \in Checks
      BY DEF Inv, Checked
    <3> QED
      BY <3>1 DEF Checks
  <2> QED
    BY <2>1 DEF Inv, Listed, Checked, Traced, BodyFirst, TypeOK
<1> QED
  BY <1>1, Invariance, PTL

\* The whole list is met by exactly the responses that are as expected.
LEMMA AllMetAsExpected ==
    ASSUME Inv, exps \in Lists
    PROVE  /\ i = Len(exps) /\ ~hasFailedExp => AsExpected
           /\ hasFailedExp => ~AsExpected
<1>1. exps \in Seq(Checks) /\ (AllMeet(exps) <=> AsExpected)
  BY ListMeansExpected DEF Inv, Listed
<1>2. i \in 0 .. Len(exps) /\ DOMAIN exps = 1 .. Len(exps)
  BY <1>1 DEF Inv, Checked
<1>3. i = Len(exps) /\ ~hasFailedExp => AllMeet(exps)
  BY <1>2 DEF Inv, Checked, AllMeet
<1>4. ASSUME hasFailedExp
      PROVE  ~AllMeet(exps)
  <2>1. PICK n \in 1 .. i : ~Meets(exps[n])
    BY <1>4 DEF Inv, Checked
  <2>2. n \in DOMAIN exps
    BY <1>2
  <2> QED
    BY <2>1, <2>2 DEF AllMeet
<1> QED
  BY <1>1, <1>3, <1>4

\* A call passes only if the response is all that its Expect asks for, and a
\* check fails only if it is not (expectations, check, rememberBody).
THEOREM VerdictRight == Spec => []Verdict
<1>1. Inv => Verdict
  <2> SUFFICES ASSUME Inv PROVE Verdict
    OBVIOUS
  <2>1. ASSUME hasFailedExp
        PROVE  ~AsExpected
    <3>1. described # {} /\ pc # "expectations"
      BY <2>1 DEF Inv, Listed, Checked, hasFailedExp
    <3>2. exps \in Lists
      BY <3>1 DEF Inv, Listed
    <3> QED
      BY <2>1, <3>2, AllMetAsExpected
  <2>2. ASSUME pc = "done", err = << >>
        PROVE  /\ AsExpected /\ expect.unloadable = {}
               /\ expect.body # {} => Parses /\ expect.body \subseteq remembered
    <3>1. expect.unloadable = {} /\ exps \in Lists
      BY <2>2 DEF Inv, Listed
    <3>2. i = Len(exps) /\ ~hasFailedExp
      BY <2>2 DEF Inv, Checked, Traced
    <3>3. AsExpected
      BY <3>1, <3>2, AllMetAsExpected
    <3> QED
      BY <2>2, <3>1, <3>3 DEF Inv, BodyFirst
  <2> QED
    BY <2>1, <2>2 DEF Verdict
<1> QED
  BY <1>1, Invariance, PTL

\* The report names the error of a failed call and no other (CallTrace.Terminated,
\* ConsoleReporter.Report).
THEOREM ErrorReported == Spec => []ErrorShown
<1>1. Inv => ErrorShown
  <2> SUFFICES ASSUME Inv, err # << >> PROVE Shown = {err}
    BY DEF ErrorShown
  <2>1. CASE ~hasFailedExp
    BY <2>1 DEF Shown, Terminated
  <2>2. CASE hasFailedExp
    <3>1. PICK e : err = <<"check", e>> /\ {d \in described : d[2] = "failed"} = {<<e, "failed">>}
      BY <2>2 DEF Inv, Traced
    <3>2. Shown = {<<"check", d[1]>> : d \in {<<e, "failed">>}}
      BY <2>2, <3>1 DEF Shown, Terminated
    <3> QED
      BY <3>1, <3>2
  <2> QED
    BY <2>1, <2>2
<1> QED
  BY <1>1, Invariance, PTL

\* What the report lists as met is met (addExp after check).
THEOREM ListedMet == Spec => []ListedAreMet
BY Invariance, PTL DEF Inv

\* Nothing is remembered of a response that is not as expected, and no header
\* before the body has given all its values (rememberBody, rememberHeaders).
THEOREM RememberedLast == Spec => []RememberedAfterChecks
<1>1. Inv => RememberedAfterChecks
  <2> SUFFICES ASSUME Inv, remembered # {} PROVE
                 /\ AsExpected
                 /\ ~(remembered \subseteq expect.body) => expect.body \subseteq remembered
    BY DEF RememberedAfterChecks
  <2>1. i = Len(exps) /\ ~hasFailedExp /\ exps \in Lists
    BY DEF Inv, BodyFirst
  <2> QED
    BY <2>1, AllMetAsExpected DEF Inv, BodyFirst
<1> QED
  BY <1>1, Invariance, PTL

-----------------------------------------------------------------------------
(* Induction *)

\* A set of numbers that is not empty has a least one.
LEMMA LeastNumber ==
    ASSUME NEW T \in SUBSET Nat, T # {}
    PROVE  \E n \in T : \A m \in T : n <= m
<1>1. PICK n \in T : \A m \in T : <<m, n>> \notin OpToRel(<, Nat)
    BY WFMin, NatLessThanWellFounded, Zenon
<1>2. \A m \in T : ~(m < n)
    BY <1>1 DEF OpToRel
<1>. QED
    BY <1>2

\* Induction up to n, over the members of a set.
LEMMA Steps ==
    ASSUME NEW n \in Nat, NEW S, 0 \in S,
           \A k \in 1 .. n : k - 1 \in S => k \in S
    PROVE  0 .. n \subseteq S
<1>. SUFFICES ASSUME (0 .. n) \ S # {} PROVE FALSE
    OBVIOUS
<1>. DEFINE T == (0 .. n) \ S
<1>1. PICK k \in T : \A m \in T : k <= m
  <2>1. T \in SUBSET Nat /\ T # {}
      OBVIOUS
  <2>. HIDE DEF T
  <2>. QED
      BY <2>1, LeastNumber
<1>2. k \in 1 .. n /\ k - 1 \in 0 .. n /\ k - 1 \notin T
    BY <1>1
<1>. QED
    BY <1>2

\* Induction over what has a rank.
LEMMA Ranks ==
    ASSUME NEW D, NEW rank, \A x \in D : rank[x] \in Nat, NEW S,
           \A x \in D : (\A y \in D : rank[y] < rank[x] => y \in S) => x \in S
    PROVE  D \subseteq S
<1>. SUFFICES ASSUME NEW x0 \in D, x0 \notin S PROVE FALSE
    OBVIOUS
<1>. DEFINE T == {rank[x] : x \in D \ S}
<1>1. PICK n \in T : \A m \in T : n <= m
  <2>1. T \in SUBSET Nat /\ T # {}
      OBVIOUS
  <2>. HIDE DEF T
  <2>. QED
      BY <2>1, LeastNumber
<1>2. PICK x \in D \ S : rank[x] = n
    BY <1>1
<1>3. ASSUME NEW y \in D, rank[y] < rank[x] PROVE y \in S
  <2>. SUFFICES ASSUME y \notin S PROVE FALSE
      OBVIOUS
  <2>1. rank[y] \in T
      OBVIOUS
  <2>2. n <= rank[y] /\ rank[y] \in Nat /\ rank[x] \in Nat
      BY <1>1, <2>1
  <2>. QED
      BY <1>2, <1>3, <2>2
<1>. QED
    BY <1>2, <1>3

\* A recursion that goes from what has a rank to what has a lower one; G makes of a
\* function what the body of the recursion makes of it.
GoesDown(G, D, R, rank, top) ==
    /\ R # {} /\ top \in Nat /\ \A x \in D : rank[x] \in 0 .. top
    /\ \A f \in [D -> R] : G[f] \in [D -> R]
    /\ \A f, g \in [D -> R] : \A x \in D :
           (\A y \in D : rank[y] < rank[x] => f[y] = g[y]) => G[f][x] = G[g][x]

\* It has a solution.
LEMMA Recursion ==
    ASSUME NEW G, NEW D, NEW R, NEW rank, NEW top, GoesDown(G, D, R, rank, top)
    PROVE  \E f \in [D -> R] : f = G[f]
<1>. USE DEF GoesDown
<1>. DEFINE Upto(k) == {f \in [D -> R] : \A x \in D : rank[x] < k => f[x] = G[f][x]}
            S == {k \in 0 .. top + 1 : Upto(k) # {}}
<1>1. 0 \in S
  <2>1. PICK v \in R : TRUE
      OBVIOUS
  <2>2. [x \in D |-> v] \in Upto(0)
    <3>1. \A x \in D : ~(rank[x] < 0)
        OBVIOUS
    <3>. QED
        BY <3>1
  <2>. QED
      BY <2>2
<1>2. ASSUME NEW k \in 1 .. top + 1, k - 1 \in S PROVE k \in S
  <2>1. PICK f \in [D -> R] : \A x \in D : rank[x] < k - 1 => f[x] = G[f][x]
      BY <1>2
  <2>2. G[f] \in [D -> R]
      OBVIOUS
  <2>3. ASSUME NEW x \in D, rank[x] < k PROVE G[f][x] = G[G[f]][x]
    <3>1. \A y \in D : rank[y] < rank[x] => f[y] = G[f][y]
      <4>1. \A y \in D : rank[y] < rank[x] => rank[y] < k - 1
          BY <2>3
      <4>. QED
          BY <2>1, <4>1
    <3>. QED
        BY <2>2, <3>1
  <2>4. G[f] \in Upto(k)
      BY <2>2, <2>3
  <2>. QED
      BY <2>4
<1>3. top + 1 \in S
  <2>1. 0 .. top + 1 \subseteq S
    <3>. HIDE DEF S
    <3>. QED
        BY <1>1, <1>2, Steps
  <2>. QED
      BY <2>1
<1>4. PICK f \in [D -> R] : \A x \in D : rank[x] < top + 1 => f[x] = G[f][x]
    BY <1>3
<1>5. \A x \in D : f[x] = G[f][x]
    BY <1>4
<1>. QED
    BY <1>5

-----------------------------------------------------------------------------
(* FlattenSeq *)

IsFlattening(flat, ss, n) ==
    flat = [k \in 1 .. n |-> IF k = 1 THEN ss[k] ELSE flat[k - 1] \o ss[k]]

\* The recursion of FlattenSeq has a solution.
LEMMA FlatteningExists ==
    ASSUME NEW ss, NEW n \in Nat
    PROVE  \E flat : IsFlattening(flat, ss, n)
<1>. DEFINE S == {k \in 0 .. n : \E flat : IsFlattening(flat, ss, k)}
<1>1. 0 \in S
  <2>. DEFINE flat == [k \in 1 .. 0 |-> ss[k]]
  <2>1. IsFlattening(flat, ss, 0)
      BY DEF IsFlattening
  <2>. QED
      BY <2>1
<1>2. ASSUME NEW k \in 1 .. n, k - 1 \in S PROVE k \in S
  <2>1. PICK old : IsFlattening(old, ss, k - 1)
      BY <1>2
  <2>. DEFINE flat == [j \in 1 .. k |-> IF j < k THEN old[j]
                                       ELSE IF j = 1 THEN ss[j] ELSE old[j - 1] \o ss[j]]
  <2>2. ASSUME NEW j \in 1 .. k
        PROVE  flat[j] = IF j = 1 THEN ss[j] ELSE flat[j - 1] \o ss[j]
    <3>1. j # 1 => j - 1 \in 1 .. k /\ j - 1 < k
        OBVIOUS
    <3>2. CASE j = k
        BY <3>1, <3>2
    <3>3. CASE j < k
      <4>1. j \in 1 .. k - 1
          BY <3>3
      <4>2. old[j] = IF j = 1 THEN ss[j] ELSE old[j - 1] \o ss[j]
        <5>. HIDE DEF flat, S
        <5>. QED
            BY <2>1, <4>1 DEF IsFlattening
      <4>. QED
          BY <3>1, <3>3, <4>2
    <3>. QED
        BY <3>2, <3>3
  <2>3. IsFlattening(flat, ss, k)
    <3>1. flat = [j \in 1 .. k |-> flat[j]]
        OBVIOUS
    <3>. HIDE DEF flat
    <3>. QED
        BY <2>2, <3>1 DEF IsFlattening
  <2>. QED
      BY <2>3
<1>3. 0 .. n \subseteq S
  <2>. HIDE DEF S
  <2>. QED
      BY <1>1, <1>2, Steps
<1>. QED
    BY <1>3

\* What FlattenSeq makes of sequences over a set is a sequence over it.
LEMMA FlattenType ==
    ASSUME NEW T, NEW ss \in Seq(Seq(T))
    PROVE  FlattenSeq(ss) \in Seq(T)
<1>. DEFINE flat == CHOOSE f : f = [k \in 1 .. Len(ss) |->
                                       IF k = 1 THEN ss[k] ELSE f[k - 1] \o ss[k]]
<1>1. FlattenSeq(ss) = IF Len(ss) = 0 THEN ss ELSE flat[Len(ss)]
    BY DEF FlattenSeq
<1>2. Len(ss) \in Nat /\ \A k \in 1 .. Len(ss) : ss[k] \in Seq(T)
    OBVIOUS
<1>3. CASE Len(ss) = 0
  <2>1. ss = << >>
      BY <1>3
  <2>. QED
      BY <1>1, <1>3, <2>1
<1>4. CASE Len(ss) # 0
  <2>1. flat = [k \in 1 .. Len(ss) |-> IF k = 1 THEN ss[k] ELSE flat[k - 1] \o ss[k]]
    <3>1. \E f : IsFlattening(f, ss, Len(ss))
        BY <1>2, FlatteningExists
    <3>. QED
        BY <3>1, Zenon DEF IsFlattening
  <2>. HIDE DEF flat
  <2>. DEFINE S == {k \in 0 .. Len(ss) : k = 0 \/ flat[k] \in Seq(T)}
  <2>2. 0 \in S
      BY <1>2
  <2>3. ASSUME NEW k \in 1 .. Len(ss), k - 1 \in S PROVE k \in S
    <3>1. ss[k] \in Seq(T) /\ flat[k] = IF k = 1 THEN ss[k] ELSE flat[k - 1] \o ss[k]
        BY <1>2, <2>1
    <3>2. k # 1 => flat[k - 1] \in Seq(T)
        BY <2>3
    <3>3. flat[k] \in Seq(T)
      <4>1. CASE k = 1
          BY <3>1, <4>1
      <4>2. CASE k # 1
        <5>1. flat[k] = flat[k - 1] \o ss[k] /\ flat[k - 1] \in Seq(T)
            BY <3>1, <3>2, <4>2
        <5>. HIDE DEF S
        <5>. QED
            BY <3>1, <5>1
      <4>. QED
          BY <4>1, <4>2
    <3>. QED
        BY <1>2, <3>3
  <2>4. 0 .. Len(ss) \subseteq S
    <3>. HIDE DEF S
    <3>. QED
        BY <1>2, <2>2, <2>3, Steps
  <2>. QED
      BY <1>1, <1>2, <1>4, <2>4
<1>. QED
    BY <1>3, <1>4

\* A concatenation has what its parts have.
LEMMA ToSetConcat ==
    ASSUME NEW T, NEW ss \in Seq(T), NEW ts \in Seq(T), NEW e
    PROVE  e \in ToSet(ss \o ts) <=> e \in ToSet(ss) \/ e \in ToSet(ts)
<1>1. /\ Len(ss) \in Nat /\ Len(ts) \in Nat /\ DOMAIN ss = 1 .. Len(ss) /\ DOMAIN ts = 1 .. Len(ts)
      /\ DOMAIN (ss \o ts) = 1 .. Len(ss) + Len(ts)
    OBVIOUS
<1>2. \A n \in 1 .. Len(ss) : (ss \o ts)[n] = ss[n]
    OBVIOUS
<1>3. \A n \in 1 .. Len(ts) : (ss \o ts)[Len(ss) + n] = ts[n]
  <2>1. ASSUME NEW n \in 1 .. Len(ts) PROVE (ss \o ts)[Len(ss) + n] = ts[n]
    <3>1. /\ Len(ss) + n \in 1 .. Len(ss) + Len(ts) /\ ~(Len(ss) + n <= Len(ss))
          /\ Len(ss) + n - Len(ss) = n
        BY <1>1
    <3>. QED
        BY <1>1, <3>1
  <2>. QED
      BY <2>1
<1>4. ASSUME e \in ToSet(ss) PROVE e \in ToSet(ss \o ts)
  <2>1. PICK n \in 1 .. Len(ss) : e = ss[n]
      BY <1>1, <1>4 DEF ToSet
  <2>2. n \in DOMAIN (ss \o ts) /\ (ss \o ts)[n] = e
      BY <1>1, <1>2, <2>1
  <2>. QED
      BY <2>2, Zenon DEF ToSet
<1>5. ASSUME e \in ToSet(ts) PROVE e \in ToSet(ss \o ts)
  <2>1. PICK n \in 1 .. Len(ts) : e = ts[n]
      BY <1>1, <1>5 DEF ToSet
  <2>2. Len(ss) + n \in DOMAIN (ss \o ts) /\ (ss \o ts)[Len(ss) + n] = e
      BY <1>1, <1>3, <2>1
  <2>. QED
      BY <2>2, Zenon DEF ToSet
<1>6. ASSUME e \in ToSet(ss \o ts) PROVE e \in ToSet(ss) \/ e \in ToSet(ts)
  <2>1. PICK n \in 1 .. Len(ss) + Len(ts) : e = (ss \o ts)[n]
    <3>1. PICK n \in DOMAIN (ss \o ts) : e = (ss \o ts)[n]
        BY <1>6, Zenon DEF ToSet
    <3>. QED
        BY <1>1, <3>1
  <2>2. CASE n <= Len(ss)
    <3>1. n \in DOMAIN ss /\ e = ss[n]
        BY <1>1, <1>2, <2>1, <2>2
    <3>. QED
        BY <3>1, Zenon DEF ToSet
  <2>3. CASE n > Len(ss)
    <3>1. n - Len(ss) \in DOMAIN ts /\ Len(ss) + (n - Len(ss)) = n
        BY <1>1, <2>3
    <3>2. e = ts[n - Len(ss)]
        BY <1>1, <1>3, <2>1, <3>1
    <3>. QED
        BY <3>1, <3>2, Zenon DEF ToSet
  <2>. QED
      BY <1>1, <2>2, <2>3
<1>. QED
    BY <1>4, <1>5, <1>6

\* FlattenSeq has what the sequences have.
LEMMA FlattenHas ==
    ASSUME NEW T, NEW ss \in Seq(Seq(T)), NEW e
    PROVE  e \in ToSet(FlattenSeq(ss)) <=> \E k \in 1 .. Len(ss) : e \in ToSet(ss[k])
<1>. DEFINE flat == CHOOSE f : f = [k \in 1 .. Len(ss) |->
                                       IF k = 1 THEN ss[k] ELSE f[k - 1] \o ss[k]]
            Has(k) == \E j \in 1 .. k : e \in ToSet(ss[j])
<1>1. FlattenSeq(ss) = IF Len(ss) = 0 THEN ss ELSE flat[Len(ss)]
    BY DEF FlattenSeq
<1>2. Len(ss) \in Nat /\ \A k \in 1 .. Len(ss) : ss[k] \in Seq(T)
    OBVIOUS
<1>3. CASE Len(ss) = 0
  <2>1. ss = << >> /\ 1 .. Len(ss) = {}
      BY <1>3
  <2>2. e \notin ToSet(ss)
      BY <2>1 DEF ToSet
  <2>. HIDE DEF flat
  <2>. QED
      BY <1>1, <1>3, <2>1, <2>2
<1>4. CASE Len(ss) # 0
  <2>1. flat = [k \in 1 .. Len(ss) |-> IF k = 1 THEN ss[k] ELSE flat[k - 1] \o ss[k]]
    <3>1. \E f : IsFlattening(f, ss, Len(ss))
        BY <1>2, FlatteningExists
    <3>. QED
        BY <3>1, Zenon DEF IsFlattening
  <2>. HIDE DEF flat
  <2>. DEFINE S == {k \in 0 .. Len(ss) :
                        k = 0 \/ (flat[k] \in Seq(T) /\ (e \in ToSet(flat[k]) <=> Has(k)))}
  <2>2. 0 \in S
      BY <1>2
  <2>3. ASSUME NEW k \in 1 .. Len(ss), k - 1 \in S PROVE k \in S
    <3>1. ss[k] \in Seq(T) /\ flat[k] = IF k = 1 THEN ss[k] ELSE flat[k - 1] \o ss[k]
        BY <1>2, <2>1
    <3>2. k # 1 => flat[k - 1] \in Seq(T) /\ (e \in ToSet(flat[k - 1]) <=> Has(k - 1))
        BY <2>3
    <3>3. Has(k) <=> (k # 1 /\ Has(k - 1)) \/ e \in ToSet(ss[k])
      <4>1. 1 .. k = (1 .. k - 1) \cup {k} /\ (k = 1 => 1 .. k - 1 = {})
          OBVIOUS
      <4>. QED
          BY <4>1, Zenon
    <3>. HIDE DEF S, Has
    <3>4. flat[k] \in Seq(T) /\ (e \in ToSet(flat[k]) <=> Has(k))
      <4>1. CASE k = 1
          BY <3>1, <3>3, <4>1
      <4>2. CASE k # 1
        <5>1. flat[k] = flat[k - 1] \o ss[k] /\ flat[k - 1] \in Seq(T)
            BY <3>1, <3>2, <4>2
        <5>2. e \in ToSet(flat[k - 1] \o ss[k]) <=> e \in ToSet(flat[k - 1]) \/ e \in ToSet(ss[k])
            BY <3>1, <5>1, ToSetConcat
        <5>3. flat[k - 1] \o ss[k] \in Seq(T)
            BY <3>1, <5>1
        <5>. QED
            BY <3>2, <3>3, <4>2, <5>1, <5>2, <5>3, Zenon
      <4>. QED
          BY <4>1, <4>2
    <3>. QED
        BY <1>2, <3>4 DEF S
  <2>4. 0 .. Len(ss) \subseteq S
    <3>. HIDE DEF S
    <3>. QED
        BY <1>2, <2>2, <2>3, Steps
  <2>. QED
      BY <1>1, <1>2, <1>4, <2>4
<1>. QED
    BY <1>3, <1>4

\* SetToSeq has what the set has.
LEMMA SetToSeqHas ==
    ASSUME NEW S, IsFiniteSet(S)
    PROVE  /\ SetToSeq(S) \in Seq(S)
           /\ \A e \in S : \E n \in 1 .. Len(SetToSeq(S)) : SetToSeq(S)[n] = e
           /\ \A n, m \in 1 .. Len(SetToSeq(S)) : SetToSeq(S)[n] = SetToSeq(S)[m] => n = m
<1>. DEFINE n == Cardinality(S)
            s == SetToSeq(S)
<1>1. n \in Nat /\ ExistsBijection(1 .. n, S)
    BY FS_CardinalityType
<1>2. s \in [1 .. n -> S] /\ IsInjective(s)
  <2>1. \E f \in [1 .. n -> S] : IsInjective(f)
      BY <1>1 DEF ExistsBijection, Bijection, Injection, IsInjective
  <2>. QED
      BY <2>1, Zenon DEF SetToSeq
<1>. HIDE DEF s
<1>3. s \in Injection(1 .. n, S)
    BY <1>2 DEF Injection, IsInjective
<1>4. s \in Surjection(1 .. n, S)
  <2>1. IsFiniteSet(1 .. n) /\ Cardinality(1 .. n) = n
      BY <1>1, FS_Interval
  <2>. QED
      BY <1>3, <2>1, FS_Injection
<1>5. s \in Seq(S) /\ Len(s) = n
    BY <1>1, <1>2
<1>6. \A m, k \in 1 .. n : s[m] = s[k] => m = k
    BY <1>2 DEF IsInjective
<1>. QED
    BY <1>4, <1>5, <1>6 DEF Surjection, s

\* A function on the numbers up to n is a sequence.
LEMMA SequenceIs ==
    ASSUME NEW T, NEW n \in Nat, NEW s, s = [k \in 1 .. n |-> s[k]], \A k \in 1 .. n : s[k] \in T
    PROVE  s \in Seq(T) /\ Len(s) = n
    OBVIOUS

\* Sequences of one length with the same elements are one.
LEMMA SameSequence ==
    ASSUME NEW T, NEW ss \in Seq(T), NEW ts \in Seq(T), Len(ss) = Len(ts),
           \A k \in 1 .. Len(ss) : ss[k] = ts[k]
    PROVE  ss = ts
    OBVIOUS

\* The elements of the second part of a concatenation.
LEMMA ConcatAt ==
    ASSUME NEW T, NEW ss \in Seq(T), NEW ts \in Seq(T)
    PROVE  \A k \in 1 .. Len(ts) : (ss \o ts)[Len(ss) + k] = ts[k]
<1>. SUFFICES ASSUME NEW k \in 1 .. Len(ts) PROVE (ss \o ts)[Len(ss) + k] = ts[k]
    OBVIOUS
<1>1. /\ Len(ss) + k \in 1 .. Len(ss) + Len(ts) /\ ~(Len(ss) + k <= Len(ss))
      /\ Len(ss) + k - Len(ss) = k
    OBVIOUS
<1>. QED
    BY <1>1

\* What has the elements of the parts is the concatenation.
LEMMA ConcatIs ==
    ASSUME NEW T, NEW ss \in Seq(T), NEW ts \in Seq(T), NEW us \in Seq(T),
           Len(us) = Len(ss) + Len(ts),
           \A k \in 1 .. Len(ss) : us[k] = ss[k],
           \A k \in 1 .. Len(ts) : us[Len(ss) + k] = ts[k]
    PROVE  us = ss \o ts
<1>. DEFINE vs == ss \o ts
            n == Len(ss)
            m == Len(ts)
<1>1. /\ vs \in Seq(T) /\ Len(vs) = n + m /\ n \in Nat /\ m \in Nat
      /\ \A k \in 1 .. n : vs[k] = ss[k]
    OBVIOUS
<1>2. \A k \in 1 .. m : vs[n + k] = ts[k]
    BY ConcatAt
<1>3. ASSUME NEW k \in 1 .. n + m PROVE us[k] = vs[k]
  <2>1. CASE k \in 1 .. n
      BY <1>1, <2>1
  <2>2. CASE k \notin 1 .. n
    <3>. DEFINE l == k - n
    <3>1. l \in 1 .. m /\ k = n + l
        BY <1>1, <2>2
    <3>. HIDE DEF l, vs
    <3>. QED
        BY <1>2, <3>1
  <2>. QED
      BY <2>1, <2>2
<1>. HIDE DEF vs
<1>4. us = vs
    BY <1>1, <1>3
<1>. QED
    BY <1>4 DEF vs

\* Concatenation is associative.
LEMMA ConcatThree ==
    ASSUME NEW T, NEW ss \in Seq(T), NEW ts \in Seq(T), NEW us \in Seq(T)
    PROVE  (ss \o ts) \o us = ss \o (ts \o us)
    OBVIOUS

\* And an empty sequence adds nothing to it.
LEMMA ConcatNothing ==
    ASSUME NEW T, NEW ss \in Seq(T)
    PROVE  ss \o << >> = ss /\ << >> \o ss = ss
    OBVIOUS

\* The prefixes of a flattening.
LEMMA FlattenSteps ==
    ASSUME NEW T, NEW ss \in Seq(Seq(T))
    PROVE  \E flat \in [0 .. Len(ss) -> Seq(T)] :
               /\ flat[0] = << >>
               /\ \A k \in 1 .. Len(ss) : flat[k] = flat[k - 1] \o ss[k]
               /\ FlattenSeq(ss) = flat[Len(ss)]
<1>. DEFINE n == Len(ss)
            f == CHOOSE f : f = [k \in 1 .. Len(ss) |-> IF k = 1 THEN ss[k] ELSE f[k - 1] \o ss[k]]
            flat == [k \in 0 .. n |-> IF k = 0 THEN << >> ELSE f[k]]
<1>1. FlattenSeq(ss) = IF n = 0 THEN ss ELSE f[n]
    BY DEF FlattenSeq
<1>2. n \in Nat /\ \A k \in 1 .. n : ss[k] \in Seq(T)
    OBVIOUS
<1>3. f = [k \in 1 .. n |-> IF k = 1 THEN ss[k] ELSE f[k - 1] \o ss[k]]
  <2>1. \E g : IsFlattening(g, ss, n)
      BY <1>2, FlatteningExists
  <2>. QED
      BY <2>1, Zenon DEF IsFlattening
<1>. HIDE DEF f
<1>4. ASSUME NEW k \in 1 .. n PROVE k - 1 \in 0 .. n /\ flat[k] = IF k = 1 THEN ss[k] ELSE f[k - 1] \o ss[k]
  <2>1. k - 1 \in 0 .. n /\ k \in 0 .. n /\ k # 0
      BY <1>2
  <2>2. f[k] = IF k = 1 THEN ss[k] ELSE f[k - 1] \o ss[k]
      BY <1>3, Zenon
  <2>3. flat[k] = f[k]
      BY <2>1
  <2>. HIDE DEF flat
  <2>. QED
      BY <2>1, <2>2, <2>3
<1>5. flat[0] = << >>
    BY <1>2
<1>. DEFINE S == {k \in 0 .. n : flat[k] \in Seq(T) /\ (k > 0 => flat[k] = flat[k - 1] \o ss[k])}
<1>6. 0 \in S
    BY <1>2
<1>7. ASSUME NEW k \in 1 .. n, k - 1 \in S PROVE k \in S
  <2>1. flat[k - 1] \in Seq(T) /\ ss[k] \in Seq(T) /\ k - 1 \in 0 .. n
      BY <1>2, <1>7
  <2>2. flat[k] = flat[k - 1] \o ss[k]
    <3>1. CASE k = 1
      <4>1. flat[k] = ss[k]
          BY <1>4, <3>1
      <4>2. flat[k - 1] = << >>
          BY <1>5, <3>1
      <4>. HIDE DEF flat, S
      <4>. QED
          BY <2>1, <4>1, <4>2, ConcatNothing
    <3>2. CASE k # 1
      <4>1. flat[k] = f[k - 1] \o ss[k]
          BY <1>4, <3>2
      <4>2. flat[k - 1] = f[k - 1]
          BY <1>4, <3>2
      <4>. QED
          BY <4>1, <4>2
    <3>. QED
        BY <3>1, <3>2
  <2>. HIDE DEF flat
  <2>3. flat[k] \in Seq(T)
    <3>. HIDE DEF S
    <3>. QED
        BY <2>1, <2>2
  <2>. QED
    <3>1. k \in 0 .. n
        BY <1>2
    <3>2. flat[k] \in Seq(T) /\ (k > 0 => flat[k] = flat[k - 1] \o ss[k])
        BY <2>2, <2>3, Zenon
    <3>. QED
        BY <3>1, <3>2, Zenon
<1>8. 0 .. n \subseteq S
  <2>. HIDE DEF S
  <2>. QED
      BY <1>2, <1>6, <1>7, Steps
<1>9. FlattenSeq(ss) = flat[n]
  <2>1. CASE n = 0
      BY <1>1, <2>1
  <2>2. CASE n # 0
      BY <1>1, <1>2, <2>2
  <2>. QED
      BY <2>1, <2>2
<1>10. flat = [k \in 0 .. n |-> flat[k]] /\ \A k \in 0 .. n : flat[k] \in Seq(T)
    BY <1>8
<1>11. ASSUME NEW k \in 1 .. n PROVE flat[k] = flat[k - 1] \o ss[k]
  <2>1. k \in 0 .. n /\ k > 0
      BY <1>2
  <2>2. k \in S
      BY <1>8, <2>1, Zenon
  <2>. HIDE DEF flat
  <2>. QED
      BY <2>1, <2>2
<1>12. flat \in [0 .. n -> Seq(T)]
  <2>. HIDE DEF flat, S
  <2>. QED
      BY <1>10
<1>. HIDE DEF flat, S
<1>. QED
    BY <1>5, <1>9, <1>11, <1>12

\* The flattening of a concatenation.
LEMMA FlattenConcat ==
    ASSUME NEW T, NEW ss \in Seq(Seq(T)), NEW ts \in Seq(Seq(T))
    PROVE  FlattenSeq(ss \o ts) = FlattenSeq(ss) \o FlattenSeq(ts)
<1>. DEFINE us == ss \o ts
            n == Len(ss)
            m == Len(ts)
<1>1. /\ n \in Nat /\ m \in Nat /\ us \in Seq(Seq(T)) /\ Len(us) = n + m
      /\ \A k \in 1 .. n : us[k] = ss[k] /\ ss[k] \in Seq(T)
      /\ \A k \in 1 .. m : us[n + k] = ts[k] /\ ts[k] \in Seq(T)
    OBVIOUS
<1>2. PICK f \in [0 .. n -> Seq(T)] :
          /\ f[0] = << >> /\ \A k \in 1 .. n : f[k] = f[k - 1] \o ss[k]
          /\ FlattenSeq(ss) = f[n]
    BY FlattenSteps
<1>3. PICK g \in [0 .. m -> Seq(T)] :
          /\ g[0] = << >> /\ \A k \in 1 .. m : g[k] = g[k - 1] \o ts[k]
          /\ FlattenSeq(ts) = g[m]
    BY FlattenSteps
<1>4. PICK h \in [0 .. Len(us) -> Seq(T)] :
          /\ h[0] = << >> /\ \A k \in 1 .. Len(us) : h[k] = h[k - 1] \o us[k]
          /\ FlattenSeq(us) = h[Len(us)]
  <2>. HIDE DEF us
  <2>. QED
      BY <1>1, FlattenSteps
<1>. HIDE DEF us, n, m
<1>. DEFINE S == {k \in 0 .. n : h[k] = f[k]}
            U == {k \in 0 .. m : h[n + k] = f[n] \o g[k]}
<1>5. 0 .. n \subseteq S
  <2>1. 0 \in S
      BY <1>1, <1>2, <1>4
  <2>2. ASSUME NEW k \in 1 .. n, k - 1 \in S PROVE k \in S
    <3>1. k \in 1 .. Len(us) /\ us[k] = ss[k] /\ k \in 0 .. n
        BY <1>1
    <3>2. h[k] = h[k - 1] \o ss[k] /\ f[k] = f[k - 1] \o ss[k]
        BY <1>2, <1>4, <3>1
    <3>. QED
        BY <2>2, <3>1, <3>2
  <2>. HIDE DEF S
  <2>. QED
      BY <1>1, <2>1, <2>2, Steps
<1>6. h[n] = f[n] /\ f[n] \in Seq(T)
    BY <1>1, <1>2, <1>5
<1>7. 0 .. m \subseteq U
  <2>1. 0 \in U
    <3>1. n + 0 = n /\ 0 \in 0 .. m
        BY <1>1
    <3>2. f[n] \o g[0] = f[n]
        BY <1>3, <1>6, ConcatNothing
    <3>. QED
        BY <1>6, <3>1, <3>2
  <2>2. ASSUME NEW k \in 1 .. m, k - 1 \in U PROVE k \in U
    <3>1. n + k \in 1 .. n + m /\ n + k - 1 = n + (k - 1) /\ k - 1 \in 0 .. m /\ k \in 0 .. m
        BY <1>1
    <3>2. us[n + k] = ts[k] /\ ts[k] \in Seq(T)
        BY <1>1
    <3>3. h[n + k] = h[n + (k - 1)] \o ts[k]
      <4>. DEFINE j == n + k
      <4>1. j \in 1 .. Len(us) /\ j - 1 = n + (k - 1) /\ us[j] = ts[k]
          BY <1>1, <3>1, <3>2
      <4>. HIDE DEF j
      <4>2. h[j] = h[j - 1] \o us[j]
          BY <1>4, <4>1, Zenon
      <4>3. h[j] = h[n + (k - 1)] \o ts[k]
          BY <4>1, <4>2, Zenon
      <4>. QED
          BY <4>3, Zenon DEF j
    <3>4. g[k - 1] \in Seq(T) /\ g[k] = g[k - 1] \o ts[k]
        BY <1>3, <3>1
    <3>5. (f[n] \o g[k - 1]) \o ts[k] = f[n] \o (g[k - 1] \o ts[k])
      <4>. DEFINE a == f[n]
                  b == g[k - 1]
                  c == ts[k]
      <4>1. a \in Seq(T) /\ b \in Seq(T) /\ c \in Seq(T)
          BY <1>6, <3>2, <3>4
      <4>. HIDE DEF U, a, b, c
      <4>2. (a \o b) \o c = a \o (b \o c)
          BY <4>1, ConcatThree, SMTT(20)
      <4>. QED
          BY <4>2, Zenon DEF a, b, c
    <3>6. h[n + k] = f[n] \o g[k]
        BY <2>2, <3>3, <3>4, <3>5, Zenon
    <3>. QED
        BY <3>1, <3>6
  <2>. HIDE DEF U
  <2>. QED
      BY <1>1, <2>1, <2>2, Steps
<1>8. h[n + m] = f[n] \o g[m]
  <2>1. m \in 0 .. m
      BY <1>1
  <2>. QED
      BY <1>7, <2>1, Zenon
<1>. QED
    BY <1>1, <1>2, <1>3, <1>4, <1>8 DEF us

\* The flattening of sequences of which one at most has anything.
LEMMA FlattenOne ==
    ASSUME NEW T, NEW ss \in Seq(Seq(T)), NEW m \in 1 .. Len(ss),
           \A k \in 1 .. Len(ss) : k # m => ss[k] = << >>
    PROVE  FlattenSeq(ss) = ss[m]
<1>1. Len(ss) \in Nat /\ \A k \in 1 .. Len(ss) : ss[k] \in Seq(T)
    OBVIOUS
<1>2. PICK f \in [0 .. Len(ss) -> Seq(T)] :
          /\ f[0] = << >> /\ \A k \in 1 .. Len(ss) : f[k] = f[k - 1] \o ss[k]
          /\ FlattenSeq(ss) = f[Len(ss)]
    BY FlattenSteps
<1>. DEFINE S == {k \in 0 .. Len(ss) : f[k] = IF k < m THEN << >> ELSE ss[m]}
<1>3. 0 \in S
    BY <1>1, <1>2
<1>4. ASSUME NEW k \in 1 .. Len(ss), k - 1 \in S PROVE k \in S
  <2>1. f[k] = f[k - 1] \o ss[k] /\ f[k - 1] = IF k - 1 < m THEN << >> ELSE ss[m]
      BY <1>2, <1>4
  <2>2. CASE k < m
    <3>1. f[k - 1] = << >> /\ ss[k] = << >>
        BY <2>1, <2>2
    <3>2. << >> \o << >> = << >>
        OBVIOUS
    <3>. QED
        BY <1>1, <2>1, <2>2, <3>1, <3>2
  <2>3. CASE k = m
    <3>1. f[k - 1] = << >>
        BY <2>1, <2>3
    <3>. HIDE DEF S
    <3>2. f[k] = ss[m]
        BY <1>1, <2>1, <2>3, <3>1, ConcatNothing
    <3>. QED
        BY <1>1, <2>3, <3>2 DEF S
  <2>4. CASE k > m
    <3>1. f[k - 1] = ss[m] /\ ss[k] = << >>
        BY <2>1, <2>4
    <3>. HIDE DEF S
    <3>2. f[k] = ss[m]
        BY <1>1, <2>1, <3>1, ConcatNothing
    <3>. QED
        BY <1>1, <2>4, <3>2 DEF S
  <2>. QED
      BY <1>1, <2>2, <2>3, <2>4
<1>5. 0 .. Len(ss) \subseteq S
  <2>. HIDE DEF S
  <2>. QED
      BY <1>1, <1>3, <1>4, Steps
<1>6. Len(ss) \in 0 .. Len(ss) /\ ~(Len(ss) < m)
    BY <1>1
<1>7. f[Len(ss)] = IF Len(ss) < m THEN << >> ELSE ss[m]
    BY <1>5, <1>6, Zenon
<1>. QED
    BY <1>2, <1>6, <1>7, Zenon

\* Flattening empty sequences.
LEMMA FlattenNone ==
    ASSUME NEW ss, NEW n \in Nat, DOMAIN ss = 1 .. n, \A k \in 1 .. n : ss[k] = << >>
    PROVE  FlattenSeq([k \in 1 .. n |-> ss[k]]) = << >>
<1>. DEFINE ts == [k \in 1 .. n |-> ss[k]]
<1>1. ts \in Seq(Seq({})) /\ Len(ts) = n /\ \A k \in 1 .. n : ts[k] = << >>
  <2>1. \A k \in 1 .. n : ss[k] \in Seq({})
    <3>1. << >> \in Seq({})
        OBVIOUS
    <3>. QED
        BY <3>1
  <2>. QED
      BY <2>1
<1>. HIDE DEF ts
<1>2. PICK f \in [0 .. Len(ts) -> Seq({})] : FlattenSeq(ts) = f[Len(ts)]
    BY <1>1, FlattenSteps
<1>3. FlattenSeq(ts) \in Seq({})
    BY <1>1, <1>2
<1>4. \A s \in Seq({}) : s = << >>
    OBVIOUS
<1>. QED
    BY <1>3, <1>4 DEF ts

\* Flattening sequences that are all empty.
LEMMA FlattenEmpty ==
    ASSUME NEW T, NEW ss \in Seq(Seq(T)), \A k \in DOMAIN ss : ss[k] = << >>
    PROVE  FlattenSeq(ss) = << >>
<1>1. /\ Len(ss) \in Nat /\ DOMAIN ss = 1 .. Len(ss) /\ ss = [k \in 1 .. Len(ss) |-> ss[k]]
      /\ \A k \in 1 .. Len(ss) : ss[k] = << >>
    OBVIOUS
<1>2. FlattenSeq([k \in 1 .. Len(ss) |-> ss[k]]) = << >>
    BY <1>1, FlattenNone
<1>. QED
    BY <1>1, <1>2, Zenon

-----------------------------------------------------------------------------
(* Loops *)

IsLoop(after, turn, s, n) ==
    after = [k \in 0 .. n |-> IF k = 0 THEN s ELSE turn[after[k - 1]]]

\* The recursion of Loop has a solution.
LEMMA LoopExists ==
    ASSUME NEW turn, NEW s, NEW n \in Nat
    PROVE  \E after : IsLoop(after, turn, s, n)
<1>. DEFINE S == {k \in 0 .. n : \E after : IsLoop(after, turn, s, k)}
<1>1. 0 \in S
  <2>. DEFINE new == [k \in 0 .. 0 |-> s]
  <2>1. IsLoop(new, turn, s, 0)
    <3>1. \A k \in 0 .. 0 : new[k] = IF k = 0 THEN s ELSE turn[new[k - 1]]
        OBVIOUS
    <3>2. new = [k \in 0 .. 0 |-> new[k]]
        OBVIOUS
    <3>. HIDE DEF new
    <3>. QED
        BY <3>1, <3>2 DEF IsLoop
  <2>. QED
      BY <2>1
<1>2. ASSUME NEW k \in 1 .. n, k - 1 \in S PROVE k \in S
  <2>1. PICK old : IsLoop(old, turn, s, k - 1)
      BY <1>2
  <2>. DEFINE new == [j \in 0 .. k |-> IF j < k THEN old[j] ELSE turn[old[k - 1]]]
  <2>2. ASSUME NEW j \in 0 .. k
        PROVE  new[j] = IF j = 0 THEN s ELSE turn[new[j - 1]]
    <3>1. CASE j = k
        BY <3>1
    <3>2. CASE j < k
      <4>1. j \in 0 .. k - 1
          BY <3>2
      <4>2. old[j] = IF j = 0 THEN s ELSE turn[old[j - 1]]
        <5>. HIDE DEF new, S
        <5>. QED
            BY <2>1, <4>1 DEF IsLoop
      <4>3. new[j] = old[j] /\ (j # 0 => new[j - 1] = old[j - 1])
          BY <3>2
      <4>. HIDE DEF new
      <4>. QED
          BY <4>2, <4>3
    <3>. QED
        BY <3>1, <3>2
  <2>3. IsLoop(new, turn, s, k)
    <3>1. new = [j \in 0 .. k |-> new[j]]
        OBVIOUS
    <3>. HIDE DEF new
    <3>. QED
        BY <2>2, <3>1 DEF IsLoop
  <2>. QED
      BY <2>3
<1>3. 0 .. n \subseteq S
  <2>. HIDE DEF S
  <2>. QED
      BY <1>1, <1>2, Steps
<1>. QED
    BY <1>3

\* J[k] has what there may be after k turns.
LEMMA LoopCounts ==
    ASSUME NEW turn, NEW s, NEW n \in Nat, NEW J, s \in J[0],
           \A k \in 1 .. n : \A t \in J[k - 1] : turn[t] \in J[k]
    PROVE  Loop(turn, s, n) \in J[n]
<1>. DEFINE after == CHOOSE a : a = [k \in 0 .. n |-> IF k = 0 THEN s ELSE turn[a[k - 1]]]
<1>1. Loop(turn, s, n) = after[n]
    BY DEF Loop
<1>2. after = [k \in 0 .. n |-> IF k = 0 THEN s ELSE turn[after[k - 1]]]
  <2>1. \E a : IsLoop(a, turn, s, n)
      BY LoopExists
  <2>. QED
      BY <2>1, Zenon DEF IsLoop
<1>. HIDE DEF after
<1>. DEFINE S == {k \in 0 .. n : after[k] \in J[k]}
<1>3. 0 \in S
    BY <1>2
<1>4. ASSUME NEW k \in 1 .. n, k - 1 \in S PROVE k \in S
  <2>1. after[k] = turn[after[k - 1]]
    <3>. HIDE DEF S
    <3>. QED
        BY <1>2
  <2>2. after[k] \in J[k]
      BY <1>4, <2>1
  <2>. QED
      BY <2>2
<1>5. 0 .. n \subseteq S
  <2>. HIDE DEF S
  <2>. QED
      BY <1>3, <1>4, Steps
<1>. QED
    BY <1>1, <1>5

\* What every turn keeps, the loop keeps.
LEMMA LoopKeeps ==
    ASSUME NEW turn, NEW s, NEW n \in Nat, NEW I, s \in I, \A t \in I : turn[t] \in I
    PROVE  Loop(turn, s, n) \in I
<1>. DEFINE J == [k \in 0 .. n |-> I]
<1>1. s \in J[0] /\ \A k \in 1 .. n : \A t \in J[k - 1] : turn[t] \in J[k]
    OBVIOUS
<1>2. J[n] = I
    OBVIOUS
<1>. HIDE DEF J
<1>3. Loop(turn, s, n) \in J[n]
    BY <1>1, LoopCounts
<1>. QED
    BY <1>2, <1>3
-----------------------------------------------------------------------------
(* Edit scripts *)

\* Each edit consumes an element or none.
LEMMA ConsumedSteps ==
    ASSUME NEW es, NEW other
    PROVE  /\ Consumed(es, 0, other) = 0
           /\ \A n \in Nat : /\ Consumed(es, n, other) \in Nat
                             /\ Consumed(es, n + 1, other) =
                                    Consumed(es, n, other) + IF es[n + 1] # other THEN 1 ELSE 0
<1>. DEFINE U(n) == {m \in 1 .. n : es[m] # other}
<1>1. U(0) = {}
    OBVIOUS
<1>2. ASSUME NEW n \in Nat
      PROVE  /\ IsFiniteSet(U(n)) /\ Cardinality(U(n)) \in Nat
             /\ Cardinality(U(n + 1)) = Cardinality(U(n)) + IF es[n + 1] # other THEN 1 ELSE 0
  <2>1. IsFiniteSet(U(n))
    <3>1. IsFiniteSet(1 .. n)
        BY FS_Interval
    <3>2. U(n) \in SUBSET (1 .. n)
        OBVIOUS
    <3>. HIDE DEF U
    <3>. QED
        BY <3>1, <3>2, FS_Subset
  <2>2. U(n + 1) = IF es[n + 1] # other THEN U(n) \cup {n + 1} ELSE U(n)
      OBVIOUS
  <2>3. n + 1 \notin U(n)
      OBVIOUS
  <2>. HIDE DEF U
  <2>4. Cardinality(U(n)) \in Nat
      BY <2>1, FS_CardinalityType
  <2>5. Cardinality(U(n) \cup {n + 1}) = Cardinality(U(n)) + 1
      BY <2>1, <2>3, FS_AddElement
  <2>. QED
      BY <2>1, <2>2, <2>4, <2>5
<1>3. Cardinality(U(0)) = 0
    BY <1>1, FS_EmptySet
<1>. QED
    BY <1>2, <1>3 DEF Consumed

\* What the first edits consume depends on them only.
LEMMA ConsumedSame ==
    ASSUME NEW es, NEW fs, NEW other, NEW n \in Nat, \A m \in 1 .. n : es[m] = fs[m]
    PROVE  Consumed(es, n, other) = Consumed(fs, n, other)
<1>1. {m \in 1 .. n : es[m] # other} = {m \in 1 .. n : fs[m] # other}
    OBVIOUS
<1>. QED
    BY <1>1 DEF Consumed

\* More edits consume more, and each at most one element.
LEMMA ConsumedGrows ==
    ASSUME NEW es, NEW other, NEW m \in Nat, NEW n \in Nat, m <= n
    PROVE  /\ Consumed(es, m, other) <= Consumed(es, n, other)
           /\ Consumed(es, n, other) <= Consumed(es, m, other) + n - m
<1>. DEFINE S == {k \in 0 .. n - m :
                     /\ Consumed(es, m, other) <= Consumed(es, m + k, other)
                     /\ Consumed(es, m + k, other) <= Consumed(es, m, other) + k}
<1>1. \A k \in Nat : Consumed(es, k, other) \in Nat
    BY ConsumedSteps
<1>2. 0 \in S
    BY <1>1
<1>3. ASSUME NEW k \in 1 .. n - m, k - 1 \in S PROVE k \in S
  <2>1. m + (k - 1) \in Nat /\ m + (k - 1) + 1 = m + k
      OBVIOUS
  <2>2. Consumed(es, m + k, other) =
            Consumed(es, m + (k - 1), other) + IF es[m + k] # other THEN 1 ELSE 0
    <3>1. \A j \in Nat : Consumed(es, j + 1, other) =
                             Consumed(es, j, other) + IF es[j + 1] # other THEN 1 ELSE 0
        BY ConsumedSteps
    <3>. HIDE DEF S
    <3>. QED
        BY <2>1, <3>1
  <2>3. /\ Consumed(es, m, other) <= Consumed(es, m + (k - 1), other)
        /\ Consumed(es, m + (k - 1), other) <= Consumed(es, m, other) + (k - 1)
      BY <1>3
  <2>4. /\ Consumed(es, m + k, other) \in Nat /\ Consumed(es, m, other) \in Nat
        /\ Consumed(es, m + (k - 1), other) \in Nat
      BY <1>1, <2>1
  <2>. QED
      BY <2>2, <2>3, <2>4
<1>4. n - m \in S
  <2>1. n - m \in Nat
      OBVIOUS
  <2>2. 0 .. n - m \subseteq S
    <3>. HIDE DEF S
    <3>. QED
        BY <1>2, <1>3, <2>1, Steps
  <2>. QED
      BY <2>1, <2>2
<1>5. m + (n - m) = n
    OBVIOUS
<1>. QED
    BY <1>1, <1>4, <1>5

\* What a concatenation consumes is what its parts do, one after the other.
LEMMA ConsumedConcat ==
    ASSUME NEW T, NEW ss \in Seq(T), NEW ts \in Seq(T), NEW other, NEW n \in 0 .. Len(ts)
    PROVE  Consumed(ss \o ts, Len(ss) + n, other) =
               Consumed(ss, Len(ss), other) + Consumed(ts, n, other)
<1>. DEFINE cs == ss \o ts
            S == {k \in 0 .. Len(ts) : Consumed(cs, Len(ss) + k, other) =
                                         Consumed(ss, Len(ss), other) + Consumed(ts, k, other)}
<1>1. /\ Len(ss) \in Nat /\ Len(ts) \in Nat
      /\ \A m \in 1 .. Len(ss) : cs[m] = ss[m]
      /\ \A m \in 1 .. Len(ts) : cs[Len(ss) + m] = ts[m]
    OBVIOUS
<1>. HIDE DEF cs
<1>2. 0 \in S
  <2>1. Consumed(cs, Len(ss), other) = Consumed(ss, Len(ss), other)
      BY <1>1, ConsumedSame
  <2>2. Consumed(ts, 0, other) = 0 /\ Consumed(ss, Len(ss), other) \in Nat
      BY <1>1, ConsumedSteps
  <2>. QED
      BY <1>1, <2>1, <2>2
<1>3. ASSUME NEW k \in 1 .. Len(ts), k - 1 \in S PROVE k \in S
  <2>1. Consumed(cs, Len(ss) + (k - 1), other) =
            Consumed(ss, Len(ss), other) + Consumed(ts, k - 1, other)
      BY <1>3
  <2>. HIDE DEF S
  <2>2. \A es : \A j \in Nat : /\ Consumed(es, j, other) \in Nat
                               /\ Consumed(es, j + 1, other) =
                                      Consumed(es, j, other) + IF es[j + 1] # other THEN 1 ELSE 0
      BY ConsumedSteps
  <2>3. /\ k - 1 \in Nat /\ k - 1 + 1 = k
        /\ Len(ss) + (k - 1) \in Nat /\ Len(ss) + (k - 1) + 1 = Len(ss) + k
      BY <1>1
  <2>4. Consumed(cs, Len(ss) + k, other) =
            Consumed(cs, Len(ss) + (k - 1), other) + IF cs[Len(ss) + k] # other THEN 1 ELSE 0
      BY <2>2, <2>3
  <2>5. Consumed(ts, k, other) = Consumed(ts, k - 1, other) + IF ts[k] # other THEN 1 ELSE 0
      BY <2>2, <2>3
  <2>6. Consumed(cs, Len(ss) + k, other) = Consumed(ss, Len(ss), other) + Consumed(ts, k, other)
    <3>1. cs[Len(ss) + k] = ts[k]
        BY <1>1
    <3>2. Consumed(ss, Len(ss), other) \in Nat /\ Consumed(ts, k - 1, other) \in Nat
        BY <1>1, <2>2, <2>3
    <3>. QED
        BY <2>1, <2>4, <2>5, <3>1, <3>2
  <2>. QED
      BY <2>6 DEF S
<1>4. 0 .. Len(ts) \subseteq S
  <2>. HIDE DEF S
  <2>. QED
      BY <1>1, <1>2, <1>3, Steps
<1>. QED
    BY <1>4 DEF cs

\* The edits lead from a pair of positions to another, and say of no two elements that
\* they are identical unless their result says that they are equal.
Leads(f, es, px, py, qx, qy) ==
    /\ es \in Seq(Edits)
    /\ qx = px + Consumed(es, Len(es), "uniqueY")
    /\ qy = py + Consumed(es, Len(es), "uniqueX")
    /\ \A n \in 1 .. Len(es) :
           es[n] = "identity" =>
               Equal(f[<<px + Consumed(es, n, "uniqueY"), py + Consumed(es, n, "uniqueX")>>])

\* No edits lead nowhere, one edit a step, and a concatenation from the start of its
\* first part to the end of its second.
LEMMA LeadsNowhere ==
    ASSUME NEW f, NEW px \in Int, NEW py \in Int
    PROVE  Leads(f, << >>, px, py, px, py)
<1>1. \A other : Consumed(<< >>, 0, other) = 0
    BY ConsumedSteps
<1>2. << >> \in Seq(Edits) /\ Len(<< >>) = 0
    OBVIOUS
<1>. QED
    BY <1>1, <1>2 DEF Leads

\* A script of one edit.
LEMMA LeadsOne ==
    ASSUME NEW f, NEW px \in Int, NEW py \in Int, NEW edit \in Edits,
           edit = "identity" => Equal(f[<<px + 1, py + 1>>])
    PROVE  Leads(f, <<edit>>, px, py, IF edit = "uniqueY" THEN px ELSE px + 1,
                                      IF edit = "uniqueX" THEN py ELSE py + 1)
<1>. DEFINE es == <<edit>>
<1>1. es \in Seq(Edits) /\ Len(es) = 1 /\ es[1] = edit
    OBVIOUS
<1>. HIDE DEF es
<1>2. \A other : Consumed(es, 1, other) = IF edit # other THEN 1 ELSE 0
  <2>1. \A other : /\ Consumed(es, 0, other) = 0
                   /\ Consumed(es, 0 + 1, other) =
                          Consumed(es, 0, other) + IF es[0 + 1] # other THEN 1 ELSE 0
      BY ConsumedSteps
  <2>. QED
      BY <1>1, <2>1
<1>3. Leads(f, es, px, py, IF edit = "uniqueY" THEN px ELSE px + 1,
                           IF edit = "uniqueX" THEN py ELSE py + 1)
    BY <1>1, <1>2 DEF Leads
<1>. QED
    BY <1>3 DEF es

\* A script followed by another that goes on where it leads.
LEMMA LeadsConcat ==
    ASSUME NEW f, NEW ss, NEW ts, NEW px \in Int, NEW py \in Int,
           NEW qx, NEW qy, NEW rx, NEW ry,
           Leads(f, ss, px, py, qx, qy), Leads(f, ts, qx, qy, rx, ry)
    PROVE  Leads(f, ss \o ts, px, py, rx, ry)
<1>. DEFINE cs == ss \o ts
            A(n) == px + Consumed(cs, n, "uniqueY")
            B(n) == py + Consumed(cs, n, "uniqueX")
<1>1. ss \in Seq(Edits) /\ ts \in Seq(Edits)
    BY DEF Leads
<1>2. /\ cs \in Seq(Edits) /\ Len(cs) = Len(ss) + Len(ts)
      /\ Len(ss) \in Nat /\ Len(ts) \in Nat
      /\ \A n \in 1 .. Len(ss) : cs[n] = ss[n]
      /\ \A n \in 1 .. Len(ts) : cs[Len(ss) + n] = ts[n]
    BY <1>1
<1>3. ASSUME NEW other, NEW n \in 0 .. Len(ts)
      PROVE  Consumed(cs, Len(ss) + n, other) =
                 Consumed(ss, Len(ss), other) + Consumed(ts, n, other)
    BY <1>1, ConsumedConcat
<1>. HIDE DEF cs
<1>4. ASSUME NEW other, NEW n \in 1 .. Len(ss)
      PROVE  Consumed(cs, n, other) = Consumed(ss, n, other)
  <2>1. n \in Nat /\ \A m \in 1 .. n : cs[m] = ss[m]
      BY <1>2
  <2>. QED
      BY <2>1, ConsumedSame
<1>5. \A es, other : \A n \in Nat : Consumed(es, n, other) \in Nat
    BY ConsumedSteps
<1>6. /\ Consumed(ss, Len(ss), "uniqueY") \in Nat /\ Consumed(ss, Len(ss), "uniqueX") \in Nat
      /\ qx = px + Consumed(ss, Len(ss), "uniqueY") /\ qy = py + Consumed(ss, Len(ss), "uniqueX")
    BY <1>2, <1>5 DEF Leads
<1>7. rx = A(Len(cs)) /\ ry = B(Len(cs))
  <2>1. Len(ts) \in 0 .. Len(ts)
      BY <1>2
  <2>2. /\ rx = qx + Consumed(ts, Len(ts), "uniqueY") /\ ry = qy + Consumed(ts, Len(ts), "uniqueX")
        /\ Consumed(ts, Len(ts), "uniqueY") \in Nat /\ Consumed(ts, Len(ts), "uniqueX") \in Nat
      BY <1>2, <1>5 DEF Leads
  <2>3. /\ Consumed(cs, Len(cs), "uniqueY") =
               Consumed(ss, Len(ss), "uniqueY") + Consumed(ts, Len(ts), "uniqueY")
        /\ Consumed(cs, Len(cs), "uniqueX") =
               Consumed(ss, Len(ss), "uniqueX") + Consumed(ts, Len(ts), "uniqueX")
      BY <1>2, <1>3, <2>1
  <2>. QED
      BY <1>6, <2>2, <2>3, SMTT(20)
<1>8. ASSUME NEW n \in 1 .. Len(cs), cs[n] = "identity" PROVE Equal(f[<<A(n), B(n)>>])
  <2>1. CASE n <= Len(ss)
    <3>1. n \in 1 .. Len(ss) /\ ss[n] = "identity"
        BY <1>2, <1>8, <2>1
    <3>2. Equal(f[<<px + Consumed(ss, n, "uniqueY"), py + Consumed(ss, n, "uniqueX")>>])
        BY <3>1 DEF Leads
    <3>. QED
        BY <1>4, <3>1, <3>2
  <2>2. CASE n > Len(ss)
    <3>. DEFINE k == n - Len(ss)
    <3>1. k \in 1 .. Len(ts) /\ k \in 0 .. Len(ts) /\ n = Len(ss) + k
        BY <1>2, <2>2
    <3>. HIDE DEF k
    <3>2. ts[k] = "identity"
        BY <1>2, <1>8, <3>1
    <3>3. Equal(f[<<qx + Consumed(ts, k, "uniqueY"), qy + Consumed(ts, k, "uniqueX")>>])
        BY <3>1, <3>2 DEF Leads
    <3>4. /\ Consumed(cs, n, "uniqueY") = Consumed(ss, Len(ss), "uniqueY") + Consumed(ts, k, "uniqueY")
          /\ Consumed(cs, n, "uniqueX") = Consumed(ss, Len(ss), "uniqueX") + Consumed(ts, k, "uniqueX")
        BY <1>3, <3>1
    <3>5. Consumed(ts, k, "uniqueY") \in Nat /\ Consumed(ts, k, "uniqueX") \in Nat
        BY <1>5, <3>1
    <3>6. /\ A(n) = qx + Consumed(ts, k, "uniqueY")
          /\ B(n) = qy + Consumed(ts, k, "uniqueX")
        BY <1>6, <3>4, <3>5
    <3>. QED
        BY <3>3, <3>6
  <2>. QED
      BY <1>2, <2>1, <2>2
<1>. QED
    BY <1>2, <1>7, <1>8 DEF Leads, cs
-----------------------------------------------------------------------------
(* Paths *)

\* The opposite of the opposite of a direction.
LEMMA Opposite ==
    ASSUME NEW d, d = -1
    PROVE  -d = 1
<1>1. \A a, b \in Int : b = -a => -b = a
    OBVIOUS
<1>2. 1 \in Int /\ -1 \in Int
    OBVIOUS
<1>. QED
    BY <1>1, <1>2

\* The paths whose edits lead to where they are from the start, or to the end.
Sound(f, nx, ny, d) ==
    {p \in EditPaths : IF d = 1 THEN Leads(f, p.es, 0, 0, p.x, p.y)
                       ELSE Leads(f, p.es, p.x, p.y, nx, ny)}

\* A move keeps a path sound, if it calls identical only what is equal.
LEMMA MoveSound ==
    ASSUME NEW f, NEW nx \in Int, NEW ny \in Int, NEW d \in Directions,
           NEW p \in Sound(f, nx, ny, d), NEW edit \in Edits,
           edit = "identity" => Equal(At(f, p, d))
    PROVE  Move(p, edit, d) \in Sound(f, nx, ny, d)
<1>. DEFINE m == Move(p, edit, d)
<1>1. p.x \in Int /\ p.y \in Int /\ p.es \in Seq(Edits)
    BY DEF Sound, EditPaths
<1>2. /\ m.x = IF edit = "uniqueY" THEN p.x ELSE p.x + d
      /\ m.y = IF edit = "uniqueX" THEN p.y ELSE p.y + d
    BY DEF Move
<1>3. CASE d = 1
  <2>1. m.es = p.es \o <<edit>>
    <3>1. m.es = Append(p.es, edit)
        BY <1>3 DEF Move
    <3>. HIDE DEF m
    <3>2. Append(p.es, edit) = p.es \o <<edit>>
        BY <1>1
    <3>. QED
        BY <3>1, <3>2
  <2>2. m \in EditPaths
    <3>1. Append(p.es, edit) \in Seq(Edits)
        BY <1>1
    <3>. QED
        BY <1>1, <1>3, <3>1 DEF Move, EditPaths
  <2>. HIDE DEF m
  <2>3. Leads(f, p.es, 0, 0, p.x, p.y)
      BY <1>3 DEF Sound
  <2>4. edit = "identity" => Equal(f[<<p.x + 1, p.y + 1>>])
      BY <1>3 DEF At
  <2>5. Leads(f, <<edit>>, p.x, p.y, m.x, m.y)
    <3>1. Leads(f, <<edit>>, p.x, p.y, IF edit = "uniqueY" THEN p.x ELSE p.x + 1,
                                       IF edit = "uniqueX" THEN p.y ELSE p.y + 1)
        BY <1>1, <2>4, LeadsOne
    <3>. QED
        BY <1>2, <1>3, <3>1
  <2>6. Leads(f, m.es, 0, 0, m.x, m.y)
    <3>1. Leads(f, p.es \o <<edit>>, 0, 0, m.x, m.y)
        BY <2>3, <2>5, LeadsConcat
    <3>. QED
        BY <2>1, <3>1
  <2>7. m \in Sound(f, nx, ny, d)
      BY <1>3, <2>2, <2>6 DEF Sound
  <2>. QED
      BY <2>7 DEF m
<1>4. CASE d = -1
  <2>1. m.es = <<edit>> \o p.es
      BY <1>4 DEF Move
  <2>2. m \in EditPaths
    <3>1. <<edit>> \o p.es \in Seq(Edits)
        BY <1>1
    <3>. QED
        BY <1>1, <1>4, <3>1 DEF Move, EditPaths
  <2>. HIDE DEF m
  <2>3. Leads(f, p.es, p.x, p.y, nx, ny)
      BY <1>4 DEF Sound
  <2>4. m.x \in Int /\ m.y \in Int
      BY <2>2 DEF EditPaths
  <2>5. edit = "identity" => Equal(f[<<m.x + 1, m.y + 1>>])
    <3>1. edit = "identity" => Equal(f[<<p.x, p.y>>])
        BY <1>4 DEF At
    <3>2. edit = "identity" => m.x + 1 = p.x /\ m.y + 1 = p.y
        BY <1>1, <1>2, <1>4
    <3>. QED
        BY <3>1, <3>2
  <2>6. Leads(f, <<edit>>, m.x, m.y, p.x, p.y)
    <3>1. Leads(f, <<edit>>, m.x, m.y, IF edit = "uniqueY" THEN m.x ELSE m.x + 1,
                                       IF edit = "uniqueX" THEN m.y ELSE m.y + 1)
        BY <2>4, <2>5, LeadsOne
    <3>2. /\ (IF edit = "uniqueY" THEN m.x ELSE m.x + 1) = p.x
          /\ (IF edit = "uniqueX" THEN m.y ELSE m.y + 1) = p.y
        BY <1>1, <1>2, <1>4
    <3>. QED
        BY <3>1, <3>2
  <2>7. Leads(f, m.es, m.x, m.y, nx, ny)
    <3>1. Leads(f, <<edit>> \o p.es, m.x, m.y, nx, ny)
        BY <2>3, <2>4, <2>6, LeadsConcat
    <3>. QED
        BY <2>1, <3>1
  <2>8. m \in Sound(f, nx, ny, d)
      BY <1>4, <2>2, <2>7 DEF Sound
  <2>. QED
      BY <2>8 DEF m
<1>. QED
    BY <1>3, <1>4 DEF Directions

\* In its direction, p is not past q.
Behind(p, q, d) ==
    IF d = 1 THEN p.x <= q.x /\ p.y <= q.y ELSE q.x <= p.x /\ q.y <= p.y

\* The edit that connect chooses stays within what is left.
LEMMA EditFacts ==
    ASSUME NEW f, NEW p, NEW d, NEW dx, NEW dy
    PROVE  LET edit == Edit(f, p, d, dx, dy)
           IN /\ edit \in Edits
              /\ edit = "identity" => Equal(At(f, p, d))
              /\ dx = 0 => edit = "uniqueY"
              /\ dx # 0 /\ dy = 0 => edit = "uniqueX"
<1>. DEFINE edit == Edit(f, p, d, dx, dy)
<1>1. CASE dx = 0
    BY <1>1 DEF Edit, Edits
<1>2. CASE dx # 0 /\ dy = 0
    BY <1>2 DEF Edit, Edits
<1>3. CASE dx # 0 /\ dy # 0 /\ Equal(At(f, p, d))
    BY <1>3 DEF Edit, Edits
<1>4. CASE dx # 0 /\ dy # 0 /\ ~Equal(At(f, p, d))
  <2>1. edit \in Edits /\ edit # "identity"
      BY <1>4 DEF Edit, Edits
  <2>. QED
      BY <1>4, <2>1
<1>. QED
    BY <1>1, <1>2, <1>3, <1>4

\* A move does not overtake what it goes to, and gets closer to it.
LEMMA MoveCloser ==
    ASSUME NEW d \in Directions, NEW p \in EditPaths, NEW dst, dst.x \in Int, dst.y \in Int,
           NEW edit \in Edits, Behind(p, dst, d),
           dst.x = p.x => edit = "uniqueY", dst.y = p.y => edit = "uniqueX",
           dst.x # p.x \/ dst.y # p.y
    PROVE  LET m == Move(p, edit, d)
           IN /\ Behind(m, dst, d)
              /\ Abs(dst.x - m.x) + Abs(dst.y - m.y) < Abs(dst.x - p.x) + Abs(dst.y - p.y)
<1>. DEFINE m == Move(p, edit, d)
<1>1. /\ m.x = IF edit = "uniqueY" THEN p.x ELSE p.x + d
      /\ m.y = IF edit = "uniqueX" THEN p.y ELSE p.y + d
    BY DEF Move
<1>2. p.x \in Int /\ p.y \in Int
    BY DEF EditPaths
<1>3. edit # "uniqueY" \/ edit # "uniqueX"
    OBVIOUS
<1>. HIDE DEF m
<1>4. /\ Behind(m, dst, d)
      /\ Abs(dst.x - m.x) + Abs(dst.y - m.y) < Abs(dst.x - p.x) + Abs(dst.y - p.y)
  <2>1. CASE d = 1
      BY <1>1, <1>2, <1>3, <2>1 DEF Behind, Abs
  <2>2. CASE d = -1
      BY <1>1, <1>2, <1>3, <2>2 DEF Behind, Abs
  <2>. QED
      BY <2>1, <2>2 DEF Directions
<1>. QED
    BY <1>4 DEF m

\* A path connected to a point reaches it.
LEMMA ConnectSound ==
    ASSUME NEW f, NEW nx \in Int, NEW ny \in Int, NEW d \in Directions,
           NEW p \in Sound(f, nx, ny, d), NEW dst, dst.x \in Int, dst.y \in Int,
           Behind(p, dst, d)
    PROVE  LET c == Connect(f, p, d, dst)
           IN c \in Sound(f, nx, ny, d) /\ c.x = dst.x /\ c.y = dst.y
<1>. DEFINE Far(q) == Abs(dst.x - q.x) + Abs(dst.y - q.y)
            n == Far(p)
            turn == [q \in EditPaths |-> Toward(f, q, d, dst)]
            Near(k) == {q \in Sound(f, nx, ny, d) : Behind(q, dst, d) /\ Far(q) <= n - k}
            J == [k \in 0 .. n |-> Near(k)]
<1>1. ASSUME NEW q \in Sound(f, nx, ny, d)
      PROVE  q \in EditPaths /\ q.x \in Int /\ q.y \in Int /\ Far(q) \in Nat
    BY SMTT(20) DEF Sound, EditPaths, Abs
<1>2. n \in Nat
    BY <1>1
<1>3. p \in Near(0)
    BY <1>1
<1>4. ASSUME NEW k \in 1 .. n, NEW q \in Near(k - 1) PROVE turn[q] \in Near(k)
  <2>1. q \in Sound(f, nx, ny, d) /\ Behind(q, dst, d) /\ Far(q) <= n - (k - 1)
      BY <1>4
  <2>2. q \in EditPaths /\ q.x \in Int /\ q.y \in Int
      BY <1>1, <2>1
  <2>3. turn[q] = Toward(f, q, d, dst)
      BY <2>2
  <2>4. CASE dst.x = q.x /\ dst.y = q.y
    <3>1. Toward(f, q, d, dst) = q /\ Far(q) = 0
        BY <2>2, <2>4 DEF Toward, Abs
    <3>2. 0 <= n - k
        BY <1>2
    <3>. QED
        BY <2>1, <2>3, <3>1, <3>2
  <2>5. CASE dst.x # q.x \/ dst.y # q.y
    <3>. DEFINE dx == Abs(dst.x - q.x)
                dy == Abs(dst.y - q.y)
                edit == Edit(f, q, d, dx, dy)
                m == Move(q, edit, d)
    <3>1. (dx = 0 <=> dst.x = q.x) /\ (dy = 0 <=> dst.y = q.y)
        BY <2>2 DEF Abs
    <3>2. Toward(f, q, d, dst) = m
        BY <2>5, <3>1 DEF Toward
    <3>3. /\ edit \in Edits /\ (edit = "identity" => Equal(At(f, q, d)))
          /\ (dst.x = q.x => edit = "uniqueY") /\ (dst.y = q.y => edit = "uniqueX")
      <4>. HIDE DEF dx, dy
      <4>. QED
          BY <2>5, <3>1, EditFacts
    <3>. HIDE DEF edit
    <3>4. m \in Sound(f, nx, ny, d)
        BY <2>1, <3>3, MoveSound
    <3>5. Behind(m, dst, d) /\ Far(m) < Far(q)
        BY <2>1, <2>2, <2>5, <3>3, MoveCloser
    <3>6. Far(m) <= n - k
      <4>1. Far(m) \in Nat /\ Far(q) \in Nat
          BY <1>1, <2>1, <3>4
      <4>. HIDE DEF Far, n, m
      <4>. QED
          BY <1>2, <2>1, <3>5, <4>1
    <3>. QED
        BY <2>3, <3>2, <3>4, <3>5, <3>6
  <2>. QED
      BY <2>4, <2>5
<1>5. Loop(turn, p, n) \in J[n]
  <2>1. \A k \in 0 .. n : J[k] = Near(k)
      OBVIOUS
  <2>2. \A k \in 1 .. n : k \in 0 .. n /\ k - 1 \in 0 .. n
      BY <1>2
  <2>3. p \in J[0] /\ \A k \in 1 .. n : \A q \in J[k - 1] : turn[q] \in J[k]
    <3>. HIDE DEF J, n, turn, Near
    <3>. QED
        BY <1>2, <1>3, <1>4, <2>1, <2>2
  <2>. HIDE DEF J, n, turn
  <2>. QED
      BY <1>2, <2>3, LoopCounts
<1>6. Connect(f, p, d, dst) = Loop(turn, p, n)
    BY DEF Connect
<1>7. Connect(f, p, d, dst) \in Near(n)
    BY <1>2, <1>5, <1>6
<1>. DEFINE c == Connect(f, p, d, dst)
<1>8. c \in Sound(f, nx, ny, d) /\ Far(c) <= 0
  <2>. HIDE DEF c
  <2>1. c \in Near(n)
      BY <1>7 DEF c
  <2>. QED
      BY <1>2, <2>1
<1>9. c.x \in Int /\ c.y \in Int
    BY <1>1, <1>8
<1>10. c.x = dst.x /\ c.y = dst.y
  <2>. HIDE DEF c
  <2>. QED
      BY <1>8, <1>9 DEF Abs
<1>. QED
    BY <1>8, <1>10

\* To follow equal elements keeps a path sound, and before the other path.
LEMMA FollowSound ==
    ASSUME NEW f, NEW nx \in Int, NEW ny \in Int, NEW d \in Directions,
           NEW p \in Sound(f, nx, ny, d), NEW other, other.x \in Int, other.y \in Int,
           Behind(p, other, d)
    PROVE  LET q == Follow(f, p, d, other)
           IN q \in Sound(f, nx, ny, d) /\ Behind(q, other, d)
<1>. DEFINE turn == [q \in EditPaths |-> Match(f, q, d, other)]
            I == {q \in Sound(f, nx, ny, d) : Behind(q, other, d)}
            n == Abs(other.x - p.x)
<1>1. ASSUME NEW q \in I PROVE turn[q] \in I
  <2>1. /\ q \in Sound(f, nx, ny, d) /\ Behind(q, other, d) /\ q \in EditPaths
        /\ q.x \in Int /\ q.y \in Int
      BY <1>1 DEF Sound, EditPaths
  <2>2. turn[q] = Match(f, q, d, other)
      BY <2>1
  <2>. DEFINE further == d * (other.x - q.x) > 0 /\ d * (other.y - q.y) > 0 /\ Equal(At(f, q, d))
  <2>3. CASE further
    <3>1. Match(f, q, d, other) = Move(q, "identity", d)
        BY <2>3 DEF Match
    <3>2. Move(q, "identity", d) \in Sound(f, nx, ny, d)
        BY <2>1, <2>3, MoveSound DEF Edits
    <3>3. Behind(Move(q, "identity", d), other, d)
      <4>1. CASE d = 1
          BY <2>1, <2>3, <4>1 DEF Behind, Move
      <4>2. CASE d = -1
          BY <2>1, <2>3, <4>2 DEF Behind, Move
      <4>. QED
          BY <4>1, <4>2 DEF Directions
    <3>. QED
        BY <2>2, <3>1, <3>2, <3>3
  <2>4. CASE ~further
    <3>1. Match(f, q, d, other) = q
        BY <2>4 DEF Match
    <3>. QED
        BY <2>1, <2>2, <3>1
  <2>. QED
      BY <2>3, <2>4
<1>2. n \in Nat
    BY DEF Sound, EditPaths, Abs
<1>3. Loop(turn, p, n) \in I
  <2>1. p \in I
      OBVIOUS
  <2>. HIDE DEF turn, I, n
  <2>. QED
      BY <1>1, <1>2, <2>1, LoopKeeps
<1>4. Follow(f, p, d, other) = Loop(turn, p, n)
    BY DEF Follow
<1>. QED
    BY <1>3, <1>4

-----------------------------------------------------------------------------
(* Searches *)

\* Between two turns of the search: both paths are sound, and each frontier is before
\* its path.
Searching(f, nx, ny) ==
    {s \in SearchStates :
        /\ s.path[1] \in Sound(f, nx, ny, 1) /\ s.path[-1] \in Sound(f, nx, ny, -1)
        /\ Behind(s.path[1], s.path[-1], 1)
        /\ Behind(s.path[1], s.front[1], 1) /\ Behind(s.path[-1], s.front[-1], -1)}

\* The frontiers have not met.
Apart(s) == s.front[1].x < s.front[-1].x /\ s.front[1].y < s.front[-1].y

\* The cells of a search alternate between both sides of the frontier.
LEMMA ZigzagFacts ==
    /\ \A n \in Nat : Zigzag(n) \in Int
    /\ \A k \in Nat : Zigzag(2 * k) = k /\ Zigzag(2 * k + 1) = -(k + 1)
<1>1. ASSUME NEW n \in Nat PROVE Zigzag(n) \in Int
    BY DEF Zigzag
<1>2. ASSUME NEW k \in Nat PROVE Zigzag(2 * k) = k /\ Zigzag(2 * k + 1) = -(k + 1)
  <2>1. (2 * k) % 2 = 0 /\ (2 * k) \div 2 = k
      OBVIOUS
  <2>2. (2 * k + 1) % 2 = 1 /\ (2 * k + 1 + 1) \div 2 = k + 1
      OBVIOUS
  <2>. QED
      BY <2>1, <2>2 DEF Zigzag
<1>. QED
    BY <1>1, <1>2

\* What the parts of a search are.
LEMMA SearchingTypes ==
    ASSUME NEW f, NEW nx \in Int, NEW ny \in Int, NEW s \in Searching(f, nx, ny)
    PROVE  /\ s.d \in Directions /\ -s.d \in Directions /\ s.d \in {1, -1} /\ -1 \in Int
           /\ s.path \in [Directions -> EditPaths] /\ s.front \in [Directions -> Points]
           /\ s.budget \in Int /\ s \in SearchStates
           /\ \A d \in Directions :
                 /\ s.path[d] \in Sound(f, nx, ny, d) /\ s.path[d].x \in Int /\ s.path[d].y \in Int
                 /\ s.front[d] \in Points /\ s.front[d].x \in Int /\ s.front[d].y \in Int
                 /\ Behind(s.path[d], s.path[-d], d) /\ Behind(s.path[d], s.front[d], d)
<1>1. s \in SearchStates
    BY DEF Searching
<1>2. /\ s.d \in Directions /\ s.path \in [Directions -> EditPaths]
      /\ s.front \in [Directions -> Points] /\ s.budget \in Int
    BY <1>1 DEF SearchStates
<1>3. -s.d \in Directions /\ s.d \in {1, -1}
    BY <1>2 DEF Directions
<1>4. ASSUME NEW d \in Directions
      PROVE  /\ s.path[d] \in EditPaths /\ s.path[d].x \in Int /\ s.path[d].y \in Int
             /\ s.front[d] \in Points /\ s.front[d].x \in Int /\ s.front[d].y \in Int
    BY <1>2 DEF EditPaths, Points
<1>5. ASSUME NEW d \in Directions
      PROVE  /\ s.path[d] \in Sound(f, nx, ny, d)
             /\ Behind(s.path[d], s.path[-d], d) /\ Behind(s.path[d], s.front[d], d)
  <2>1. CASE d = 1
      BY <2>1 DEF Searching
  <2>2. CASE d = -1
    <3>1. -d = 1
        BY <2>2, Opposite
    <3>2. s.path[-1] \in Sound(f, nx, ny, -1) /\ Behind(s.path[-1], s.front[-1], -1)
        BY DEF Searching
    <3>3. Behind(s.path[-1], s.path[1], -1)
        BY DEF Searching, Behind
    <3>. QED
        BY <2>2, <3>1, <3>2, <3>3
  <2>. QED
      BY <2>1, <2>2 DEF Directions
<1>. QED
    BY <1>1, <1>2, <1>3, <1>4, <1>5

\* A search along a diagonal ends.
LEMMA EndExists ==
    ASSUME NEW f, NEW nx \in Int, NEW ny \in Int, NEW s \in Searching(f, nx, ny), Apart(s)
    PROVE  EndOf(f, s) \in Nat
<1>. DEFINE d == s.d
            span == Abs(s.path[1].x - s.path[-1].x) + Abs(s.path[1].y - s.path[-1].y)
            top == 2 * span + 3
            ends(n) == IsOver(s, n) \/ IsMatch(f, s, Cell(s, n))
            one == Cell(s, 2 * span + 1)
            two == Cell(s, 2 * span + 2)
<1>1. /\ 1 \in Directions /\ -1 \in Directions /\ d \in Directions /\ -d \in Directions
      /\ d \in {1, -1}
    BY SearchingTypes DEF Directions
<1>2. \A e \in Directions : /\ s.path[e].x \in Int /\ s.path[e].y \in Int
                            /\ s.front[e].x \in Int /\ s.front[e].y \in Int
                            /\ Behind(s.path[e], s.path[-e], e) /\ Behind(s.path[e], s.front[e], e)
    BY SearchingTypes
<1>3. span \in Nat
    BY <1>1, <1>2 DEF Abs
<1>4. Zigzag(2 * span + 1) = -(span + 1) /\ Zigzag(2 * span + 2) = span + 1
  <2>. HIDE DEF span
  <2>1. 2 * span + 2 = 2 * (span + 1) /\ span + 1 \in Nat
      BY <1>3
  <2>. QED
      BY <1>3, <2>1, ZigzagFacts
<1>5. /\ one.x = s.front[d].x - d * (span + 1) /\ one.y = s.front[d].y + d * (span + 1)
      /\ two.x = s.front[d].x + d * (span + 1) /\ two.y = s.front[d].y - d * (span + 1)
  <2>. HIDE DEF span
  <2>1. CASE d = 1
      BY <1>1, <1>2, <1>3, <1>4, <2>1 DEF Cell
  <2>2. CASE d = -1
      BY <1>1, <1>2, <1>3, <1>4, <2>2 DEF Cell
  <2>. QED
      BY <1>1, <2>1, <2>2
<1>6. /\ s.path[1].x <= s.front[1].x /\ s.front[1].x < s.front[-1].x
      /\ s.front[-1].x <= s.path[-1].x
      /\ s.path[1].y <= s.front[1].y /\ s.front[1].y < s.front[-1].y
      /\ s.front[-1].y <= s.path[-1].y
    BY <1>1, <1>2 DEF Behind, Apart
<1>7. span = s.path[-1].x - s.path[1].x + s.path[-1].y - s.path[1].y
    BY <1>1, <1>2, <1>6 DEF Abs
<1>. HIDE DEF span, one, two
<1>8. PastX(s, two) /\ ~PastX(s, one) /\ PastY(s, one)
  <2>1. CASE d = 1
      BY <1>1, <1>2, <1>5, <1>6, <1>7, <2>1 DEF PastX, PastY
  <2>2. CASE d = -1
      BY <1>1, <1>2, <1>5, <1>6, <1>7, <2>2 DEF PastX, PastY
  <2>. QED
      BY <1>1, <2>1, <2>2
<1>9. ends(top)
  <2>1. 2 * span + 1 \in 0 .. top - 1 /\ 2 * span + 2 \in 0 .. top - 1
      BY <1>3
  <2>2. IsOver(s, top)
      BY <1>8, <2>1 DEF IsOver, one, two
  <2>. QED
      BY <2>2
<1>10. \E n \in 0 .. top : ends(n) /\ \A m \in 0 .. n - 1 : ~ends(m)
  <2>. DEFINE T == {n \in 0 .. top : ends(n)}
  <2>1. T \in SUBSET Nat /\ top \in T
      BY <1>3, <1>9
  <2>2. PICK n \in T : \A m \in T : n <= m
    <3>. HIDE DEF T
    <3>. QED
        BY <2>1, LeastNumber
  <2>3. \A m \in 0 .. n - 1 : m \in 0 .. top /\ ~(n <= m)
      BY <1>3, <2>1
  <2>. HIDE DEF top
  <2>. QED
      BY <2>2, <2>3
<1>11. EndOf(f, s) \in 0 .. top
    BY <1>10, Zenon DEF EndOf, span
<1>. QED
    BY <1>3, <1>11

\* A search and the turn of a frontier keep both paths sound.
LEMMA FindMatchSound ==
    ASSUME NEW f, NEW nx \in Int, NEW ny \in Int, NEW s \in Searching(f, nx, ny), Apart(s)
    PROVE  FindMatch(f, s) \in Searching(f, nx, ny)
<1>. DEFINE d == s.d
            n == EndOf(f, s)
            p == Cell(s, n)
            path == s.path[d]
            other == s.path[-d]
            left == s.budget - Tried(s, n)
            connected == Connect(f, path, d, p)
            found == Follow(f, Move(connected, "identity", d), d, other)
            new == [s EXCEPT !.path = [@ EXCEPT ![d] = found],
                             !.front = [@ EXCEPT ![d] = [x |-> found.x, y |-> found.y]],
                             !.budget = left]
            same == [s EXCEPT !.budget = left]
            matched == IsMatch(f, s, p) /\ ~IsOver(s, n)
<1>1. /\ d \in Directions /\ -d \in Directions /\ d \in {1, -1} /\ s \in SearchStates
      /\ s.path \in [Directions -> EditPaths] /\ s.front \in [Directions -> Points]
      /\ s.budget \in Int
    BY SearchingTypes
<1>2. \A e \in Directions :
          /\ s.path[e] \in Sound(f, nx, ny, e) /\ s.path[e].x \in Int /\ s.path[e].y \in Int
          /\ s.front[e] \in Points /\ s.front[e].x \in Int /\ s.front[e].y \in Int
          /\ Behind(s.path[e], s.path[-e], e) /\ Behind(s.path[e], s.front[e], e)
    BY SearchingTypes
<1>3. n \in Nat
    BY EndExists
<1>4. p.x \in Int /\ p.y \in Int
  <2>1. Zigzag(n) \in Int
      BY <1>3, ZigzagFacts
  <2>. HIDE DEF n
  <2>2. CASE d = 1
      BY <1>1, <1>2, <2>1, <2>2 DEF Cell
  <2>3. CASE d = -1
      BY <1>1, <1>2, <2>1, <2>3 DEF Cell
  <2>. QED
      BY <1>1, <2>2, <2>3
<1>5. Tried(s, n) \in Nat
  <2>1. IsFiniteSet(0 .. n - 1)
      BY <1>3, FS_Interval
  <2>. DEFINE U == {m \in 0 .. n - 1 : Open(s, Cell(s, m))}
  <2>2. U \in SUBSET (0 .. n - 1)
      OBVIOUS
  <2>. HIDE DEF U, n
  <2>3. IsFiniteSet(U) /\ Cardinality(U) \in Nat
      BY <2>1, <2>2, FS_Subset, FS_CardinalityType
  <2>. QED
      BY <2>3 DEF Tried, U
<1>6. FindMatch(f, s) = IF matched THEN new ELSE same
    BY DEF FindMatch
<1>7. left \in Int
    BY <1>1, <1>5
<1>. HIDE DEF n, p, left
<1>8. same \in Searching(f, nx, ny)
  <2>1. same \in SearchStates /\ same.path = s.path /\ same.front = s.front
      BY <1>1, <1>7 DEF SearchStates
  <2>. HIDE DEF same
  <2>. QED
      BY <2>1 DEF Searching
<1>9. ASSUME matched PROVE new \in Searching(f, nx, ny)
  <2>1. Open(s, p) /\ Equal(At(f, p, d))
      BY <1>9 DEF IsMatch
  <2>2. /\ Behind(path, p, d)
        /\ IF d = 1 THEN p.x < other.x /\ p.y < other.y ELSE other.x < p.x /\ other.y < p.y
    <3>1. path.x \in Int /\ path.y \in Int /\ other.x \in Int /\ other.y \in Int
        BY <1>1, <1>2
    <3>2. CASE d = 1
        BY <1>4, <2>1, <3>1, <3>2 DEF Open, PastX, PastY, Behind
    <3>3. CASE d = -1
        BY <1>4, <2>1, <3>1, <3>3 DEF Open, PastX, PastY, Behind
    <3>. QED
        BY <1>1, <3>2, <3>3
  <2>3. /\ connected \in Sound(f, nx, ny, d)
        /\ connected.x = p.x /\ connected.y = p.y
    <3>1. path \in Sound(f, nx, ny, d)
        BY <1>1, <1>2
    <3>. HIDE DEF path, other
    <3>. QED
        BY <1>1, <1>4, <2>2, <3>1, ConnectSound
  <2>. HIDE DEF connected
  <2>. DEFINE moved == Move(connected, "identity", d)
  <2>4. moved \in Sound(f, nx, ny, d)
    <3>1. At(f, connected, d) = At(f, p, d)
        BY <2>3 DEF At
    <3>. HIDE DEF path, other
    <3>. QED
        BY <1>1, <2>1, <2>3, <3>1, MoveSound DEF Edits
  <2>5. Behind(moved, other, d)
    <3>1. moved.x = p.x + d /\ moved.y = p.y + d
        BY <2>3 DEF Move
    <3>2. other.x \in Int /\ other.y \in Int
        BY <1>1, <1>2
    <3>. HIDE DEF moved, path, other
    <3>3. CASE d = 1
        BY <1>4, <2>2, <3>1, <3>2, <3>3 DEF Behind
    <3>4. CASE d = -1
        BY <1>4, <2>2, <3>1, <3>2, <3>4 DEF Behind
    <3>. QED
        BY <1>1, <3>3, <3>4
  <2>6. found \in Sound(f, nx, ny, d) /\ Behind(found, other, d)
    <3>1. other.x \in Int /\ other.y \in Int
        BY <1>1, <1>2
    <3>. HIDE DEF path, other, moved
    <3>2. LET q == Follow(f, moved, d, other)
          IN q \in Sound(f, nx, ny, d) /\ Behind(q, other, d)
        BY <1>1, <2>4, <2>5, <3>1, FollowSound
    <3>. QED
        BY <3>2 DEF moved
  <2>. HIDE DEF found
  <2>7. found \in EditPaths /\ found.x \in Int /\ found.y \in Int
      BY <2>6 DEF Sound, EditPaths
  <2>8. /\ new \in SearchStates /\ new.path = [s.path EXCEPT ![d] = found]
        /\ new.front = [s.front EXCEPT ![d] = [x |-> found.x, y |-> found.y]]
    <3>1. [x |-> found.x, y |-> found.y] \in Points
        BY <2>7 DEF Points
    <3>2. /\ [s.path EXCEPT ![d] = found] \in [Directions -> EditPaths]
          /\ [s.front EXCEPT ![d] = [x |-> found.x, y |-> found.y]] \in [Directions -> Points]
        BY <1>1, <2>7, <3>1
    <3>. QED
        BY <1>1, <1>7, <3>2 DEF SearchStates
  <2>. HIDE DEF new
  <2>9. Behind(found, [x |-> found.x, y |-> found.y], d)
      BY <2>7 DEF Behind
  <2>10. CASE d = 1
    <3>1. /\ new.path[1] = found /\ new.path[-1] = s.path[-1]
          /\ new.front[1] = [x |-> found.x, y |-> found.y] /\ new.front[-1] = s.front[-1]
        BY <1>1, <2>8, <2>10 DEF Directions
    <3>2. /\ s.path[-1] \in Sound(f, nx, ny, -1) /\ Behind(s.path[-1], s.front[-1], -1)
        BY DEF Searching
    <3>. QED
        BY <2>6, <2>8, <2>9, <2>10, <3>1, <3>2 DEF Searching
  <2>11. CASE d = -1
    <3>1. /\ new.path[-1] = found /\ new.path[1] = s.path[1]
          /\ new.front[-1] = [x |-> found.x, y |-> found.y] /\ new.front[1] = s.front[1]
        BY <1>1, <2>8, <2>11 DEF Directions
    <3>2. /\ s.path[1] \in Sound(f, nx, ny, 1) /\ Behind(s.path[1], s.front[1], 1)
        BY DEF Searching
    <3>3. Behind(s.path[1], found, 1)
      <4>1. other = s.path[1]
          BY <2>11, Opposite
      <4>. QED
          BY <2>6, <2>11, <4>1 DEF Behind
    <3>. QED
        BY <2>6, <2>8, <2>9, <2>11, <3>1, <3>2, <3>3 DEF Searching
  <2>. QED
      BY <1>1, <2>10, <2>11
<1>. QED
    BY <1>6, <1>8, <1>9

\* The frontiers may go anywhere: advancing them keeps the paths as they are.
LEMMA AdvanceSound ==
    ASSUME NEW f, NEW nx \in Int, NEW ny \in Int, NEW s \in Searching(f, nx, ny)
    PROVE  Advance(s) \in Searching(f, nx, ny)
<1>. DEFINE d == s.d
            front == s.front[d]
            other == s.path[-d]
            further == IF d * (other.x - front.x) >= d * (other.y - front.y)
                       THEN [front EXCEPT !.x = @ + d]
                       ELSE [front EXCEPT !.y = @ + d]
            new == [s EXCEPT !.front = [@ EXCEPT ![d] = further], !.d = -@]
<1>1. /\ d \in Directions /\ -d \in Directions /\ d \in {1, -1} /\ s \in SearchStates
      /\ s.path \in [Directions -> EditPaths] /\ s.front \in [Directions -> Points]
      /\ s.budget \in Int
    BY SearchingTypes
<1>2. /\ front \in Points /\ front.x \in Int /\ front.y \in Int
      /\ s.path[d].x \in Int /\ s.path[d].y \in Int /\ Behind(s.path[d], front, d)
    BY <1>1, SearchingTypes
<1>3. further \in Points /\ Behind(s.path[d], further, d)
  <2>. HIDE DEF front, other
  <2>1. CASE d = 1
      BY <1>2, <2>1 DEF Points, Behind
  <2>2. CASE d = -1
      BY <1>2, <2>2 DEF Points, Behind
  <2>. QED
      BY <1>1, <2>1, <2>2
<1>4. Advance(s) = new
    BY DEF Advance
<1>. HIDE DEF further
<1>5. /\ new \in SearchStates /\ new.path = s.path
      /\ new.front = [s.front EXCEPT ![d] = further]
    BY <1>1, <1>3 DEF SearchStates
<1>. HIDE DEF new
<1>6. CASE d = 1
  <2>1. new.front[1] = further /\ new.front[-1] = s.front[-1]
      BY <1>1, <1>5, <1>6 DEF Directions
  <2>2. Behind(s.path[1], further, 1)
      BY <1>3, <1>6
  <2>. QED
      BY <1>4, <1>5, <2>1, <2>2 DEF Searching
<1>7. CASE d = -1
  <2>1. new.front[-1] = further /\ new.front[1] = s.front[1]
      BY <1>1, <1>5, <1>7 DEF Directions
  <2>2. Behind(s.path[-1], further, -1)
      BY <1>3, <1>7
  <2>. QED
      BY <1>4, <1>5, <2>1, <2>2 DEF Searching
<1>. QED
    BY <1>1, <1>6, <1>7

\* The edit script covers both lists, and calls no two elements identical unless they
\* are equal.
LEMMA DifferenceLeads ==
    ASSUME NEW f, NEW nx \in Nat, NEW ny \in Nat
    PROVE  Leads(f, Difference(nx, ny, f), 0, 0, nx, ny)
<1>. DEFINE start == [x |-> 0, y |-> 0]
            end == [x |-> nx, y |-> ny]
            here(p) == [x |-> p.x, y |-> p.y, es |-> << >>]
            first == [path |-> [d \in Directions |-> IF d = 1 THEN here(start) ELSE here(end)],
                      front |-> [d \in Directions |-> IF d = 1 THEN start ELSE end],
                      budget |-> 4 * (nx + ny), d |-> 1]
            turn == [t \in SearchStates |-> Turn(f, t)]
            s == Loop(turn, first, nx + ny)
            joined == Connect(f, s.path[1], 1, s.path[-1])
<1>1. Difference(nx, ny, f) = joined.es \o s.path[-1].es
    BY DEF Difference
<1>2. /\ first \in SearchStates
      /\ first.path[1] = [x |-> 0, y |-> 0, es |-> << >>] /\ first.front[1] = [x |-> 0, y |-> 0]
      /\ first.path[-1] = [x |-> nx, y |-> ny, es |-> << >>]
      /\ first.front[-1] = [x |-> nx, y |-> ny]
  <2>1. start \in Points /\ end \in Points /\ here(start) \in EditPaths /\ here(end) \in EditPaths
      BY DEF Points, EditPaths
  <2>2. /\ first.path \in [Directions -> EditPaths] /\ first.front \in [Directions -> Points]
        /\ first.budget \in Int /\ first.d \in Directions
      BY <2>1 DEF Directions
  <2>3. first \in SearchStates
      BY <2>2 DEF SearchStates
  <2>. QED
      BY <2>3 DEF Directions
<1>3. first \in Searching(f, nx, ny)
  <2>. HIDE DEF first
  <2>1. Leads(f, << >>, 0, 0, 0, 0) /\ Leads(f, << >>, nx, ny, nx, ny)
      BY LeadsNowhere
  <2>2. first.path[1] \in Sound(f, nx, ny, 1)
      BY <1>2, <2>1 DEF Sound, EditPaths
  <2>3. first.path[-1] \in Sound(f, nx, ny, -1)
      BY <1>2, <2>1 DEF Sound, EditPaths
  <2>4. /\ Behind(first.path[1], first.path[-1], 1)
        /\ Behind(first.path[1], first.front[1], 1) /\ Behind(first.path[-1], first.front[-1], -1)
      BY <1>2 DEF Behind
  <2>. QED
      BY <1>2, <2>2, <2>3, <2>4 DEF Searching
<1>4. ASSUME NEW t \in Searching(f, nx, ny) PROVE turn[t] \in Searching(f, nx, ny)
  <2>1. t \in SearchStates
      BY DEF Searching
  <2>2. turn[t] = Turn(f, t)
      BY <2>1
  <2>3. CASE Apart(t) /\ t.budget # 0
    <3>1. Turn(f, t) = Advance(FindMatch(f, t))
      <4>1. \A e \in Directions : t.front[e].x \in Int /\ t.front[e].y \in Int
          BY SearchingTypes
      <4>2. /\ t.front[1].x \in Int /\ t.front[1].y \in Int
            /\ t.front[-1].x \in Int /\ t.front[-1].y \in Int
          BY <4>1 DEF Directions
      <4>. QED
          BY <2>3, <4>2 DEF Turn, Apart
    <3>. QED
        BY <2>2, <2>3, <3>1, FindMatchSound, AdvanceSound
  <2>4. CASE ~(Apart(t) /\ t.budget # 0)
    <3>1. Turn(f, t) = t
      <4>1. \A e \in Directions : t.front[e].x \in Int /\ t.front[e].y \in Int
          BY SearchingTypes
      <4>2. /\ t.front[1].x \in Int /\ t.front[1].y \in Int
            /\ t.front[-1].x \in Int /\ t.front[-1].y \in Int
          BY <4>1 DEF Directions
      <4>. QED
          BY <2>4, <4>2 DEF Turn, Apart
    <3>. QED
        BY <2>2, <3>1
  <2>. QED
      BY <2>3, <2>4
<1>5. s \in Searching(f, nx, ny)
  <2>1. nx + ny \in Nat
      OBVIOUS
  <2>. HIDE DEF turn, first
  <2>. QED
      BY <1>3, <1>4, <2>1, LoopKeeps
<1>. HIDE DEF s
<1>6. /\ s.path[1] \in Sound(f, nx, ny, 1) /\ s.path[-1] \in Sound(f, nx, ny, -1)
      /\ Behind(s.path[1], s.path[-1], 1)
    BY <1>5 DEF Searching
<1>7. s.path[-1].x \in Int /\ s.path[-1].y \in Int
    BY <1>6 DEF Sound, EditPaths
<1>8. joined \in Sound(f, nx, ny, 1) /\ joined.x = s.path[-1].x /\ joined.y = s.path[-1].y
    BY <1>6, <1>7, ConnectSound DEF Directions
<1>. HIDE DEF joined
<1>9. Leads(f, joined.es, 0, 0, s.path[-1].x, s.path[-1].y)
    BY <1>8 DEF Sound
<1>10. Leads(f, s.path[-1].es, s.path[-1].x, s.path[-1].y, nx, ny)
    BY <1>6 DEF Sound
<1>11. Leads(f, joined.es \o s.path[-1].es, 0, 0, nx, ny)
    BY <1>9, <1>10, LeadsConcat
<1>. QED
    BY <1>1, <1>11

\* What a value of each kind has in it.
LEMMA ValueKinds ==
    ASSUME NEW v \in JSON
    PROVE  /\ Depth[v] \in 0 .. MaxDepth
           /\ DOMAIN v = {"list"} =>
                  /\ v = [list |-> v.list] /\ v.list \in Seq(JSON)
                  /\ \A n \in DOMAIN v.list : v.list[n] \in JSON /\ Depth[v.list[n]] < Depth[v]
           /\ DOMAIN v = {"obj"} =>
                  /\ v = [obj |-> v.obj] /\ v.obj \in [DOMAIN v.obj -> JSON]
                  /\ IsFiniteSet(DOMAIN v.obj)
                  /\ \A k \in DOMAIN v.obj : v.obj[k] \in JSON /\ Depth[v.obj[k]] < Depth[v]
<1>1. Depth[v] \in 0 .. MaxDepth
    BY JSONAssumption
<1>2. ASSUME DOMAIN v = {"list"}
      PROVE  /\ v = [list |-> v.list] /\ v.list \in Seq(JSON)
             /\ \A n \in DOMAIN v.list : v.list[n] \in JSON /\ Depth[v.list[n]] < Depth[v]
  <2>1. /\ v \in [list : Seq(JSON)]
        /\ \A n \in DOMAIN v.list : Depth[v.list[n]] < Depth[v]
    <3>1. DOMAIN v # {"obj"} /\ DOMAIN v \notin {{"num"}, {"str"}, {"null"}}
        BY <1>2
    <3>. QED
        BY <3>1, JSONAssumption
  <2>2. v.list \in Seq(JSON) /\ v = [list |-> v.list]
      BY <2>1
  <2>. QED
      BY <2>1, <2>2
<1>3. ASSUME DOMAIN v = {"obj"}
      PROVE  /\ v = [obj |-> v.obj] /\ v.obj \in [DOMAIN v.obj -> JSON]
             /\ IsFiniteSet(DOMAIN v.obj)
             /\ \A k \in DOMAIN v.obj : v.obj[k] \in JSON /\ Depth[v.obj[k]] < Depth[v]
  <2>1. /\ v \in [obj : [DOMAIN v.obj -> JSON]] /\ IsFiniteSet(DOMAIN v.obj)
        /\ \A k \in DOMAIN v.obj : Depth[v.obj[k]] < Depth[v]
    <3>1. DOMAIN v # {"list"} /\ DOMAIN v \notin {{"num"}, {"str"}, {"null"}}
        BY <1>3
    <3>2. ~(v \in [list : Seq(JSON)])
        BY <3>1
    <3>. QED
        BY <3>1, <3>2, JSONAssumption
  <2>2. v.obj \in [DOMAIN v.obj -> JSON] /\ v = [obj |-> v.obj]
      BY <2>1
  <2>. QED
      BY <2>1, <2>2
<1>. QED
    BY <1>1, <1>2, <1>3

\* An edit that consumes elements consumes the next ones there are.
InPlace(f, es, nx, ny, n) ==
    LET a == Consumed(es, n, "uniqueY")
        b == Consumed(es, n, "uniqueX")
    IN /\ es[n] \in Edits /\ a \in Nat /\ b \in Nat
       /\ es[n] # "uniqueY" => a \in 1 .. nx /\ a = Consumed(es, n - 1, "uniqueY") + 1
       /\ es[n] # "uniqueX" => b \in 1 .. ny /\ b = Consumed(es, n - 1, "uniqueX") + 1
       /\ es[n] = "identity" => Equal(f[<<a, b>>])

\* All edits of a script that covers two lists do.
LEMMA PositionsInRange ==
    ASSUME NEW f, NEW es, NEW nx \in Nat, NEW ny \in Nat, Leads(f, es, 0, 0, nx, ny),
           NEW n \in 1 .. Len(es)
    PROVE  InPlace(f, es, nx, ny, n)
<1>. DEFINE a == Consumed(es, n, "uniqueY")
            b == Consumed(es, n, "uniqueX")
<1>1. /\ es \in Seq(Edits) /\ Len(es) \in Nat /\ es[n] \in Edits
      /\ n - 1 \in Nat /\ n - 1 + 1 = n /\ n \in Nat /\ n <= Len(es)
    BY DEF Leads
<1>2. \A other : \A k \in Nat :
          /\ Consumed(es, k, other) \in Nat
          /\ Consumed(es, k + 1, other) = Consumed(es, k, other) + IF es[k + 1] # other THEN 1 ELSE 0
    BY ConsumedSteps
<1>3. \A other : /\ Consumed(es, n, other) \in Nat /\ Consumed(es, n - 1, other) \in Nat
                 /\ Consumed(es, n, other) =
                        Consumed(es, n - 1, other) + IF es[n] # other THEN 1 ELSE 0
    BY <1>1, <1>2
<1>4. \A other : Consumed(es, n, other) <= Consumed(es, Len(es), other)
    BY <1>1, ConsumedGrows
<1>5. /\ nx = 0 + Consumed(es, Len(es), "uniqueY") /\ ny = 0 + Consumed(es, Len(es), "uniqueX")
      /\ es[n] = "identity" => Equal(f[<<0 + a, 0 + b>>])
    BY DEF Leads
<1>6. /\ nx = Consumed(es, Len(es), "uniqueY") /\ ny = Consumed(es, Len(es), "uniqueX")
    BY <1>1, <1>2, <1>5
<1>7. a \in Nat /\ b \in Nat /\ a <= nx /\ b <= ny
    BY <1>3, <1>4, <1>6
<1>8. es[n] # "uniqueY" => a \in 1 .. nx /\ a = Consumed(es, n - 1, "uniqueY") + 1
    BY <1>3, <1>7
<1>9. es[n] # "uniqueX" => b \in 1 .. ny /\ b = Consumed(es, n - 1, "uniqueX") + 1
    BY <1>3, <1>7
<1>10. es[n] = "identity" => Equal(f[<<a, b>>])
    BY <1>5, <1>7
<1>. QED
    BY <1>1, <1>7, <1>8, <1>9, <1>10, Zenon DEF InPlace

-----------------------------------------------------------------------------
(* The reports of a comparison *)

AnyReport == [eq : BOOLEAN, side : Sides, shifted : BOOLEAN]

\* The results of the pairs of elements of two lists.
Results(r, x, y) ==
    [c \in (DOMAIN x.list) \X (DOMAIN y.list) |-> Result(r[<<x.list[c[1]], y.list[c[2]]>>])]

\* The edit script of two lists covers both.
LEMMA ScriptLeads ==
    ASSUME NEW r, NEW x \in JSON, NEW y \in JSON, DOMAIN x = {"list"}, DOMAIN y = {"list"}
    PROVE  Leads(Results(r, x, y), Script(r, x, y), 0, 0, Len(x.list), Len(y.list))
<1>1. Len(x.list) \in Nat /\ Len(y.list) \in Nat
    BY ValueKinds
<1>2. Script(r, x, y) = Difference(Len(x.list), Len(y.list), Results(r, x, y))
    BY DEF Script, Results
<1>. QED
    BY <1>1, <1>2, DifferenceLeads

\* The reports of what is inside two values; of those of less depth, r has sequences of
\* reports.
LEMMA PartsTyped ==
    ASSUME NEW r, NEW x \in JSON, NEW y \in JSON,
           \A z \in JSON \X JSON : Depth[z[1]] < Depth[x] => r[z] \in Seq(AnyReport)
    PROVE  /\ DOMAIN x = {"obj"} /\ DOMAIN y = {"obj"} =>
                  \A k \in DOMAIN x.obj \cup DOMAIN y.obj : ofField(r, x, y, k) \in Seq(AnyReport)
           /\ DOMAIN x = {"list"} /\ DOMAIN y = {"list"} =>
                  LET es == Script(r, x, y)
                  IN \A n \in 1 .. Len(es) : replay(r, x, y, es, n) \in Seq(AnyReport)
<1>1. /\ <<Report(FALSE, "expected", FALSE)>> \in Seq(AnyReport)
      /\ <<Report(FALSE, "actual", FALSE)>> \in Seq(AnyReport)
      /\ \A shifted \in BOOLEAN : <<Report(TRUE, "both", shifted)>> \in Seq(AnyReport)
  <2>1. \A eq, shifted \in BOOLEAN : \A side \in Sides : Report(eq, side, shifted) \in AnyReport
      BY DEF Report, AnyReport
  <2>2. /\ Report(FALSE, "expected", FALSE) \in AnyReport
        /\ Report(FALSE, "actual", FALSE) \in AnyReport
        /\ \A shifted \in BOOLEAN : Report(TRUE, "both", shifted) \in AnyReport
      BY <2>1 DEF Sides
  <2>3. \A e \in AnyReport : <<e>> \in Seq(AnyReport)
      OBVIOUS
  <2>. QED
      BY <2>2, <2>3, Zenon
<1>2. ASSUME NEW a \in JSON, NEW b \in JSON, Depth[a] < Depth[x]
      PROVE  r[<<a, b>>] \in Seq(AnyReport)
  <2>1. <<a, b>> \in JSON \X JSON /\ <<a, b>>[1] = a
      OBVIOUS
  <2>. QED
      BY <1>2, <2>1
<1>3. ASSUME DOMAIN x = {"obj"}, DOMAIN y = {"obj"}, NEW k \in DOMAIN x.obj \cup DOMAIN y.obj
      PROVE  ofField(r, x, y, k) \in Seq(AnyReport)
  <2>1. CASE k \notin DOMAIN y.obj
      BY <1>1, <2>1 DEF ofField
  <2>2. CASE k \in DOMAIN y.obj /\ k \notin DOMAIN x.obj
      BY <1>1, <2>2 DEF ofField
  <2>3. CASE k \in DOMAIN y.obj /\ k \in DOMAIN x.obj
    <3>1. x.obj[k] \in JSON /\ y.obj[k] \in JSON /\ Depth[x.obj[k]] < Depth[x]
        BY <1>3, <2>3, ValueKinds
    <3>. QED
        BY <1>2, <2>3, <3>1 DEF ofField
  <2>. QED
      BY <2>1, <2>2, <2>3
<1>4. ASSUME DOMAIN x = {"list"}, DOMAIN y = {"list"}
      PROVE  LET es == Script(r, x, y)
             IN \A n \in 1 .. Len(es) : replay(r, x, y, es, n) \in Seq(AnyReport)
  <2>. DEFINE es == Script(r, x, y)
              nx == Len(x.list)
              ny == Len(y.list)
  <2>1. /\ nx \in Nat /\ ny \in Nat /\ DOMAIN x.list = 1 .. nx /\ DOMAIN y.list = 1 .. ny
        /\ \A n \in 1 .. nx : x.list[n] \in JSON /\ Depth[x.list[n]] < Depth[x]
        /\ \A n \in 1 .. ny : y.list[n] \in JSON
      BY <1>4, ValueKinds
  <2>2. Leads(Results(r, x, y), es, 0, 0, nx, ny)
      BY <1>4, ScriptLeads
  <2>. HIDE DEF es, nx, ny
  <2>3. ASSUME NEW n \in 1 .. Len(es) PROVE replay(r, x, y, es, n) \in Seq(AnyReport)
    <3>. DEFINE a == Consumed(es, n, "uniqueY")
                b == Consumed(es, n, "uniqueX")
    <3>1. /\ es[n] \in Edits
          /\ es[n] # "uniqueY" => a \in 1 .. nx
          /\ es[n] # "uniqueX" => b \in 1 .. ny
      <4>1. InPlace(Results(r, x, y), es, nx, ny, n)
          BY <2>1, <2>2, PositionsInRange
      <4>. QED
          BY <4>1, Zenon DEF InPlace
    <3>2. CASE es[n] = "uniqueX"
        BY <1>1, <3>2 DEF replay
    <3>3. CASE es[n] = "uniqueY"
        BY <1>1, <3>3 DEF replay
    <3>4. CASE es[n] = "identity"
      <4>1. replay(r, x, y, es, n) = <<Report(TRUE, "both", a # b)>> /\ (a # b) \in BOOLEAN
          BY <3>4 DEF replay
      <4>. HIDE DEF a, b
      <4>. QED
          BY <1>1, <4>1, Zenon
    <3>5. CASE es[n] = "modified"
      <4>1. replay(r, x, y, es, n) = r[<<x.list[a], y.list[b]>>]
          BY <3>5 DEF replay
      <4>. HIDE DEF a, b
      <4>. QED
          BY <1>2, <2>1, <3>1, <3>5, <4>1
    <3>. QED
        BY <3>1, <3>2, <3>3, <3>4, <3>5 DEF Edits
  <2>. QED
      BY <2>3 DEF es
<1>. QED
    BY <1>3, <1>4

\* What is reported of two values depends on what is reported of values of less depth.
LEMMA ReportsLocal ==
    ASSUME NEW r, NEW q, NEW x \in JSON, NEW y \in JSON,
           \A z \in JSON \X JSON : Depth[z[1]] < Depth[x] => r[z] = q[z]
    PROVE  reportsFrom(r, x, y) = reportsFrom(q, x, y)
<1>1. ASSUME NEW a \in JSON, NEW b \in JSON, Depth[a] < Depth[x]
      PROVE  r[<<a, b>>] = q[<<a, b>>]
  <2>1. <<a, b>> \in JSON \X JSON /\ <<a, b>>[1] = a
      OBVIOUS
  <2>. QED
      BY <1>1, <2>1
<1>2. CASE DOMAIN x # DOMAIN y
    BY <1>2 DEF reportsFrom
<1>3. CASE DOMAIN x = {"obj"} /\ DOMAIN y = {"obj"}
  <2>. DEFINE keys == SetToSeq(DOMAIN x.obj \cup DOMAIN y.obj)
  <2>1. IsFiniteSet(DOMAIN x.obj \cup DOMAIN y.obj)
      BY <1>3, ValueKinds, FS_Union
  <2>2. \A n \in DOMAIN keys : keys[n] \in DOMAIN x.obj \cup DOMAIN y.obj
      BY <2>1, SetToSeqHas
  <2>3. ASSUME NEW k \in DOMAIN x.obj \cup DOMAIN y.obj
        PROVE  ofField(r, x, y, k) = ofField(q, x, y, k)
    <3>1. CASE k \in DOMAIN y.obj /\ k \in DOMAIN x.obj
      <4>1. x.obj[k] \in JSON /\ y.obj[k] \in JSON /\ Depth[x.obj[k]] < Depth[x]
          BY <1>3, <3>1, ValueKinds
      <4>. QED
          BY <1>1, <3>1, <4>1 DEF ofField
    <3>2. CASE ~(k \in DOMAIN y.obj /\ k \in DOMAIN x.obj)
        BY <3>2 DEF ofField
    <3>. QED
        BY <3>1, <3>2
  <2>4. [n \in DOMAIN keys |-> ofField(r, x, y, keys[n])] =
            [n \in DOMAIN keys |-> ofField(q, x, y, keys[n])]
    <3>. HIDE DEF keys
    <3>. QED
        BY <2>2, <2>3
  <2>5. /\ reportsFrom(r, x, y) = FlattenSeq([n \in DOMAIN keys |-> ofField(r, x, y, keys[n])])
        /\ reportsFrom(q, x, y) = FlattenSeq([n \in DOMAIN keys |-> ofField(q, x, y, keys[n])])
      BY <1>3, Zenon DEF reportsFrom
  <2>. QED
      BY <2>4, <2>5, Zenon
<1>4. CASE DOMAIN x = {"list"} /\ DOMAIN y = {"list"}
  <2>. DEFINE es == Script(r, x, y)
              nx == Len(x.list)
              ny == Len(y.list)
  <2>1. /\ nx \in Nat /\ ny \in Nat /\ DOMAIN x.list = 1 .. nx /\ DOMAIN y.list = 1 .. ny
        /\ \A n \in 1 .. nx : x.list[n] \in JSON /\ Depth[x.list[n]] < Depth[x]
        /\ \A n \in 1 .. ny : y.list[n] \in JSON
      BY <1>4, ValueKinds
  <2>2. Leads(Results(r, x, y), es, 0, 0, nx, ny)
      BY <1>4, ScriptLeads
  <2>3. Results(r, x, y) = Results(q, x, y)
    <3>1. \A c \in (DOMAIN x.list) \X (DOMAIN y.list) :
              r[<<x.list[c[1]], y.list[c[2]]>>] = q[<<x.list[c[1]], y.list[c[2]]>>]
      <4>1. ASSUME NEW c \in (DOMAIN x.list) \X (DOMAIN y.list)
            PROVE  r[<<x.list[c[1]], y.list[c[2]]>>] = q[<<x.list[c[1]], y.list[c[2]]>>]
        <5>1. c[1] \in 1 .. nx /\ c[2] \in 1 .. ny
            BY <2>1
        <5>. QED
            BY <1>1, <2>1, <5>1
      <4>. QED
          BY <4>1
    <3>. QED
        BY <3>1, Zenon DEF Results
  <2>4. Script(r, x, y) = Script(q, x, y)
      BY <2>3 DEF Script, Results
  <2>. HIDE DEF es, nx, ny
  <2>5. ASSUME NEW n \in 1 .. Len(es) PROVE replay(r, x, y, es, n) = replay(q, x, y, es, n)
    <3>. DEFINE a == Consumed(es, n, "uniqueY")
                b == Consumed(es, n, "uniqueX")
    <3>1. /\ es[n] \in Edits
          /\ es[n] # "uniqueY" => a \in 1 .. nx
          /\ es[n] # "uniqueX" => b \in 1 .. ny
      <4>1. InPlace(Results(r, x, y), es, nx, ny, n)
          BY <2>1, <2>2, PositionsInRange
      <4>. QED
          BY <4>1, Zenon DEF InPlace
    <3>2. CASE es[n] = "uniqueX"
        BY <3>2 DEF replay
    <3>3. CASE es[n] = "uniqueY"
        BY <3>3 DEF replay
    <3>4. CASE es[n] = "identity"
        BY <3>4 DEF replay
    <3>5. CASE es[n] = "modified"
      <4>1. /\ replay(r, x, y, es, n) = r[<<x.list[a], y.list[b]>>]
            /\ replay(q, x, y, es, n) = q[<<x.list[a], y.list[b]>>]
          BY <3>5 DEF replay
      <4>. HIDE DEF a, b
      <4>. QED
          BY <1>1, <2>1, <3>1, <3>5, <4>1
    <3>. QED
        BY <3>1, <3>2, <3>3, <3>4, <3>5 DEF Edits
  <2>6. [n \in DOMAIN es |-> replay(r, x, y, es, n)] = [n \in DOMAIN es |-> replay(q, x, y, es, n)]
    <3>1. DOMAIN es = 1 .. Len(es)
        BY <2>2 DEF Leads
    <3>. QED
        BY <2>5, <3>1
  <2>7. /\ reportsFrom(r, x, y) = FlattenSeq([n \in DOMAIN es |-> replay(r, x, y, es, n)])
        /\ reportsFrom(q, x, y) = FlattenSeq([n \in DOMAIN es |-> replay(q, x, y, es, n)])
    <3>1. DOMAIN x = DOMAIN y /\ DOMAIN x # {"obj"} /\ DOMAIN x = {"list"}
        BY <1>4
    <3>2. es = Script(r, x, y) /\ es = Script(q, x, y)
        BY <2>4 DEF es
    <3>. QED
        BY <3>1, <3>2, Zenon DEF reportsFrom
  <2>. QED
      BY <2>6, <2>7, Zenon
<1>5. CASE DOMAIN x = DOMAIN y /\ DOMAIN x # {"obj"} /\ DOMAIN x # {"list"}
    BY <1>5, Zenon DEF reportsFrom
<1>. QED
    BY <1>2, <1>3, <1>4, <1>5

\* What is reported of two values are reports, if it is so of values of less depth.
LEMMA ReportsTyped ==
    ASSUME NEW r, NEW x \in JSON, NEW y \in JSON,
           \A z \in JSON \X JSON : Depth[z[1]] < Depth[x] => r[z] \in Seq(AnyReport)
    PROVE  reportsFrom(r, x, y) \in Seq(AnyReport)
<1>1. CASE DOMAIN x # DOMAIN y
  <2>1. Report(FALSE, "both", FALSE) \in AnyReport
      BY DEF Report, AnyReport, Sides
  <2>2. \A e \in AnyReport : <<e>> \in Seq(AnyReport)
      OBVIOUS
  <2>3. reportsFrom(r, x, y) = <<Report(FALSE, "both", FALSE)>>
      BY <1>1 DEF reportsFrom
  <2>. QED
      BY <2>1, <2>2, <2>3, Zenon
<1>2. CASE DOMAIN x = {"obj"} /\ DOMAIN y = {"obj"}
  <2>. DEFINE keys == SetToSeq(DOMAIN x.obj \cup DOMAIN y.obj)
              parts == [n \in DOMAIN keys |-> ofField(r, x, y, keys[n])]
  <2>1. IsFiniteSet(DOMAIN x.obj \cup DOMAIN y.obj)
      BY <1>2, ValueKinds, FS_Union
  <2>2. keys \in Seq(DOMAIN x.obj \cup DOMAIN y.obj)
      BY <2>1, SetToSeqHas
  <2>3. \A k \in DOMAIN x.obj \cup DOMAIN y.obj : ofField(r, x, y, k) \in Seq(AnyReport)
      BY <1>2, PartsTyped
  <2>4. reportsFrom(r, x, y) = FlattenSeq(parts)
      BY <1>2, Zenon DEF reportsFrom
  <2>5. parts \in Seq(Seq(AnyReport))
    <3>. HIDE DEF keys
    <3>1. DOMAIN keys = 1 .. Len(keys) /\ Len(keys) \in Nat
        BY <2>2
    <3>2. \A n \in 1 .. Len(keys) : keys[n] \in DOMAIN x.obj \cup DOMAIN y.obj
        BY <2>2
    <3>. QED
        BY <2>3, <3>1, <3>2
  <2>. HIDE DEF parts
  <2>. QED
      BY <2>4, <2>5, FlattenType
<1>3. CASE DOMAIN x = {"list"} /\ DOMAIN y = {"list"}
  <2>. DEFINE es == Script(r, x, y)
              parts == [n \in DOMAIN es |-> replay(r, x, y, es, n)]
  <2>1. es \in Seq(Edits)
      BY <1>3, ScriptLeads DEF Leads
  <2>2. \A n \in 1 .. Len(es) : replay(r, x, y, es, n) \in Seq(AnyReport)
      BY <1>3, PartsTyped
  <2>3. reportsFrom(r, x, y) = FlattenSeq(parts)
    <3>1. DOMAIN x = DOMAIN y /\ DOMAIN x # {"obj"} /\ DOMAIN x = {"list"}
        BY <1>3
    <3>. QED
        BY <3>1, Zenon DEF reportsFrom
  <2>4. parts \in Seq(Seq(AnyReport))
    <3>. HIDE DEF es
    <3>1. DOMAIN es = 1 .. Len(es) /\ Len(es) \in Nat
        BY <2>1
    <3>. QED
        BY <2>2, <3>1
  <2>. HIDE DEF parts
  <2>. QED
      BY <2>3, <2>4, FlattenType
<1>4. CASE DOMAIN x = DOMAIN y /\ DOMAIN x # {"obj"} /\ DOMAIN x # {"list"}
  <2>1. reportsFrom(r, x, y) = <<Report(x = y, "both", FALSE)>>
      BY <1>4, Zenon DEF reportsFrom
  <2>2. Report(x = y, "both", FALSE) \in AnyReport
      BY DEF Report, AnyReport, Sides
  <2>3. \A e \in AnyReport : <<e>> \in Seq(AnyReport)
      OBVIOUS
  <2>. QED
      BY <2>1, <2>2, <2>3, Zenon
<1>. QED
    BY <1>1, <1>2, <1>3, <1>4

\* The reports of every pair of values.
AllReports == CHOOSE r : r = [z \in JSON \X JSON |-> reportsFrom(r, z[1], z[2])]

\* The recursion of Reports has a solution, which is unfolded here once.
LEMMA ReportsFacts ==
    /\ \A x, y \in JSON : /\ AllReports[<<x, y>>] = Reports(x, y)
                          /\ Reports(x, y) = reportsFrom(AllReports, x, y)
    /\ \A x, y \in JSON : Reports(x, y) \in Seq(AnyReport)
<1>. DEFINE D == JSON \X JSON
            R == Seq(AnyReport)
            rank == [z \in D |-> Depth[z[1]]]
            G == [f \in [D -> R] |-> [z \in D |-> reportsFrom(f, z[1], z[2])]]
<1>1. \A z \in D : rank[z] \in 0 .. MaxDepth /\ rank[z] = Depth[z[1]] /\ z[1] \in JSON /\ z[2] \in JSON
    BY ValueKinds
<1>2. \E f \in [D -> R] : f = G[f]
  <2>1. ASSUME NEW f \in [D -> R], NEW z \in D PROVE reportsFrom(f, z[1], z[2]) \in R
    <3>1. \A u \in D : f[u] \in R
        BY Zenon
    <3>. QED
        BY <1>1, <3>1, ReportsTyped
  <2>2. \A f \in [D -> R] : G[f] \in [D -> R]
      BY <2>1
  <2>3. ASSUME NEW f \in [D -> R], NEW g \in [D -> R], NEW z \in D,
               \A u \in D : rank[u] < rank[z] => f[u] = g[u]
        PROVE  G[f][z] = G[g][z]
    <3>1. \A u \in JSON \X JSON : Depth[u[1]] < Depth[z[1]] => f[u] = g[u]
        BY <1>1, <2>3
    <3>2. reportsFrom(f, z[1], z[2]) = reportsFrom(g, z[1], z[2])
        BY <1>1, <3>1, ReportsLocal
    <3>3. G[f][z] = reportsFrom(f, z[1], z[2]) /\ G[g][z] = reportsFrom(g, z[1], z[2])
        BY Zenon
    <3>. QED
        BY <3>2, <3>3, Zenon
  <2>4. R # {}
    <3>1. << >> \in R
        OBVIOUS
    <3>. QED
        BY <3>1
  <2>5. MaxDepth \in Nat
      BY JSONAssumption
  <2>6. \A z \in D : rank[z] \in 0 .. MaxDepth
      BY <1>1
  <2>. HIDE DEF D, R, G, rank
  <2>7. \A f, g \in [D -> R] : \A z \in D :
            (\A u \in D : rank[u] < rank[z] => f[u] = g[u]) => G[f][z] = G[g][z]
      BY <2>3
  <2>8. GoesDown(G, D, R, rank, MaxDepth)
      BY <2>2, <2>4, <2>5, <2>6, <2>7 DEF GoesDown
  <2>. QED
      BY <2>8, Recursion
<1>3. AllReports = [z \in JSON \X JSON |-> reportsFrom(AllReports, z[1], z[2])]
  <2>1. \E f : f = [z \in JSON \X JSON |-> reportsFrom(f, z[1], z[2])]
    <3>1. PICK f \in [D -> R] : f = G[f]
        BY <1>2
    <3>2. G[f] = [z \in D |-> reportsFrom(f, z[1], z[2])]
        BY Zenon
    <3>. QED
        BY <3>1, <3>2, Zenon
  <2>. QED
      BY <2>1, Zenon DEF AllReports
<1>4. ASSUME NEW x \in JSON, NEW y \in JSON
      PROVE  AllReports[<<x, y>>] = Reports(x, y) /\ Reports(x, y) = reportsFrom(AllReports, x, y)
  <2>1. Reports(x, y) = AllReports[<<x, y>>]
      BY Zenon DEF Reports, AllReports
  <2>2. <<x, y>> \in JSON \X JSON /\ <<x, y>>[1] = x /\ <<x, y>>[2] = y
      OBVIOUS
  <2>3. AllReports[<<x, y>>] = reportsFrom(AllReports, <<x, y>>[1], <<x, y>>[2])
      BY <1>3, <2>2, Zenon
  <2>. QED
      BY <2>1, <2>2, <2>3, Zenon
<1>5. D \subseteq {z \in D : AllReports[z] \in R}
  <2>. DEFINE S == {z \in D : AllReports[z] \in R}
  <2>1. ASSUME NEW z \in D, \A u \in D : rank[u] < rank[z] => u \in S PROVE z \in S
    <3>1. \A u \in JSON \X JSON : Depth[u[1]] < Depth[z[1]] => AllReports[u] \in Seq(AnyReport)
        BY <1>1, <2>1
    <3>2. reportsFrom(AllReports, z[1], z[2]) \in R
        BY <1>1, <3>1, ReportsTyped
    <3>3. AllReports[z] = reportsFrom(AllReports, z[1], z[2])
        BY <1>3, Zenon
    <3>. QED
        BY <3>2, <3>3
  <2>2. \A z \in D : rank[z] \in Nat
      BY <1>1
  <2>3. D \subseteq S
    <3>. HIDE DEF S, D, rank
    <3>. QED
        BY <2>1, <2>2, Ranks
  <2>. QED
      BY <2>3, Zenon
<1>6. ASSUME NEW x \in JSON, NEW y \in JSON PROVE Reports(x, y) \in R
  <2>1. <<x, y>> \in D
      OBVIOUS
  <2>. HIDE DEF R, D
  <2>. QED
      BY <1>4, <1>5, <2>1
<1>. QED
    BY <1>4, <1>6

\* The reports of every pair of values are reports.
LEMMA AllTyped == \A z \in JSON \X JSON : AllReports[z] \in Seq(AnyReport)
<1>1. ASSUME NEW z \in JSON \X JSON PROVE AllReports[z] \in Seq(AnyReport)
  <2>1. z = <<z[1], z[2]>> /\ z[1] \in JSON /\ z[2] \in JSON
      OBVIOUS
  <2>. QED
      BY <2>1, ReportsFacts
<1>. QED
    BY <1>1

\* Where the reports of two values come from: values of different kinds, objects,
\* lists and other values.
LEMMA KindReport ==
    ASSUME NEW x \in JSON, NEW y \in JSON, DOMAIN x # DOMAIN y, NEW e
    PROVE  e \in ToSet(Reports(x, y)) <=> e = Report(FALSE, "both", FALSE)
<1>1. Reports(x, y) = reportsFrom(AllReports, x, y)
    BY ReportsFacts
<1>2. \A u : e \in ToSet(<<u>>) <=> e = u
    BY DEF ToSet
<1>3. reportsFrom(AllReports, x, y) = <<Report(FALSE, "both", FALSE)>>
    BY DEF reportsFrom
<1>. QED
    BY <1>1, <1>2, <1>3, Zenon

\* What is reported of two values, by their kind.
LEMMA PrimitiveReport ==
    ASSUME NEW x \in JSON, NEW y \in JSON, DOMAIN x = DOMAIN y, IsPrimitive(x), NEW e
    PROVE  e \in ToSet(Reports(x, y)) <=> e = Report(x = y, "both", FALSE)
<1>1. Reports(x, y) = reportsFrom(AllReports, x, y)
    BY ReportsFacts
<1>2. \A u : e \in ToSet(<<u>>) <=> e = u
    BY DEF ToSet
<1>3. DOMAIN x # {"obj"} /\ DOMAIN x # {"list"}
    BY DEF IsPrimitive
<1>4. reportsFrom(AllReports, x, y) = <<Report(x = y, "both", FALSE)>>
    BY <1>3, Zenon DEF reportsFrom
<1>. QED
    BY <1>1, <1>2, <1>4, Zenon

\* Of two objects, the fields are reported.
LEMMA ObjectReports ==
    ASSUME NEW x \in JSON, NEW y \in JSON, DOMAIN x = {"obj"}, DOMAIN y = {"obj"}, NEW e
    PROVE  e \in ToSet(Reports(x, y)) <=>
               \E k \in DOMAIN x.obj \cup DOMAIN y.obj : e \in ToSet(ofField(AllReports, x, y, k))
<1>. DEFINE r == AllReports
            both == DOMAIN x.obj \cup DOMAIN y.obj
            keys == SetToSeq(both)
            parts == [n \in DOMAIN keys |-> ofField(r, x, y, keys[n])]
<1>0. Reports(x, y) = reportsFrom(r, x, y)
    BY ReportsFacts
<1>1. IsFiniteSet(both)
    BY ValueKinds, FS_Union
<1>2. keys \in Seq(both) /\ \A k \in both : \E n \in 1 .. Len(keys) : keys[n] = k
  <2>. HIDE DEF both
  <2>. QED
      BY <1>1, SetToSeqHas
<1>3. \A k \in both : ofField(r, x, y, k) \in Seq(AnyReport)
    BY AllTyped, PartsTyped
<1>4. reportsFrom(r, x, y) = FlattenSeq(parts)
    BY Zenon DEF reportsFrom
<1>. HIDE DEF r, both, keys
<1>5. /\ DOMAIN keys = 1 .. Len(keys) /\ Len(keys) \in Nat
      /\ \A n \in 1 .. Len(keys) : keys[n] \in both
    BY <1>2
<1>6. /\ parts \in Seq(Seq(AnyReport)) /\ Len(parts) = Len(keys)
      /\ \A n \in 1 .. Len(keys) : parts[n] = ofField(r, x, y, keys[n])
    BY <1>3, <1>5
<1>. HIDE DEF parts
<1>7. e \in ToSet(FlattenSeq(parts)) <=> \E n \in 1 .. Len(parts) : e \in ToSet(parts[n])
    BY <1>6, FlattenHas
<1>8. e \in ToSet(Reports(x, y)) <=>
          \E n \in 1 .. Len(keys) : e \in ToSet(ofField(r, x, y, keys[n]))
    BY <1>0, <1>4, <1>6, <1>7, Zenon
<1>. QED
    BY <1>2, <1>5, <1>8, Zenon DEF r, both

\* Of two lists, the edits of their script.
LEMMA ListReports ==
    ASSUME NEW x \in JSON, NEW y \in JSON, DOMAIN x = {"list"}, DOMAIN y = {"list"}, NEW e
    PROVE  e \in ToSet(Reports(x, y)) <=>
               \E n \in 1 .. Len(Script(AllReports, x, y)) :
                   e \in ToSet(replay(AllReports, x, y, Script(AllReports, x, y), n))
<1>. DEFINE r == AllReports
            es == Script(r, x, y)
            parts == [n \in DOMAIN es |-> replay(r, x, y, es, n)]
<1>0. Reports(x, y) = reportsFrom(r, x, y)
    BY ReportsFacts
<1>1. es \in Seq(Edits)
    BY ScriptLeads DEF Leads
<1>2. \A n \in 1 .. Len(es) : replay(r, x, y, es, n) \in Seq(AnyReport)
    BY AllTyped, PartsTyped
<1>3. reportsFrom(r, x, y) = FlattenSeq(parts)
  <2>1. DOMAIN x = DOMAIN y /\ DOMAIN x # {"obj"} /\ DOMAIN x = {"list"}
      OBVIOUS
  <2>. QED
      BY <2>1, Zenon DEF reportsFrom
<1>. HIDE DEF r, es
<1>4. DOMAIN es = 1 .. Len(es) /\ Len(es) \in Nat
    BY <1>1
<1>5. /\ parts \in Seq(Seq(AnyReport)) /\ Len(parts) = Len(es)
      /\ \A n \in 1 .. Len(es) : parts[n] = replay(r, x, y, es, n)
    BY <1>2, <1>4
<1>. HIDE DEF parts
<1>6. e \in ToSet(FlattenSeq(parts)) <=> \E n \in 1 .. Len(parts) : e \in ToSet(parts[n])
    BY <1>5, FlattenHas
<1>7. e \in ToSet(Reports(x, y)) <=>
          \E n \in 1 .. Len(es) : e \in ToSet(replay(r, x, y, es, n))
    BY <1>0, <1>3, <1>5, <1>6, Zenon
<1>. QED
    BY <1>7, Zenon DEF r, es

\* A result is that of equal values if every report is.
LEMMA EqualResult ==
    ASSUME NEW rs \in Seq(AnyReport)
    PROVE  Equal(Result(rs)) <=> \A e \in ToSet(rs) : e.eq
<1>. DEFINE n == Len(rs)
            U == {k \in DOMAIN rs : rs[k].eq}
<1>1. n \in Nat /\ DOMAIN rs = 1 .. n
    OBVIOUS
<1>2. Result(rs).diff = n - Cardinality(U)
    BY DEF Result
<1>3. IsFiniteSet(1 .. n) /\ Cardinality(1 .. n) = n
    BY <1>1, FS_Interval
<1>4. U \in SUBSET (1 .. n)
    BY <1>1
<1>5. (\A e \in ToSet(rs) : e.eq) <=> U = 1 .. n
    BY <1>1 DEF ToSet
<1>. HIDE DEF U, n
<1>6. Cardinality(U) \in Nat /\ (Cardinality(U) = n <=> U = 1 .. n)
    BY <1>3, <1>4, FS_Subset, FS_CardinalityType
<1>7. n - Cardinality(U) = 0 <=> U = 1 .. n
    BY <1>1, <1>6
<1>. QED
    BY <1>2, <1>5, <1>7 DEF Equal

\* Edits that all consume an element consume as many as they are.
LEMMA ConsumedAll ==
    ASSUME NEW es, NEW other, NEW n \in Nat, \A m \in 1 .. n : es[m] # other
    PROVE  Consumed(es, n, other) = n
<1>1. {m \in 1 .. n : es[m] # other} = 1 .. n
    OBVIOUS
<1>2. Cardinality(1 .. n) = n
    BY FS_Interval
<1>. QED
    BY <1>1, <1>2 DEF Consumed

\* A loop of no turns leads nowhere.
LEMMA NoTurns ==
    ASSUME NEW turn, NEW s
    PROVE  Loop(turn, s, 0) = s
<1>. DEFINE J == [k \in 0 .. 0 |-> {s}]
<1>1. s \in J[0] /\ \A k \in 1 .. 0 : \A t \in J[k - 1] : turn[t] \in J[k]
    OBVIOUS
<1>2. J[0] = {s}
    OBVIOUS
<1>. HIDE DEF J
<1>3. Loop(turn, s, 0) \in J[0]
    BY <1>1, LoopCounts
<1>. QED
    BY <1>2, <1>3

\* The paths of which only identical elements are known, so many from the start.
Diagonal(k) == {q \in EditPaths : q.x = k /\ q.y = k /\ q.es \in Seq({"identity"})}

\* Identities lead along the diagonal.
LEMMA OnDiagonal ==
    ASSUME NEW k \in Int, NEW es \in Seq({"identity"})
    PROVE  [x |-> k, y |-> k, es |-> es] \in Diagonal(k)
<1>1. es \in Seq(Edits)
  <2>1. \A n \in 1 .. Len(es) : es[n] \in Edits
      BY DEF Edits
  <2>. QED
      BY <2>1
<1>. QED
    BY <1>1 DEF Diagonal, EditPaths

\* A path before equal elements only follows them to the end.
LEMMA FollowDiagonal ==
    ASSUME NEW f, NEW n \in Nat, NEW m \in 0 .. n, NEW p \in Diagonal(m),
           \A k \in 1 .. n : Equal(f[<<k, k>>]),
           NEW other, other.x = n, other.y = n
    PROVE  Follow(f, p, 1, other) \in Diagonal(n)
<1>. DEFINE turn == [q \in EditPaths |-> Match(f, q, 1, other)]
            left == n - m
            J == [k \in 0 .. left |-> Diagonal(m + k)]
<1>1. left \in Nat
    OBVIOUS
<1>2. Follow(f, p, 1, other) = Loop(turn, p, left)
  <2>1. p.x = m /\ Abs(other.x - p.x) = left
      BY DEF Diagonal, Abs
  <2>. QED
      BY <2>1, Zenon DEF Follow
<1>3. ASSUME NEW k \in 1 .. left, NEW q \in Diagonal(m + (k - 1)) PROVE turn[q] \in Diagonal(m + k)
  <2>. DEFINE c == m + (k - 1)
  <2>1. /\ q \in EditPaths /\ q.x = c /\ q.y = c /\ q.es \in Seq({"identity"})
        /\ c \in Nat /\ c + 1 = m + k /\ c < n /\ c + 1 \in 1 .. n
      BY DEF Diagonal
  <2>. HIDE DEF c
  <2>2. turn[q] = Match(f, q, 1, other)
      BY <2>1
  <2>3. Match(f, q, 1, other) = Move(q, "identity", 1)
    <3>1. Equal(At(f, q, 1))
        BY <2>1 DEF At
    <3>2. 1 * (other.x - q.x) > 0 /\ 1 * (other.y - q.y) > 0
        BY <2>1
    <3>. QED
        BY <3>1, <3>2 DEF Match
  <2>4. Append(q.es, "identity") \in Seq({"identity"})
      BY <2>1
  <2>5. Move(q, "identity", 1) = [x |-> c + 1, y |-> c + 1, es |-> Append(q.es, "identity")]
      BY <2>1 DEF Move
  <2>6. [x |-> c + 1, y |-> c + 1, es |-> Append(q.es, "identity")] \in Diagonal(c + 1)
    <3>1. c + 1 \in Int
        BY <2>1
    <3>. QED
        BY <2>4, <3>1, OnDiagonal, Zenon
  <2>. QED
      BY <2>1, <2>2, <2>3, <2>5, <2>6
<1>4. Loop(turn, p, left) \in J[left]
  <2>1. \A k \in 0 .. left : J[k] = Diagonal(m + k)
      OBVIOUS
  <2>2. \A k \in 1 .. left : k \in 0 .. left /\ k - 1 \in 0 .. left
      BY <1>1
  <2>3. p \in J[0]
      BY <1>1, <2>1
  <2>4. \A k \in 1 .. left : \A q \in J[k - 1] : turn[q] \in J[k]
    <3>. HIDE DEF J, left, turn
    <3>. QED
        BY <1>3, <2>1, <2>2
  <2>. HIDE DEF J, left, turn
  <2>. QED
      BY <1>1, <2>3, <2>4, LoopCounts
<1>5. J[left] = Diagonal(n)
  <2>1. left \in 0 .. left /\ m + left = n
      BY <1>1
  <2>. QED
      BY <2>1
<1>. QED
    BY <1>2, <1>4, <1>5

\* A path connected to where it is stays as it is.
LEMMA ConnectHere ==
    ASSUME NEW f, NEW p \in EditPaths, NEW d, NEW dst, dst.x = p.x, dst.y = p.y
    PROVE  Connect(f, p, d, dst) = p
<1>1. Abs(dst.x - p.x) + Abs(dst.y - p.y) = 0
    BY DEF EditPaths, Abs
<1>. QED
    BY <1>1, NoTurns DEF Connect

\* The edit script of two equal lists has identities only.
LEMMA DifferenceOfEqual ==
    ASSUME NEW f, NEW n \in Nat, \A k \in 1 .. n : Equal(f[<<k, k>>])
    PROVE  Difference(n, n, f) \in Seq({"identity"})
<1>. DEFINE start == [x |-> 0, y |-> 0]
            end == [x |-> n, y |-> n]
            here(p) == [x |-> p.x, y |-> p.y, es |-> << >>]
            first == [path |-> [d \in Directions |-> IF d = 1 THEN here(start) ELSE here(end)],
                      front |-> [d \in Directions |-> IF d = 1 THEN start ELSE end],
                      budget |-> 4 * (n + n), d |-> 1]
            turn == [t \in SearchStates |-> Turn(f, t)]
            s == Loop(turn, first, n + n)
            Ended == {t \in SearchStates : /\ t.path[1] \in Diagonal(n) /\ t.path[-1] = here(end)
                                          /\ t.front[1].x >= t.front[-1].x}
<1>1. Difference(n, n, f) = Connect(f, s.path[1], 1, s.path[-1]).es \o s.path[-1].es
    BY DEF Difference
<1>2. /\ here(start) \in EditPaths /\ here(end) \in EditPaths
      /\ start \in Points /\ end \in Points
    BY DEF Points, EditPaths
<1>3. /\ first.path[1] = here(start) /\ first.front[1] = start
      /\ first.path[-1] = here(end) /\ first.front[-1] = end
      /\ first.budget = 4 * (n + n) /\ first.d = 1
    BY DEF Directions
<1>4. first \in SearchStates
  <2>1. /\ first.path \in [Directions -> EditPaths] /\ first.front \in [Directions -> Points]
        /\ first.budget \in Int /\ first.d \in Directions
      BY <1>2 DEF Directions
  <2>. QED
      BY <2>1 DEF SearchStates
<1>. HIDE DEF first
<1>5. ASSUME n > 0 PROVE turn[first] \in Ended
  <2>. DEFINE found == Follow(f, Move(here(start), "identity", 1), 1, here(end))
  <2>1. Cell(first, 0) = start
    <3>1. Zigzag(0) = 0
        BY DEF Zigzag
    <3>. QED
        BY <1>3, <3>1 DEF Cell
  <2>2. IsMatch(f, first, start)
    <3>1. Open(first, start)
        BY <1>3, <1>5 DEF Open, PastX, PastY
    <3>2. Equal(At(f, start, 1))
        BY <1>5 DEF At
    <3>. QED
        BY <1>3, <3>1, <3>2 DEF IsMatch
  <2>3. Tried(first, 0) = 0
    <3>1. {m \in 0 .. 0 - 1 : Open(first, Cell(first, m))} = {}
        OBVIOUS
    <3>. QED
        BY <3>1, FS_EmptySet DEF Tried
  <2>4. ~IsOver(first, 0)
    <3>1. Tried(first, 0) # first.budget
        BY <1>3, <1>5, <2>3
    <3>. QED
        BY <3>1 DEF IsOver
  <2>5. EndOf(f, first) = 0
    <3>. DEFINE ends(k) == IsOver(first, k) \/ IsMatch(f, first, Cell(first, k))
                span == Abs(first.path[1].x - first.path[-1].x) + Abs(first.path[1].y - first.path[-1].y)
                top == 2 * span + 3
                good(k) == ends(k) /\ \A m \in 0 .. k - 1 : ~ends(m)
    <3>1. top \in Nat
        BY <1>3 DEF Abs
    <3>2. EndOf(f, first) = CHOOSE k \in 0 .. top : good(k)
        BY Zenon DEF EndOf
    <3>3. ends(0)
        BY <2>1, <2>2
    <3>. HIDE DEF ends, top
    <3>4. 0 \in 0 .. top /\ good(0)
        BY <3>1, <3>3
    <3>5. \A k \in 0 .. top : good(k) => k = 0
      <4>1. ASSUME NEW k \in 0 .. top, good(k), k # 0 PROVE FALSE
        <5>1. 0 \in 0 .. k - 1
            BY <3>1, <4>1
        <5>. QED
            BY <3>3, <4>1, <5>1
      <4>. QED
          BY <4>1
    <3>. HIDE DEF good
    <3>. QED
        BY <3>2, <3>4, <3>5
  <2>6. Connect(f, here(start), 1, start) = here(start)
      BY <1>2, ConnectHere
  <2>7. found \in Diagonal(n) /\ [x |-> found.x, y |-> found.y] = end
    <3>1. Move(here(start), "identity", 1) \in Diagonal(1)
      <4>1. Move(here(start), "identity", 1) = [x |-> 1, y |-> 1, es |-> <<"identity">>]
          BY DEF Move
      <4>2. <<"identity">> \in Seq({"identity"})
          OBVIOUS
      <4>3. [x |-> 1, y |-> 1, es |-> <<"identity">>] \in Diagonal(1)
        <5>1. 1 \in Int
            OBVIOUS
        <5>. QED
            BY <4>2, <5>1, OnDiagonal, Zenon
      <4>. QED
          BY <4>1, <4>3, Zenon
    <3>2. 1 \in 0 .. n
        BY <1>5
    <3>3. here(end).x = n /\ here(end).y = n
        OBVIOUS
    <3>. HIDE DEF here, start, end
    <3>4. found \in Diagonal(n)
        BY <3>1, <3>2, <3>3, FollowDiagonal
    <3>. QED
        BY <3>4 DEF Diagonal, end
  <2>. HIDE DEF found
  <2>. DEFINE new == [first EXCEPT !.path = [@ EXCEPT ![1] = found], !.front = [@ EXCEPT ![1] = end],
                                   !.budget = first.budget - 0]
  <2>8. FindMatch(f, first) = new
    <3>1. -first.d = -1
        BY <1>3
    <3>2. Follow(f, Move(Connect(f, first.path[first.d], first.d, start), "identity", first.d),
                 first.d, first.path[-first.d]) = found
        BY <1>3, <2>6, <3>1, Zenon DEF found
    <3>. HIDE DEF start, end, here
    <3>. QED
        BY <1>3, <2>1, <2>2, <2>3, <2>4, <2>5, <2>7, <3>2 DEF FindMatch
  <2>9. /\ new \in SearchStates /\ new.d = 1
        /\ new.path[1] = found /\ new.path[-1] = here(end)
        /\ new.front[1] = end /\ new.front[-1] = end
    <3>1. found \in EditPaths
        BY <2>7 DEF Diagonal
    <3>2. /\ first.path \in [Directions -> EditPaths] /\ first.front \in [Directions -> Points]
          /\ first.budget \in Int /\ 1 \in Directions /\ -1 \in Directions /\ 1 # -1
        BY <1>4 DEF SearchStates, Directions
    <3>3. /\ [first.path EXCEPT ![1] = found] \in [Directions -> EditPaths]
          /\ [first.front EXCEPT ![1] = end] \in [Directions -> Points]
          /\ first.budget - 0 \in Int
        BY <1>2, <3>1, <3>2
    <3>4. /\ [first.path EXCEPT ![1] = found][1] = found
          /\ [first.path EXCEPT ![1] = found][-1] = first.path[-1]
          /\ [first.front EXCEPT ![1] = end][1] = end
          /\ [first.front EXCEPT ![1] = end][-1] = first.front[-1]
        BY <3>2
    <3>5. /\ new \in SearchStates /\ new.d = first.d
          /\ new.path = [first.path EXCEPT ![1] = found]
          /\ new.front = [first.front EXCEPT ![1] = end]
      <4>. HIDE DEF start, end, here
      <4>. QED
          BY <1>4, <3>3 DEF SearchStates
    <3>. HIDE DEF new, start, end, here
    <3>. QED
        BY <1>3, <3>4, <3>5, Zenon
  <2>. HIDE DEF new
  <2>. DEFINE next == Advance(new)
              further == [end EXCEPT !.x = @ + 1]
  <2>10. next = [new EXCEPT !.front = [@ EXCEPT ![1] = further], !.d = -@]
    <3>1. new.path[-new.d] = here(end)
      <4>1. -new.d = -1
          BY <2>9
      <4>. QED
          BY <2>9, <4>1, Zenon
    <3>2. 1 * (here(end).x - end.x) >= 1 * (here(end).y - end.y)
        OBVIOUS
    <3>. HIDE DEF start, end, here
    <3>. QED
        BY <2>9, <3>1, <3>2 DEF Advance
  <2>11. further \in Points /\ further.x = n + 1
      BY DEF Points
  <2>12. /\ next \in SearchStates /\ next.path = new.path
         /\ next.front[1].x = n + 1 /\ next.front[-1].x = n
    <3>1. /\ new.front \in [Directions -> Points] /\ 1 \in Directions /\ -1 \in Directions
          /\ 1 # -1 /\ -new.d \in Directions
        BY <2>9 DEF SearchStates, Directions
    <3>. HIDE DEF further
    <3>2. /\ [new.front EXCEPT ![1] = further] \in [Directions -> Points]
          /\ [new.front EXCEPT ![1] = further][1] = further
          /\ [new.front EXCEPT ![1] = further][-1] = new.front[-1]
        BY <2>11, <3>1
    <3>3. /\ next \in SearchStates /\ next.path = new.path
          /\ next.front = [new.front EXCEPT ![1] = further]
        BY <2>9, <2>10, <3>1, <3>2 DEF SearchStates
    <3>. HIDE DEF next
    <3>. QED
        BY <2>9, <2>11, <3>2, <3>3
  <2>13. turn[first] = next
    <3>1. Turn(f, first) = Advance(FindMatch(f, first))
      <4>1. ~(first.front[1].x >= first.front[-1].x) /\ ~(first.front[1].y >= first.front[-1].y)
            /\ first.budget # 0
          BY <1>3, <1>5
      <4>. QED
          BY <4>1 DEF Turn
    <3>. QED
        BY <1>4, <2>8, <3>1
  <2>. HIDE DEF next
  <2>. QED
      BY <2>7, <2>9, <2>12, <2>13
<1>6. ASSUME NEW t \in Ended PROVE turn[t] \in Ended
    BY DEF Turn
<1>7. CASE n = 0
  <2>1. s = first
      BY <1>7, NoTurns
  <2>2. Connect(f, here(start), 1, here(end)) = here(start)
      BY <1>2, <1>7, ConnectHere
  <2>3. Difference(n, n, f) = here(start).es \o here(end).es
    <3>. HIDE DEF s, here, start, end
    <3>. QED
        BY <1>1, <1>3, <2>1, <2>2, Zenon
  <2>4. here(start).es = << >> /\ here(end).es = << >>
      OBVIOUS
  <2>5. << >> \o << >> \in Seq({"identity"})
      OBVIOUS
  <2>. QED
      BY <2>3, <2>4, <2>5, Zenon
<1>8. CASE n > 0
  <2>1. s \in Ended
    <3>. DEFINE J == [k \in 0 .. n + n |-> IF k = 0 THEN {first} ELSE Ended]
    <3>1. /\ n + n \in Nat /\ n + n # 0
          /\ \A k \in 1 .. n + n : k \in 0 .. n + n /\ k - 1 \in 0 .. n + n /\ k # 0
        BY <1>8
    <3>2. \A k \in 0 .. n + n : J[k] = IF k = 0 THEN {first} ELSE Ended
        OBVIOUS
    <3>. HIDE DEF J, turn, Ended
    <3>3. first \in J[0] /\ J[n + n] = Ended
        BY <3>1, <3>2
    <3>4. \A k \in 1 .. n + n : \A t \in J[k - 1] : turn[t] \in J[k]
        BY <1>5, <1>6, <1>8, <3>1, <3>2
    <3>5. Loop(turn, first, n + n) \in J[n + n]
        BY <3>1, <3>3, <3>4, LoopCounts
    <3>. QED
        BY <3>3, <3>5
  <2>. HIDE DEF s
  <2>2. /\ s.path[1] \in EditPaths /\ s.path[1].x = n /\ s.path[1].y = n
        /\ s.path[1].es \in Seq({"identity"})
        /\ s.path[-1] = here(end)
      BY <2>1 DEF Diagonal
  <2>3. Connect(f, s.path[1], 1, s.path[-1]) = s.path[1]
      BY <2>2, ConnectHere
  <2>4. Difference(n, n, f) = s.path[1].es \o << >>
      BY <1>1, <2>2, <2>3
  <2>. QED
      BY <2>2, <2>4
<1>. QED
    BY <1>7, <1>8

\* Nothing differs between two values.
AllEq(x, y) == \A e \in ToSet(Reports(x, y)) : e.eq

\* The edit script of two lists, and the positions in both after n edits.
EditsOf(x, y) == Script(AllReports, x, y)
InX(x, y, n) == Consumed(EditsOf(x, y), n, "uniqueY")
InY(x, y, n) == Consumed(EditsOf(x, y), n, "uniqueX")

\* What is reported of two objects is what is reported of their fields.
LEMMA FieldReports ==
    ASSUME NEW x \in JSON, NEW y \in JSON, DOMAIN x = {"obj"}, DOMAIN y = {"obj"}, NEW e
    PROVE  e \in ToSet(Reports(x, y)) <=>
               \E k \in DOMAIN x.obj \cup DOMAIN y.obj :
                   \/ k \notin DOMAIN y.obj /\ e = Report(FALSE, "expected", FALSE)
                   \/ k \notin DOMAIN x.obj /\ e = Report(FALSE, "actual", FALSE)
                   \/ /\ k \in DOMAIN x.obj /\ k \in DOMAIN y.obj
                      /\ e \in ToSet(Reports(x.obj[k], y.obj[k]))
<1>1. e \in ToSet(Reports(x, y)) <=>
          \E k \in DOMAIN x.obj \cup DOMAIN y.obj : e \in ToSet(ofField(AllReports, x, y, k))
    BY ObjectReports
<1>2. \A u : e \in ToSet(<<u>>) <=> e = u
    BY DEF ToSet
<1>3. ASSUME NEW k \in DOMAIN x.obj \cup DOMAIN y.obj
      PROVE  e \in ToSet(ofField(AllReports, x, y, k)) <=>
                   \/ k \notin DOMAIN y.obj /\ e = Report(FALSE, "expected", FALSE)
                   \/ k \notin DOMAIN x.obj /\ e = Report(FALSE, "actual", FALSE)
                   \/ /\ k \in DOMAIN x.obj /\ k \in DOMAIN y.obj
                      /\ e \in ToSet(Reports(x.obj[k], y.obj[k]))
  <2>1. CASE k \notin DOMAIN y.obj
    <3>1. ofField(AllReports, x, y, k) = <<Report(FALSE, "expected", FALSE)>>
        BY <2>1 DEF ofField
    <3>2. k \in DOMAIN x.obj
        BY <2>1
    <3>. QED
        BY <1>2, <2>1, <3>1, <3>2, Zenon
  <2>2. CASE k \in DOMAIN y.obj /\ k \notin DOMAIN x.obj
    <3>1. ofField(AllReports, x, y, k) = <<Report(FALSE, "actual", FALSE)>>
        BY <2>2 DEF ofField
    <3>. QED
        BY <1>2, <2>2, <3>1, Zenon
  <2>3. CASE k \in DOMAIN y.obj /\ k \in DOMAIN x.obj
    <3>1. ofField(AllReports, x, y, k) = AllReports[<<x.obj[k], y.obj[k]>>]
        BY <2>3 DEF ofField
    <3>2. x.obj[k] \in JSON /\ y.obj[k] \in JSON
        BY <2>3, ValueKinds
    <3>3. AllReports[<<x.obj[k], y.obj[k]>>] = Reports(x.obj[k], y.obj[k])
        BY <3>2, ReportsFacts
    <3>. QED
        BY <2>3, <3>1, <3>3, Zenon
  <2>. QED
      BY <2>1, <2>2, <2>3
<1>. QED
    BY <1>1, <1>3, Zenon

\* Each edit is at a pair of positions there are, in the order of both lists, and the
\* elements it calls identical have equal reports only.
LEMMA ScriptFacts ==
    ASSUME NEW x \in JSON, NEW y \in JSON, DOMAIN x = {"list"}, DOMAIN y = {"list"},
           NEW n \in 1 .. Len(EditsOf(x, y))
    PROVE  /\ EditsOf(x, y)[n] \in Edits
           /\ EditsOf(x, y)[n] # "uniqueY" =>
                  InX(x, y, n) \in 1 .. Len(x.list) /\ InX(x, y, n) = InX(x, y, n - 1) + 1
           /\ EditsOf(x, y)[n] # "uniqueX" =>
                  InY(x, y, n) \in 1 .. Len(y.list) /\ InY(x, y, n) = InY(x, y, n - 1) + 1
           /\ EditsOf(x, y)[n] = "identity" => AllEq(x.list[InX(x, y, n)], y.list[InY(x, y, n)])
<1>. DEFINE es == EditsOf(x, y)
            nx == Len(x.list)
            ny == Len(y.list)
            a == InX(x, y, n)
            b == InY(x, y, n)
            f == Results(AllReports, x, y)
<1>1. /\ nx \in Nat /\ ny \in Nat /\ DOMAIN x.list = 1 .. nx /\ DOMAIN y.list = 1 .. ny
      /\ \A k \in 1 .. nx : x.list[k] \in JSON
      /\ \A k \in 1 .. ny : y.list[k] \in JSON
    BY ValueKinds
<1>2. Leads(f, es, 0, 0, nx, ny)
    BY ScriptLeads DEF EditsOf
<1>3. /\ es[n] \in Edits
      /\ es[n] # "uniqueY" => a \in 1 .. nx /\ a = InX(x, y, n - 1) + 1
      /\ es[n] # "uniqueX" => b \in 1 .. ny /\ b = InY(x, y, n - 1) + 1
      /\ es[n] = "identity" => Equal(f[<<a, b>>])
  <2>1. n \in 1 .. Len(es) /\ nx \in Nat /\ ny \in Nat
      BY <1>1
  <2>2. /\ a = Consumed(es, n, "uniqueY") /\ InX(x, y, n - 1) = Consumed(es, n - 1, "uniqueY")
        /\ b = Consumed(es, n, "uniqueX") /\ InY(x, y, n - 1) = Consumed(es, n - 1, "uniqueX")
      BY DEF InX, InY
  <2>. HIDE DEF f, nx, ny, es, a, b
  <2>3. InPlace(f, es, nx, ny, n)
      BY <1>2, <2>1, PositionsInRange
  <2>. QED
      BY <2>2, <2>3, Zenon DEF InPlace
<1>4. ASSUME es[n] = "identity" PROVE AllEq(x.list[a], y.list[b])
  <2>1. a \in 1 .. nx /\ b \in 1 .. ny
      BY <1>3, <1>4
  <2>. HIDE DEF a, b
  <2>2. f[<<a, b>>] = Result(AllReports[<<x.list[a], y.list[b]>>])
    <3>1. <<a, b>> \in (DOMAIN x.list) \X (DOMAIN y.list) /\ <<a, b>>[1] = a /\ <<a, b>>[2] = b
        BY <1>1, <2>1
    <3>. QED
        BY <3>1 DEF Results
  <2>3. x.list[a] \in JSON /\ y.list[b] \in JSON
      BY <1>1, <2>1
  <2>4. /\ AllReports[<<x.list[a], y.list[b]>>] = Reports(x.list[a], y.list[b])
        /\ Reports(x.list[a], y.list[b]) \in Seq(AnyReport)
      BY <2>3, ReportsFacts
  <2>5. Equal(Result(Reports(x.list[a], y.list[b])))
      BY <1>3, <1>4, <2>2, <2>4 DEF a, b
  <2>. QED
      BY <2>4, <2>5, EqualResult DEF AllEq
<1>. QED
    BY <1>3, <1>4

\* What is reported of two lists is what is reported of their edits.
LEMMA EditReports ==
    ASSUME NEW x \in JSON, NEW y \in JSON, DOMAIN x = {"list"}, DOMAIN y = {"list"}, NEW e
    PROVE  e \in ToSet(Reports(x, y)) <=>
               \E n \in 1 .. Len(EditsOf(x, y)) :
                   \/ EditsOf(x, y)[n] = "uniqueX" /\ e = Report(FALSE, "expected", FALSE)
                   \/ EditsOf(x, y)[n] = "uniqueY" /\ e = Report(FALSE, "actual", FALSE)
                   \/ /\ EditsOf(x, y)[n] = "identity"
                      /\ e = Report(TRUE, "both", InX(x, y, n) # InY(x, y, n))
                   \/ /\ EditsOf(x, y)[n] = "modified"
                      /\ e \in ToSet(Reports(x.list[InX(x, y, n)], y.list[InY(x, y, n)]))
<1>. DEFINE es == EditsOf(x, y)
            nx == Len(x.list)
            ny == Len(y.list)
<1>1. e \in ToSet(Reports(x, y)) <=>
          \E n \in 1 .. Len(es) : e \in ToSet(replay(AllReports, x, y, es, n))
    BY ListReports, Zenon DEF EditsOf
<1>2. \A u : e \in ToSet(<<u>>) <=> e = u
    BY DEF ToSet
<1>3. /\ nx \in Nat /\ ny \in Nat
      /\ \A k \in 1 .. nx : x.list[k] \in JSON
      /\ \A k \in 1 .. ny : y.list[k] \in JSON
    BY ValueKinds
<1>4. ASSUME NEW n \in 1 .. Len(es)
      PROVE  e \in ToSet(replay(AllReports, x, y, es, n)) <=>
                   \/ es[n] = "uniqueX" /\ e = Report(FALSE, "expected", FALSE)
                   \/ es[n] = "uniqueY" /\ e = Report(FALSE, "actual", FALSE)
                   \/ es[n] = "identity" /\ e = Report(TRUE, "both", InX(x, y, n) # InY(x, y, n))
                   \/ /\ es[n] = "modified"
                      /\ e \in ToSet(Reports(x.list[InX(x, y, n)], y.list[InY(x, y, n)]))
  <2>. DEFINE a == InX(x, y, n)
              b == InY(x, y, n)
  <2>1. /\ es[n] \in Edits
        /\ es[n] # "uniqueY" => a \in 1 .. nx
        /\ es[n] # "uniqueX" => b \in 1 .. ny
      BY ScriptFacts
  <2>2. CASE es[n] = "uniqueX"
    <3>1. replay(AllReports, x, y, es, n) = <<Report(FALSE, "expected", FALSE)>>
        BY <2>2 DEF replay
    <3>. QED
        BY <1>2, <2>2, <3>1
  <2>3. CASE es[n] = "uniqueY"
    <3>1. replay(AllReports, x, y, es, n) = <<Report(FALSE, "actual", FALSE)>>
        BY <2>3 DEF replay
    <3>. QED
        BY <1>2, <2>3, <3>1
  <2>4. CASE es[n] = "identity"
    <3>1. replay(AllReports, x, y, es, n) = <<Report(TRUE, "both", a # b)>>
        BY <2>4 DEF replay, InX, InY
    <3>. QED
        BY <1>2, <2>4, <3>1
  <2>5. CASE es[n] = "modified"
    <3>1. replay(AllReports, x, y, es, n) = AllReports[<<x.list[a], y.list[b]>>]
        BY <2>5 DEF replay, InX, InY
    <3>. HIDE DEF a, b, es
    <3>2. x.list[a] \in JSON /\ y.list[b] \in JSON
        BY <1>3, <2>1, <2>5
    <3>3. AllReports[<<x.list[a], y.list[b]>>] = Reports(x.list[a], y.list[b])
        BY <3>2, ReportsFacts
    <3>4. e \in ToSet(replay(AllReports, x, y, es, n)) <=> e \in ToSet(Reports(x.list[a], y.list[b]))
        BY <3>1, <3>3, Zenon
    <3>. QED
        BY <2>5, <3>4 DEF a, b
  <2>. QED
      BY <2>1, <2>2, <2>3, <2>4, <2>5 DEF Edits
<1>. QED
    BY <1>1, <1>4, Zenon

\* What there is at an edit is reported.
LEMMA EditReported ==
    ASSUME NEW x \in JSON, NEW y \in JSON, DOMAIN x = {"list"}, DOMAIN y = {"list"},
           NEW n \in 1 .. Len(EditsOf(x, y))
    PROVE  /\ EditsOf(x, y)[n] = "uniqueX" => Report(FALSE, "expected", FALSE) \in ToSet(Reports(x, y))
           /\ EditsOf(x, y)[n] = "uniqueY" => Report(FALSE, "actual", FALSE) \in ToSet(Reports(x, y))
           /\ EditsOf(x, y)[n] = "modified" =>
                  ToSet(Reports(x.list[InX(x, y, n)], y.list[InY(x, y, n)])) \subseteq ToSet(Reports(x, y))
<1>1. ASSUME NEW e, EditsOf(x, y)[n] = "uniqueX", e = Report(FALSE, "expected", FALSE)
      PROVE  e \in ToSet(Reports(x, y))
    BY <1>1, EditReports, Zenon
<1>2. ASSUME NEW e, EditsOf(x, y)[n] = "uniqueY", e = Report(FALSE, "actual", FALSE)
      PROVE  e \in ToSet(Reports(x, y))
    BY <1>2, EditReports, Zenon
<1>3. ASSUME NEW e, EditsOf(x, y)[n] = "modified",
             e \in ToSet(Reports(x.list[InX(x, y, n)], y.list[InY(x, y, n)]))
      PROVE  e \in ToSet(Reports(x, y))
    BY <1>3, EditReports, Zenon
<1>. QED
    BY <1>1, <1>2, <1>3, Zenon

\* Values of which every report is equal are equal.
LEMMA AllEqIsEqual ==
    \A x, y \in JSON : AllEq(x, y) => x = y
<1>. DEFINE S == {x \in JSON : \A y \in JSON : AllEq(x, y) => x = y}
<1>1. ASSUME NEW x \in JSON, \A u \in JSON : Depth[u] < Depth[x] => u \in S,
             NEW y \in JSON, AllEq(x, y)
      PROVE  x = y
  <2>1. \A eq, side, shifted : Report(eq, side, shifted).eq = eq
      BY DEF Report
  <2>2. \A u, w \in JSON : Depth[u] < Depth[x] /\ AllEq(u, w) => u = w
      BY <1>1
  <2>3. \A side, shifted : Report(FALSE, side, shifted) \notin ToSet(Reports(x, y))
      BY <1>1, <2>1 DEF AllEq
  <2>4. DOMAIN x = DOMAIN y
    <3>1. DOMAIN x # DOMAIN y => Report(FALSE, "both", FALSE) \in ToSet(Reports(x, y))
        BY KindReport
    <3>. QED
        BY <2>3, <3>1, Zenon
  <2>. HIDE DEF S
  <2>5. CASE DOMAIN x = {"obj"}
    <3>1. /\ x = [obj |-> x.obj] /\ y = [obj |-> y.obj]
          /\ x.obj \in [DOMAIN x.obj -> JSON] /\ y.obj \in [DOMAIN y.obj -> JSON]
          /\ \A k \in DOMAIN x.obj : x.obj[k] \in JSON /\ Depth[x.obj[k]] < Depth[x]
          /\ \A k \in DOMAIN y.obj : y.obj[k] \in JSON
        BY <2>4, <2>5, ValueKinds
    <3>2. ASSUME NEW k \in DOMAIN x.obj \cup DOMAIN y.obj
          PROVE  k \in DOMAIN x.obj /\ k \in DOMAIN y.obj /\ x.obj[k] = y.obj[k]
      <4>1. k \in DOMAIN y.obj
          BY <2>3, <2>4, <2>5, <3>2, FieldReports, Zenon
      <4>2. k \in DOMAIN x.obj
          BY <2>3, <2>4, <2>5, <3>2, FieldReports, Zenon
      <4>3. ToSet(Reports(x.obj[k], y.obj[k])) \subseteq ToSet(Reports(x, y))
          BY <2>4, <2>5, <3>2, <4>1, <4>2, FieldReports, Zenon
      <4>4. AllEq(x.obj[k], y.obj[k])
          BY <1>1, <4>3 DEF AllEq
      <4>. QED
          BY <2>2, <3>1, <4>1, <4>2, <4>4
    <3>3. x.obj = y.obj
        BY <3>1, <3>2
    <3>. QED
        BY <3>1, <3>3, Zenon
  <2>6. CASE DOMAIN x = {"list"}
    <3>. DEFINE es == EditsOf(x, y)
                nx == Len(x.list)
                ny == Len(y.list)
    <3>1. /\ x = [list |-> x.list] /\ y = [list |-> y.list]
          /\ x.list \in Seq(JSON) /\ y.list \in Seq(JSON)
          /\ nx \in Nat /\ ny \in Nat /\ DOMAIN x.list = 1 .. nx /\ DOMAIN y.list = 1 .. ny
          /\ \A n \in 1 .. nx : x.list[n] \in JSON /\ Depth[x.list[n]] < Depth[x]
          /\ \A n \in 1 .. ny : y.list[n] \in JSON
      <4>1. DOMAIN y = {"list"}
          BY <2>4, <2>6
      <4>2. x = [list |-> x.list] /\ y = [list |-> y.list]
          BY <2>6, <4>1, ValueKinds, Zenon
      <4>3. /\ x.list \in Seq(JSON) /\ y.list \in Seq(JSON)
            /\ \A n \in DOMAIN x.list : x.list[n] \in JSON /\ Depth[x.list[n]] < Depth[x]
            /\ \A n \in DOMAIN y.list : y.list[n] \in JSON
          BY <2>6, <4>1, ValueKinds, Zenon
      <4>. QED
          BY <4>2, <4>3
    <3>2. DOMAIN y = {"list"}
        BY <2>4, <2>6
    <3>3. Leads(Results(AllReports, x, y), es, 0, 0, nx, ny)
        BY <2>6, <3>2, ScriptLeads DEF EditsOf
    <3>. HIDE DEF es, nx, ny
    <3>4. /\ Len(es) \in Nat /\ nx = 0 + Consumed(es, Len(es), "uniqueY")
          /\ ny = 0 + Consumed(es, Len(es), "uniqueX")
        BY <3>3 DEF Leads
    <3>5. ASSUME NEW n \in 1 .. Len(es)
          PROVE  es[n] # "uniqueX" /\ es[n] # "uniqueY"
      <4>1. n \in 1 .. Len(EditsOf(x, y)) /\ es[n] = EditsOf(x, y)[n]
          BY DEF es
      <4>2. es[n] = "uniqueX" => Report(FALSE, "expected", FALSE) \in ToSet(Reports(x, y))
          BY <2>6, <3>2, <4>1, EditReported, Zenon
      <4>3. es[n] = "uniqueY" => Report(FALSE, "actual", FALSE) \in ToSet(Reports(x, y))
          BY <2>6, <3>2, <4>1, EditReported, Zenon
      <4>. QED
          BY <2>3, <4>2, <4>3, Zenon
    <3>6. \A n \in 0 .. Len(es) : /\ Consumed(es, n, "uniqueY") = n
                                  /\ Consumed(es, n, "uniqueX") = n
      <4>1. ASSUME NEW n \in 0 .. Len(es)
            PROVE  Consumed(es, n, "uniqueY") = n /\ Consumed(es, n, "uniqueX") = n
        <5>1. n \in Nat /\ \A m \in 1 .. n : m \in 1 .. Len(es)
            BY <3>4
        <5>. QED
            BY <3>5, <5>1, ConsumedAll
      <4>. QED
          BY <4>1
    <3>7. nx = Len(es) /\ ny = Len(es)
      <4>1. Len(es) \in 0 .. Len(es)
          BY <3>4
      <4>. QED
          BY <3>4, <3>6, <4>1
    <3>8. ASSUME NEW n \in 1 .. nx PROVE x.list[n] = y.list[n]
      <4>1. n \in 1 .. Len(es) /\ n \in 0 .. Len(es)
          BY <3>4, <3>7
      <4>2. InX(x, y, n) = n /\ InY(x, y, n) = n
          BY <3>6, <4>1 DEF InX, InY, es
      <4>3. /\ es[n] \in Edits
            /\ es[n] = "identity" => AllEq(x.list[n], y.list[n])
        <5>1. n \in 1 .. Len(EditsOf(x, y))
            BY <4>1 DEF es
        <5>. QED
            BY <2>6, <3>2, <4>2, <5>1, ScriptFacts, Zenon DEF es
      <4>4. es[n] = "modified" => AllEq(x.list[n], y.list[n])
        <5>1. ASSUME es[n] = "modified"
              PROVE  ToSet(Reports(x.list[n], y.list[n])) \subseteq ToSet(Reports(x, y))
          <6>1. n \in 1 .. Len(EditsOf(x, y)) /\ EditsOf(x, y)[n] = "modified"
              BY <4>1, <5>1 DEF es
          <6>. QED
              BY <2>6, <3>2, <4>2, <6>1, EditReported, Zenon
        <5>. QED
            BY <1>1, <5>1 DEF AllEq
      <4>5. AllEq(x.list[n], y.list[n])
          BY <3>5, <4>1, <4>3, <4>4 DEF Edits
      <4>. QED
          BY <2>2, <3>1, <3>7, <4>5
    <3>9. x.list = y.list
        BY <3>1, <3>7, <3>8
    <3>. QED
        BY <3>1, <3>9, Zenon
  <2>7. CASE IsPrimitive(x)
    <3>1. Report(x = y, "both", FALSE) \in ToSet(Reports(x, y))
        BY <2>4, <2>7, PrimitiveReport
    <3>2. Report(x = y, "both", FALSE).eq
        BY <1>1, <3>1 DEF AllEq
    <3>. QED
        BY <2>1, <3>2
  <2>. QED
      BY <2>5, <2>6, <2>7 DEF IsPrimitive
<1>2. \A x \in JSON : (\A u \in JSON : Depth[u] < Depth[x] => u \in S) => x \in S
    BY <1>1
<1>3. \A x \in JSON : Depth[x] \in Nat
    BY ValueKinds
<1>4. JSON \subseteq S
  <2>. HIDE DEF S
  <2>. QED
      BY <1>2, <1>3, Ranks
<1>. QED
    BY <1>4

\* Of equal values every report is of an equal element at the same position.
LEMMA EqualIsAllEq ==
    \A x \in JSON : \A e \in ToSet(Reports(x, x)) : e = Report(TRUE, "both", FALSE)
<1>. DEFINE S == {x \in JSON : \A e \in ToSet(Reports(x, x)) : e = Report(TRUE, "both", FALSE)}
<1>1. ASSUME NEW x \in JSON, \A u \in JSON : Depth[u] < Depth[x] => u \in S,
             NEW e \in ToSet(Reports(x, x))
      PROVE  e = Report(TRUE, "both", FALSE)
  <2>1. \A u \in JSON : Depth[u] < Depth[x] =>
            \A c \in ToSet(Reports(u, u)) : c = Report(TRUE, "both", FALSE)
      BY <1>1
  <2>. HIDE DEF S
  <2>2. CASE DOMAIN x = {"obj"}
    <3>1. \A k \in DOMAIN x.obj : x.obj[k] \in JSON /\ Depth[x.obj[k]] < Depth[x]
        BY <2>2, ValueKinds
    <3>2. PICK k \in DOMAIN x.obj : e \in ToSet(Reports(x.obj[k], x.obj[k]))
        BY <1>1, <2>2, FieldReports, Zenon
    <3>. QED
        BY <2>1, <3>1, <3>2, Zenon
  <2>3. CASE DOMAIN x = {"list"}
    <3>. DEFINE es == EditsOf(x, x)
                nx == Len(x.list)
                f == Results(AllReports, x, x)
    <3>1. /\ nx \in Nat /\ DOMAIN x.list = 1 .. nx
          /\ \A n \in 1 .. nx : x.list[n] \in JSON /\ Depth[x.list[n]] < Depth[x]
        BY <2>3, ValueKinds
    <3>2. ASSUME NEW k \in 1 .. nx PROVE Equal(f[<<k, k>>])
      <4>1. f[<<k, k>>] = Result(AllReports[<<x.list[k], x.list[k]>>])
        <5>1. <<k, k>> \in (DOMAIN x.list) \X (DOMAIN x.list) /\ <<k, k>>[1] = k /\ <<k, k>>[2] = k
            BY <3>1
        <5>. QED
            BY <5>1 DEF Results
      <4>2. /\ AllReports[<<x.list[k], x.list[k]>>] = Reports(x.list[k], x.list[k])
            /\ Reports(x.list[k], x.list[k]) \in Seq(AnyReport)
          BY <3>1, ReportsFacts
      <4>3. \A c \in ToSet(Reports(x.list[k], x.list[k])) : c.eq
        <5>1. Report(TRUE, "both", FALSE).eq
            BY DEF Report
        <5>. QED
            BY <2>1, <3>1, <5>1
      <4>. HIDE DEF f
      <4>. QED
          BY <4>1, <4>2, <4>3, EqualResult
    <3>3. es = Difference(nx, nx, f)
        BY DEF EditsOf, Script, Results
    <3>4. es \in Seq({"identity"})
      <4>. HIDE DEF es, f, nx
      <4>. QED
          BY <3>1, <3>2, <3>3, DifferenceOfEqual
    <3>5. \A n \in 1 .. Len(es) : es[n] = "identity"
        BY <3>4
    <3>6. PICK n \in 1 .. Len(es) : e = Report(TRUE, "both", InX(x, x, n) # InY(x, x, n))
      <4>1. \A n \in 1 .. Len(EditsOf(x, x)) : EditsOf(x, x)[n] = "identity"
          BY <3>5
      <4>2. "identity" # "uniqueX" /\ "identity" # "uniqueY" /\ "identity" # "modified"
          OBVIOUS
      <4>. QED
          BY <1>1, <2>3, <4>1, <4>2, EditReports, Zenon
    <3>7. InX(x, x, n) = n /\ InY(x, x, n) = n
      <4>1. n \in Nat /\ \A m \in 1 .. n : es[m] # "uniqueX" /\ es[m] # "uniqueY"
        <5>1. Len(es) \in Nat
            BY <3>4
        <5>. HIDE DEF es
        <5>. QED
            BY <3>5, <5>1
      <4>. QED
          BY <4>1, ConsumedAll DEF InX, InY
    <3>8. (InX(x, x, n) # InY(x, x, n)) = FALSE
        BY <3>7
    <3>. QED
        BY <3>6, <3>8, Zenon
  <2>4. CASE IsPrimitive(x)
    <3>1. e = Report(x = x, "both", FALSE)
        BY <1>1, <2>4, PrimitiveReport
    <3>2. (x = x) = TRUE
        OBVIOUS
    <3>. QED
        BY <3>1, <3>2
  <2>. QED
      BY <2>2, <2>3, <2>4 DEF IsPrimitive
<1>2. \A x \in JSON : (\A u \in JSON : Depth[u] < Depth[x] => u \in S) => x \in S
    BY <1>1
<1>3. \A x \in JSON : Depth[x] \in Nat
    BY ValueKinds
<1>4. JSON \subseteq S
  <2>. HIDE DEF S
  <2>. QED
      BY <1>2, <1>3, Ranks
<1>. QED
    BY <1>4

\* What meets an exact body: an equal one.
LEMMA MetExactly ==
    ASSUME NEW x \in JSON, NEW y \in JSON
    PROVE  Met(x, y, TRUE) <=> x = y
<1>1. ASSUME Met(x, y, TRUE) PROVE x = y
  <2>1. AllEq(x, y)
      BY <1>1 DEF Met, Recorded, AllEq
  <2>. QED
      BY <2>1, AllEqIsEqual
<1>2. ASSUME x = y PROVE Met(x, y, TRUE)
  <2>1. ~Recorded(Report(TRUE, "both", FALSE), TRUE)
      BY DEF Recorded, Report
  <2>2. \A e \in ToSet(Reports(x, y)) : e = Report(TRUE, "both", FALSE)
      BY <1>2, EqualIsAllEq
  <2>. QED
      BY <2>1, <2>2, Zenon DEF Met
<1>. QED
    BY <1>1, <1>2

-----------------------------------------------------------------------------
(* Embeds and HasList *)

\* Whether a value has all of another depends on values of less depth.
LEMMA EmbedsLocal ==
    ASSUME NEW e, NEW g, NEW x \in JSON, NEW y \in JSON,
           \A z \in JSON \X JSON : Depth[z[1]] < Depth[x] => e[z] = g[z]
    PROVE  embedsFrom(e, x, y) \in BOOLEAN /\ embedsFrom(e, x, y) = embedsFrom(g, x, y)
<1>1. ASSUME NEW a \in JSON, NEW b \in JSON, Depth[a] < Depth[x]
      PROVE  e[<<a, b>>] = g[<<a, b>>]
  <2>1. <<a, b>> \in JSON \X JSON /\ <<a, b>>[1] = a
      OBVIOUS
  <2>. QED
      BY <1>1, <2>1
<1>2. CASE DOMAIN x # DOMAIN y
  <2>1. embedsFrom(e, x, y) = FALSE /\ embedsFrom(g, x, y) = FALSE
      BY <1>2, Zenon DEF embedsFrom
  <2>. QED
      BY <2>1
<1>3. CASE DOMAIN x = {"obj"} /\ DOMAIN y = {"obj"}
  <2>. DEFINE Fits(h) == \A k \in DOMAIN x.obj : k \in DOMAIN y.obj /\ h[<<x.obj[k], y.obj[k]>>]
  <2>1. embedsFrom(e, x, y) = Fits(e) /\ embedsFrom(g, x, y) = Fits(g)
      BY <1>3, Zenon DEF embedsFrom
  <2>2. ASSUME NEW k \in DOMAIN x.obj, k \in DOMAIN y.obj
        PROVE  e[<<x.obj[k], y.obj[k]>>] = g[<<x.obj[k], y.obj[k]>>]
    <3>1. x.obj[k] \in JSON /\ Depth[x.obj[k]] < Depth[x] /\ y.obj[k] \in JSON
        BY <1>3, <2>2, ValueKinds
    <3>. QED
        BY <1>1, <3>1
  <2>3. Fits(e) \in BOOLEAN /\ Fits(e) = Fits(g)
    <3>1. Fits(e) <=> Fits(g)
        BY <2>2, Zenon
    <3>2. Fits(e) \in BOOLEAN /\ Fits(g) \in BOOLEAN
        BY Zenon
    <3>. HIDE DEF Fits
    <3>. QED
        BY <3>1, <3>2
  <2>. QED
      BY <2>1, <2>3, Zenon
<1>4. CASE DOMAIN x = {"list"} /\ DOMAIN y = {"list"}
  <2>. DEFINE Fits(h) == \E at \in [DOMAIN x.list -> DOMAIN y.list] :
                             \A n \in DOMAIN x.list :
                                 /\ h[<<x.list[n], y.list[at[n]]>>]
                                 /\ n > 1 => at[n - 1] < at[n]
  <2>1. embedsFrom(e, x, y) = Fits(e) /\ embedsFrom(g, x, y) = Fits(g)
    <3>1. DOMAIN x = DOMAIN y /\ DOMAIN x # {"obj"} /\ DOMAIN x = {"list"}
        BY <1>4
    <3>. QED
        BY <3>1, Zenon DEF embedsFrom
  <2>2. ASSUME NEW n \in DOMAIN x.list, NEW m \in DOMAIN y.list
        PROVE  e[<<x.list[n], y.list[m]>>] = g[<<x.list[n], y.list[m]>>]
    <3>1. x.list[n] \in JSON /\ Depth[x.list[n]] < Depth[x] /\ y.list[m] \in JSON
        BY <1>4, ValueKinds
    <3>. QED
        BY <1>1, <3>1
  <2>3. ASSUME NEW at \in [DOMAIN x.list -> DOMAIN y.list], NEW n \in DOMAIN x.list
        PROVE  e[<<x.list[n], y.list[at[n]]>>] = g[<<x.list[n], y.list[at[n]]>>]
    <3>1. at[n] \in DOMAIN y.list
        OBVIOUS
    <3>. QED
        BY <2>2, <3>1
  <2>4. Fits(e) \in BOOLEAN /\ Fits(e) = Fits(g)
    <3>1. Fits(e) <=> Fits(g)
        BY <2>3, Zenon
    <3>2. Fits(e) \in BOOLEAN /\ Fits(g) \in BOOLEAN
        BY Zenon
    <3>. HIDE DEF Fits
    <3>. QED
        BY <3>1, <3>2
  <2>. QED
      BY <2>1, <2>4, Zenon
<1>5. CASE DOMAIN x = DOMAIN y /\ DOMAIN x # {"obj"} /\ DOMAIN x # {"list"}
  <2>1. embedsFrom(e, x, y) = (x = y) /\ embedsFrom(g, x, y) = (x = y)
      BY <1>5, Zenon DEF embedsFrom
  <2>. QED
      BY <2>1
<1>. QED
    BY <1>2, <1>3, <1>4, <1>5

\* The solution of the recursion of Embeds.
AllEmbeds == CHOOSE e : e = [z \in JSON \X JSON |-> embedsFrom(e, z[1], z[2])]

\* The recursion of Embeds has a solution, which is unfolded here once.
LEMMA EmbedsFacts ==
    \A x, y \in JSON : /\ AllEmbeds[<<x, y>>] = Embeds(x, y)
                       /\ Embeds(x, y) = embedsFrom(AllEmbeds, x, y)
<1>. DEFINE D == JSON \X JSON
            rank == [z \in D |-> Depth[z[1]]]
            G == [f \in [D -> BOOLEAN] |-> [z \in D |-> embedsFrom(f, z[1], z[2])]]
<1>1. \A z \in D : rank[z] \in 0 .. MaxDepth /\ rank[z] = Depth[z[1]] /\ z[1] \in JSON /\ z[2] \in JSON
    BY ValueKinds
<1>2. \E f \in [D -> BOOLEAN] : f = G[f]
  <2>1. ASSUME NEW f \in [D -> BOOLEAN], NEW z \in D PROVE embedsFrom(f, z[1], z[2]) \in BOOLEAN
    <3>1. \A u \in JSON \X JSON : Depth[u[1]] < Depth[z[1]] => f[u] = f[u]
        OBVIOUS
    <3>. QED
        BY <1>1, <3>1, EmbedsLocal
  <2>2. \A f \in [D -> BOOLEAN] : G[f] \in [D -> BOOLEAN]
      BY <2>1
  <2>3. ASSUME NEW f \in [D -> BOOLEAN], NEW g \in [D -> BOOLEAN], NEW z \in D,
               \A u \in D : rank[u] < rank[z] => f[u] = g[u]
        PROVE  G[f][z] = G[g][z]
    <3>1. \A u \in JSON \X JSON : Depth[u[1]] < Depth[z[1]] => f[u] = g[u]
        BY <1>1, <2>3
    <3>2. embedsFrom(f, z[1], z[2]) = embedsFrom(g, z[1], z[2])
        BY <1>1, <3>1, EmbedsLocal
    <3>3. G[f][z] = embedsFrom(f, z[1], z[2]) /\ G[g][z] = embedsFrom(g, z[1], z[2])
        BY Zenon
    <3>. QED
        BY <3>2, <3>3, Zenon
  <2>4. MaxDepth \in Nat /\ \A z \in D : rank[z] \in 0 .. MaxDepth
      BY <1>1, JSONAssumption
  <2>. HIDE DEF D, G, rank
  <2>5. \A f, g \in [D -> BOOLEAN] : \A z \in D :
            (\A u \in D : rank[u] < rank[z] => f[u] = g[u]) => G[f][z] = G[g][z]
      BY <2>3
  <2>6. GoesDown(G, D, BOOLEAN, rank, MaxDepth)
      BY <2>2, <2>4, <2>5 DEF GoesDown
  <2>. QED
      BY <2>6, Recursion
<1>3. AllEmbeds = [z \in JSON \X JSON |-> embedsFrom(AllEmbeds, z[1], z[2])]
  <2>1. \E f : f = [z \in JSON \X JSON |-> embedsFrom(f, z[1], z[2])]
    <3>1. PICK f \in [D -> BOOLEAN] : f = G[f]
        BY <1>2
    <3>2. G[f] = [z \in D |-> embedsFrom(f, z[1], z[2])]
        BY Zenon
    <3>. QED
        BY <3>1, <3>2, Zenon
  <2>. QED
      BY <2>1, Zenon DEF AllEmbeds
<1>4. ASSUME NEW x \in JSON, NEW y \in JSON
      PROVE  AllEmbeds[<<x, y>>] = Embeds(x, y) /\ Embeds(x, y) = embedsFrom(AllEmbeds, x, y)
  <2>1. Embeds(x, y) = AllEmbeds[<<x, y>>]
      BY Zenon DEF Embeds, AllEmbeds
  <2>2. <<x, y>> \in JSON \X JSON /\ <<x, y>>[1] = x /\ <<x, y>>[2] = y
      OBVIOUS
  <2>3. AllEmbeds[<<x, y>>] = embedsFrom(AllEmbeds, <<x, y>>[1], <<x, y>>[2])
      BY <1>3, <2>2, Zenon
  <2>. QED
      BY <2>1, <2>2, <2>3, Zenon
<1>. QED
    BY <1>4

\* What it is to embed, for each kind of value.
LEMMA ObjectEmbeds ==
    ASSUME NEW x \in JSON, NEW y \in JSON, DOMAIN x = {"obj"}, DOMAIN y = {"obj"}
    PROVE  Embeds(x, y) <=>
               \A k \in DOMAIN x.obj : k \in DOMAIN y.obj /\ Embeds(x.obj[k], y.obj[k])
<1>1. Embeds(x, y) = embedsFrom(AllEmbeds, x, y)
    BY EmbedsFacts
<1>2. embedsFrom(AllEmbeds, x, y) <=>
          \A k \in DOMAIN x.obj : k \in DOMAIN y.obj /\ AllEmbeds[<<x.obj[k], y.obj[k]>>]
    BY Zenon DEF embedsFrom
<1>3. ASSUME NEW k \in DOMAIN x.obj, k \in DOMAIN y.obj
      PROVE  AllEmbeds[<<x.obj[k], y.obj[k]>>] = Embeds(x.obj[k], y.obj[k])
  <2>1. x.obj[k] \in JSON /\ y.obj[k] \in JSON
      BY <1>3, ValueKinds
  <2>. QED
      BY <2>1, EmbedsFacts
<1>. QED
    BY <1>1, <1>2, <1>3, Zenon

\* An increasing choice of elements is enough for a list.
LEMMA ListEmbeds ==
    ASSUME NEW x \in JSON, NEW y \in JSON, DOMAIN x = {"list"}, DOMAIN y = {"list"},
           NEW at \in [DOMAIN x.list -> DOMAIN y.list],
           \A n \in DOMAIN x.list : /\ Embeds(x.list[n], y.list[at[n]])
                                    /\ n > 1 => at[n - 1] < at[n]
    PROVE  Embeds(x, y)
<1>1. Embeds(x, y) = embedsFrom(AllEmbeds, x, y)
    BY EmbedsFacts
<1>2. ASSUME NEW n \in DOMAIN x.list PROVE AllEmbeds[<<x.list[n], y.list[at[n]]>>]
  <2>1. x.list[n] \in JSON /\ at[n] \in DOMAIN y.list
      BY ValueKinds
  <2>2. y.list[at[n]] \in JSON
      BY <2>1, ValueKinds
  <2>3. AllEmbeds[<<x.list[n], y.list[at[n]]>>] = Embeds(x.list[n], y.list[at[n]])
      BY <2>1, <2>2, EmbedsFacts
  <2>. QED
      BY <2>3, Zenon
<1>3. DOMAIN x = DOMAIN y /\ DOMAIN x # {"obj"}
    OBVIOUS
<1>4. embedsFrom(AllEmbeds, x, y)
    BY <1>2, <1>3, Zenon DEF embedsFrom
<1>. QED
    BY <1>1, <1>4, Zenon

\* Values of different kinds have nothing of each other, and primitive ones are equal.
LEMMA OtherEmbeds ==
    ASSUME NEW x \in JSON, NEW y \in JSON
    PROVE  /\ DOMAIN x # DOMAIN y => ~Embeds(x, y)
           /\ DOMAIN x = DOMAIN y /\ IsPrimitive(x) => (Embeds(x, y) <=> x = y)
<1>1. Embeds(x, y) = embedsFrom(AllEmbeds, x, y)
    BY EmbedsFacts
<1>2. DOMAIN x # DOMAIN y => ~embedsFrom(AllEmbeds, x, y)
    BY Zenon DEF embedsFrom
<1>3. ASSUME DOMAIN x = DOMAIN y, IsPrimitive(x)
      PROVE  embedsFrom(AllEmbeds, x, y) <=> x = y
  <2>1. DOMAIN x # {"obj"} /\ DOMAIN x # {"list"}
      BY <1>3 DEF IsPrimitive
  <2>. QED
      BY <1>3, <2>1, Zenon DEF embedsFrom
<1>. QED
    BY <1>1, <1>2, <1>3, Zenon

\* The solution of the recursion of HasList.
AllHasList == CHOOSE h : h = [v \in JSON |-> hasListFrom(h, v)]

\* A list is in a value if the value is one or has one in a field.
LEMMA HasListFacts ==
    ASSUME NEW x \in JSON
    PROVE  HasList(x) <=> DOMAIN x = {"list"} \/ \E k \in Fields(x) : HasList(x.obj[k])
<1>. DEFINE G == [f \in [JSON -> BOOLEAN] |-> [v \in JSON |-> hasListFrom(f, v)]]
<1>1. \A v \in JSON : /\ Depth[v] \in 0 .. MaxDepth
                      /\ \A k \in Fields(v) : v.obj[k] \in JSON /\ Depth[v.obj[k]] < Depth[v]
    BY ValueKinds DEF Fields
<1>2. \E f \in [JSON -> BOOLEAN] : f = G[f]
  <2>1. \A f, v : hasListFrom(f, v) \in BOOLEAN
      BY Zenon DEF hasListFrom
  <2>2. \A f \in [JSON -> BOOLEAN] : G[f] \in [JSON -> BOOLEAN]
      BY <2>1
  <2>3. ASSUME NEW f \in [JSON -> BOOLEAN], NEW g \in [JSON -> BOOLEAN], NEW v \in JSON,
               \A u \in JSON : Depth[u] < Depth[v] => f[u] = g[u]
        PROVE  G[f][v] = G[g][v]
    <3>1. \A k \in Fields(v) : f[v.obj[k]] = g[v.obj[k]]
        BY <1>1, <2>3
    <3>2. hasListFrom(f, v) <=> hasListFrom(g, v)
        BY <3>1, Zenon DEF hasListFrom
    <3>3. hasListFrom(f, v) = hasListFrom(g, v)
        BY <2>1, <3>2
    <3>4. G[f][v] = hasListFrom(f, v) /\ G[g][v] = hasListFrom(g, v)
        BY Zenon
    <3>. QED
        BY <3>3, <3>4, Zenon
  <2>4. MaxDepth \in Nat /\ \A v \in JSON : Depth[v] \in 0 .. MaxDepth
      BY <1>1, JSONAssumption
  <2>. HIDE DEF G
  <2>5. \A f, g \in [JSON -> BOOLEAN] : \A v \in JSON :
            (\A u \in JSON : Depth[u] < Depth[v] => f[u] = g[u]) => G[f][v] = G[g][v]
      BY <2>3
  <2>6. GoesDown(G, JSON, BOOLEAN, Depth, MaxDepth)
      BY <2>2, <2>4, <2>5 DEF GoesDown
  <2>. QED
      BY <2>6, Recursion
<1>3. AllHasList = [v \in JSON |-> hasListFrom(AllHasList, v)]
  <2>1. \E f : f = [v \in JSON |-> hasListFrom(f, v)]
    <3>1. PICK f \in [JSON -> BOOLEAN] : f = G[f]
        BY <1>2
    <3>2. G[f] = [v \in JSON |-> hasListFrom(f, v)]
        BY Zenon
    <3>. QED
        BY <3>1, <3>2, Zenon
  <2>. QED
      BY <2>1, Zenon DEF AllHasList
<1>4. \A v \in JSON : AllHasList[v] = hasListFrom(AllHasList, v)
    BY <1>3, Zenon
<1>5. \A v \in JSON : HasList(v) = AllHasList[v]
    BY Zenon DEF HasList, AllHasList
<1>6. HasList(x) <=> hasListFrom(AllHasList, x)
    BY <1>4, <1>5, Zenon
<1>. QED
    BY <1>1, <1>5, <1>6, Zenon DEF hasListFrom

-----------------------------------------------------------------------------
(* What meets a body in part *)

\* The edit that consumes an element of the expected list.
EditAt(x, y, n) ==
    CHOOSE m \in 1 .. Len(EditsOf(x, y)) : EditsOf(x, y)[m] # "uniqueY" /\ InX(x, y, m) = n

\* It is there, as the script covers the expected list.
LEMMA EditAtFacts ==
    ASSUME NEW x \in JSON, NEW y \in JSON, DOMAIN x = {"list"}, DOMAIN y = {"list"},
           NEW n \in 1 .. Len(x.list)
    PROVE  /\ EditAt(x, y, n) \in 1 .. Len(EditsOf(x, y))
           /\ EditsOf(x, y)[EditAt(x, y, n)] # "uniqueY"
           /\ InX(x, y, EditAt(x, y, n)) = n
<1>. DEFINE es == EditsOf(x, y)
            A(m) == Consumed(es, m, "uniqueY")
            T == {m \in 0 .. Len(es) : A(m) >= n}
<1>1. /\ es \in Seq(Edits) /\ Len(es) \in Nat /\ Len(x.list) = 0 + A(Len(es))
  <2>1. Leads(Results(AllReports, x, y), es, 0, 0, Len(x.list), Len(y.list))
      BY ScriptLeads DEF EditsOf
  <2>. HIDE DEF es
  <2>. QED
      BY <2>1 DEF Leads
<1>2. /\ A(0) = 0
      /\ \A m \in Nat : A(m) \in Nat /\ A(m + 1) = A(m) + IF es[m + 1] # "uniqueY" THEN 1 ELSE 0
    BY ConsumedSteps
<1>3. n \in Nat /\ n >= 1 /\ n <= A(Len(es))
    BY <1>1, <1>2
<1>. HIDE DEF es
<1>4. T \in SUBSET Nat /\ Len(es) \in T
    BY <1>1, <1>3
<1>5. PICK m \in T : \A k \in T : m <= k
  <2>. HIDE DEF T
  <2>. QED
      BY <1>4, LeastNumber
<1>6. m \in 0 .. Len(es) /\ A(m) >= n /\ m # 0
    BY <1>2, <1>3
<1>7. m - 1 \in Nat /\ m - 1 + 1 = m /\ m \in 1 .. Len(es) /\ A(m - 1) < n
  <2>1. m - 1 \in 0 .. Len(es) /\ ~(m <= m - 1)
      BY <1>1, <1>6
  <2>2. m - 1 \notin T
      BY <1>5, <2>1
  <2>3. m - 1 \in Nat
      BY <1>1, <1>6
  <2>4. ~(A(m - 1) >= n) /\ A(m - 1) \in Nat
      BY <1>2, <2>1, <2>2, <2>3
  <2>. QED
      BY <1>1, <1>3, <1>6, <2>3, <2>4
<1>8. es[m] # "uniqueY" /\ A(m) = n
  <2>1. /\ A(m - 1) \in Nat /\ A(m) = A(m - 1) + IF es[m] # "uniqueY" THEN 1 ELSE 0
      BY <1>2, <1>7
  <2>. HIDE DEF A, T
  <2>. QED
      BY <1>3, <1>6, <1>7, <2>1
<1>9. m \in 1 .. Len(EditsOf(x, y)) /\ EditsOf(x, y)[m] # "uniqueY" /\ InX(x, y, m) = n
    BY <1>7, <1>8 DEF es, InX
<1>. QED
    BY <1>9, Zenon DEF EditAt

\* What meets a body in part has all that the body specifies.
LEMMA MetEmbeds ==
    \A x, y \in JSON : Met(x, y, FALSE) => Embeds(x, y)
<1>. DEFINE S == {x \in JSON : \A y \in JSON : Met(x, y, FALSE) => Embeds(x, y)}
<1>1. ASSUME NEW x \in JSON, \A u \in JSON : Depth[u] < Depth[x] => u \in S,
             NEW y \in JSON, Met(x, y, FALSE)
      PROVE  Embeds(x, y)
  <2>1. \A u, w \in JSON : Depth[u] < Depth[x] /\ Met(u, w, FALSE) => Embeds(u, w)
      BY <1>1
  <2>. HIDE DEF S
  <2>2. /\ Report(FALSE, "both", FALSE) \notin ToSet(Reports(x, y))
        /\ Report(FALSE, "expected", FALSE) \notin ToSet(Reports(x, y))
    <3>1. Recorded(Report(FALSE, "both", FALSE), FALSE) /\ Recorded(Report(FALSE, "expected", FALSE), FALSE)
        BY DEF Recorded, Report
    <3>. QED
        BY <1>1, <3>1 DEF Met
  <2>3. \A u, w : ToSet(Reports(u, w)) \subseteq ToSet(Reports(x, y)) => Met(u, w, FALSE)
      BY <1>1, Zenon DEF Met
  <2>4. DOMAIN x = DOMAIN y
    <3>1. DOMAIN x # DOMAIN y => Report(FALSE, "both", FALSE) \in ToSet(Reports(x, y))
        BY KindReport
    <3>. QED
        BY <2>2, <3>1
  <2>5. CASE DOMAIN x = {"obj"}
    <3>1. ASSUME NEW k \in DOMAIN x.obj
          PROVE  k \in DOMAIN y.obj /\ Embeds(x.obj[k], y.obj[k])
      <4>1. k \in DOMAIN y.obj
          BY <2>2, <2>4, <2>5, <3>1, FieldReports, Zenon
      <4>2. ToSet(Reports(x.obj[k], y.obj[k])) \subseteq ToSet(Reports(x, y))
          BY <2>4, <2>5, <3>1, <4>1, FieldReports, Zenon
      <4>3. x.obj[k] \in JSON /\ Depth[x.obj[k]] < Depth[x] /\ y.obj[k] \in JSON
          BY <2>4, <2>5, <4>1, ValueKinds
      <4>. QED
          BY <2>1, <2>3, <4>1, <4>2, <4>3
    <3>. QED
        BY <2>4, <2>5, <3>1, ObjectEmbeds
  <2>6. CASE DOMAIN x = {"list"}
    <3>. DEFINE es == EditsOf(x, y)
                nx == Len(x.list)
                ny == Len(y.list)
                at == [n \in DOMAIN x.list |-> InY(x, y, EditAt(x, y, n))]
    <3>1. DOMAIN y = {"list"}
        BY <2>4, <2>6
    <3>2. /\ nx \in Nat /\ ny \in Nat /\ DOMAIN x.list = 1 .. nx /\ DOMAIN y.list = 1 .. ny
          /\ \A n \in 1 .. nx : x.list[n] \in JSON /\ Depth[x.list[n]] < Depth[x]
          /\ \A n \in 1 .. ny : y.list[n] \in JSON
      <4>1. /\ x.list \in Seq(JSON) /\ y.list \in Seq(JSON)
            /\ \A n \in DOMAIN x.list : x.list[n] \in JSON /\ Depth[x.list[n]] < Depth[x]
            /\ \A n \in DOMAIN y.list : y.list[n] \in JSON
          BY <2>6, <3>1, ValueKinds, Zenon
      <4>. QED
          BY <4>1
    <3>3. ASSUME NEW n \in 1 .. nx
          PROVE  LET m == EditAt(x, y, n)
                 IN /\ m \in 1 .. Len(es) /\ es[m] \in {"identity", "modified"}
                    /\ InX(x, y, m) = n /\ InY(x, y, m) \in 1 .. ny
                    /\ InY(x, y, m) = InY(x, y, m - 1) + 1
                    /\ Embeds(x.list[n], y.list[InY(x, y, m)])
      <4>. DEFINE m == EditAt(x, y, n)
      <4>1. m \in 1 .. Len(es) /\ es[m] # "uniqueY" /\ InX(x, y, m) = n
          BY <2>6, <3>1, EditAtFacts
      <4>. HIDE DEF m
      <4>2. es[m] # "uniqueX"
        <5>1. es[m] = "uniqueX" => Report(FALSE, "expected", FALSE) \in ToSet(Reports(x, y))
            BY <2>6, <3>1, <4>1, EditReported, Zenon
        <5>. QED
            BY <2>2, <5>1, Zenon
      <4>3. /\ es[m] \in Edits
            /\ InY(x, y, m) \in 1 .. ny /\ InY(x, y, m) = InY(x, y, m - 1) + 1
            /\ es[m] = "identity" => AllEq(x.list[n], y.list[InY(x, y, m)])
          BY <2>6, <3>1, <4>1, <4>2, ScriptFacts
      <4>. DEFINE b == InY(x, y, m)
      <4>4. x.list[n] \in JSON /\ Depth[x.list[n]] < Depth[x] /\ y.list[b] \in JSON
          BY <3>2, <4>3
      <4>5. es[m] \in {"identity", "modified"}
          BY <4>1, <4>2, <4>3 DEF Edits
      <4>. HIDE DEF b
      <4>6. Met(x.list[n], y.list[b], FALSE)
        <5>1. CASE es[m] = "identity"
          <6>1. AllEq(x.list[n], y.list[b])
              BY <4>3, <5>1 DEF b
          <6>. QED
              BY <6>1 DEF AllEq, Met, Recorded
        <5>2. CASE es[m] = "modified"
          <6>1. ToSet(Reports(x.list[n], y.list[b])) \subseteq ToSet(Reports(x, y))
              BY <2>6, <3>1, <4>1, <5>2, EditReported, Zenon DEF b
          <6>. QED
              BY <2>3, <6>1
        <5>. QED
            BY <4>5, <5>1, <5>2
      <4>7. Embeds(x.list[n], y.list[b])
          BY <2>1, <4>4, <4>6
      <4>. QED
          BY <4>1, <4>3, <4>5, <4>7 DEF m, b
    <3>4. at \in [DOMAIN x.list -> DOMAIN y.list]
        BY <3>2, <3>3
    <3>5. ASSUME NEW n \in DOMAIN x.list
          PROVE  Embeds(x.list[n], y.list[at[n]]) /\ (n > 1 => at[n - 1] < at[n])
      <4>1. Embeds(x.list[n], y.list[at[n]])
          BY <3>2, <3>3
      <4>2. ASSUME n > 1 PROVE at[n - 1] < at[n]
        <5>. DEFINE m == EditAt(x, y, n)
                    k == EditAt(x, y, n - 1)
        <5>1. n \in 1 .. nx /\ n - 1 \in 1 .. nx
            BY <3>2, <4>2
        <5>2. /\ m \in 1 .. Len(es) /\ InX(x, y, m) = n
              /\ InY(x, y, m) = InY(x, y, m - 1) + 1
            BY <3>3, <5>1
        <5>3. k \in 1 .. Len(es) /\ InX(x, y, k) = n - 1
            BY <3>3, <5>1
        <5>4. at[n - 1] = InY(x, y, k) /\ at[n] = InY(x, y, m)
            BY <3>2, <5>1
        <5>. HIDE DEF m, k, at, nx
        <5>5. Len(es) \in Nat
            BY <2>6, <3>1, ScriptLeads DEF Leads, EditsOf
        <5>6. k \in Nat /\ m \in Nat /\ m - 1 \in Nat
            BY <5>2, <5>3, <5>5
        <5>7. k <= m - 1
          <6>1. m <= k => Consumed(es, m, "uniqueY") <= Consumed(es, k, "uniqueY")
              BY <5>6, ConsumedGrows
          <6>2. ~(m <= k)
              BY <5>1, <5>2, <5>3, <6>1 DEF InX
          <6>. QED
              BY <5>6, <6>2
        <5>8. InY(x, y, k) <= InY(x, y, m - 1)
            BY <5>6, <5>7, ConsumedGrows DEF InY
        <5>9. InY(x, y, k) \in Nat /\ InY(x, y, m - 1) \in Nat
            BY <5>6, ConsumedSteps DEF InY
        <5>. QED
            BY <5>2, <5>4, <5>8, <5>9
      <4>. QED
          BY <4>1, <4>2
    <3>. HIDE DEF at
    <3>. QED
        BY <2>6, <3>1, <3>4, <3>5, ListEmbeds
  <2>7. CASE IsPrimitive(x)
    <3>1. Report(x = y, "both", FALSE) \in ToSet(Reports(x, y))
        BY <2>4, <2>7, PrimitiveReport
    <3>2. x = y
        BY <2>2, <3>1
    <3>. QED
        BY <2>4, <2>7, <3>2, OtherEmbeds
  <2>. QED
      BY <2>5, <2>6, <2>7 DEF IsPrimitive
<1>2. \A x \in JSON : (\A u \in JSON : Depth[u] < Depth[x] => u \in S) => x \in S
    BY <1>1
<1>3. \A x \in JSON : Depth[x] \in Nat
    BY ValueKinds
<1>4. JSON \subseteq S
  <2>. HIDE DEF S
  <2>. QED
      BY <1>2, <1>3, Ranks
<1>. QED
    BY <1>4

\* And without lists, all that has it meets the body.
LEMMA EmbedsMet ==
    \A x, y \in JSON : Embeds(x, y) => Met(x, y, FALSE) \/ HasList(x)
<1>. DEFINE S == {x \in JSON : \A y \in JSON : Embeds(x, y) => Met(x, y, FALSE) \/ HasList(x)}
<1>1. ASSUME NEW x \in JSON, \A u \in JSON : Depth[u] < Depth[x] => u \in S,
             NEW y \in JSON, Embeds(x, y), ~HasList(x)
      PROVE  Met(x, y, FALSE)
  <2>1. \A u, w \in JSON : Depth[u] < Depth[x] /\ Embeds(u, w) => Met(u, w, FALSE) \/ HasList(u)
      BY <1>1
  <2>. HIDE DEF S
  <2>2. DOMAIN x = DOMAIN y
      BY <1>1, OtherEmbeds
  <2>. SUFFICES ASSUME NEW e \in ToSet(Reports(x, y)) PROVE ~Recorded(e, FALSE)
      BY Zenon DEF Met
  <2>3. CASE DOMAIN x = {"obj"}
    <3>1. \A k \in DOMAIN x.obj : k \in DOMAIN y.obj /\ Embeds(x.obj[k], y.obj[k])
        BY <1>1, <2>2, <2>3, ObjectEmbeds
    <3>2. PICK k \in DOMAIN x.obj \cup DOMAIN y.obj :
                   \/ k \notin DOMAIN y.obj /\ e = Report(FALSE, "expected", FALSE)
                   \/ k \notin DOMAIN x.obj /\ e = Report(FALSE, "actual", FALSE)
                   \/ /\ k \in DOMAIN x.obj /\ k \in DOMAIN y.obj
                      /\ e \in ToSet(Reports(x.obj[k], y.obj[k]))
        BY <2>2, <2>3, FieldReports, Zenon
    <3>3. k \in DOMAIN y.obj
        BY <3>1
    <3>4. CASE e = Report(FALSE, "actual", FALSE)
        BY <3>4 DEF Recorded, Report
    <3>5. CASE k \in DOMAIN x.obj /\ e \in ToSet(Reports(x.obj[k], y.obj[k]))
      <4>1. x.obj[k] \in JSON /\ Depth[x.obj[k]] < Depth[x] /\ y.obj[k] \in JSON
          BY <2>2, <2>3, <3>3, <3>5, ValueKinds
      <4>2. ~HasList(x.obj[k])
          BY <1>1, <2>3, <3>5, HasListFacts DEF Fields
      <4>3. Met(x.obj[k], y.obj[k], FALSE)
          BY <2>1, <3>1, <3>5, <4>1, <4>2
      <4>. QED
          BY <3>5, <4>3 DEF Met
    <3>. QED
        BY <3>2, <3>3, <3>4, <3>5
  <2>4. CASE DOMAIN x = {"list"}
      BY <1>1, <2>4, HasListFacts
  <2>5. CASE IsPrimitive(x)
    <3>1. x = y
        BY <1>1, <2>2, <2>5, OtherEmbeds
    <3>2. e = Report(TRUE, "both", FALSE)
        BY <3>1, EqualIsAllEq
    <3>. QED
        BY <3>2 DEF Recorded, Report
  <2>. QED
      BY <2>3, <2>4, <2>5 DEF IsPrimitive
<1>2. \A x \in JSON : (\A u \in JSON : Depth[u] < Depth[x] => u \in S) => x \in S
    BY <1>1
<1>3. \A x \in JSON : Depth[x] \in Nat
    BY ValueKinds
<1>4. JSON \subseteq S
  <2>. HIDE DEF S
  <2>. QED
      BY <1>2, <1>3, Ranks
<1>. QED
    BY <1>4

-----------------------------------------------------------------------------
(* search *)

Places(path) == JSON \X (0 .. Len(path))

\* How far a value and the parts that are left go down.
Height(path, x) == Depth[x[1]] + Len(path) - x[2]

Lower(path, n) == {x \in Places(path) : Height(path, x) < n}

\* What is in a value is of less depth.
LEMMA Inside ==
    ASSUME NEW v \in JSON
    PROVE  /\ Depth[v] \in 0 .. MaxDepth
           /\ Elements(v) \in Seq(JSON)
           /\ \A j \in DOMAIN Elements(v) : Elements(v)[j] \in JSON /\ Depth[Elements(v)[j]] < Depth[v]
           /\ \A k \in Fields(v) : v.obj[k] \in JSON /\ Depth[v.obj[k]] < Depth[v]
<1>1. Depth[v] \in 0 .. MaxDepth
    BY JSONAssumption
<1>2. CASE DOMAIN v = {"list"}
  <2>1. v.list \in Seq(JSON) /\ \A j \in DOMAIN v.list : Depth[v.list[j]] < Depth[v]
      BY <1>2, JSONAssumption
  <2>2. Elements(v) = v.list /\ Fields(v) = {}
      BY <1>2 DEF Elements, Fields
  <2>3. \A j \in DOMAIN v.list : v.list[j] \in JSON
      BY <2>1
  <2>. QED
      BY <1>1, <2>1, <2>2, <2>3
<1>3. CASE DOMAIN v # {"list"}
  <2>1. Elements(v) = << >>
      BY <1>3 DEF Elements
  <2>2. << >> \in Seq(JSON) /\ DOMAIN << >> = {}
      OBVIOUS
  <2>3. \A k \in Fields(v) : v.obj[k] \in JSON /\ Depth[v.obj[k]] < Depth[v]
    <3>1. CASE DOMAIN v = {"obj"}
        BY <3>1, JSONAssumption DEF Fields
    <3>2. CASE DOMAIN v # {"obj"}
        BY <3>2 DEF Fields
    <3>. QED
        BY <3>1, <3>2
  <2>. QED
      BY <1>1, <2>1, <2>2, <2>3
<1>. QED
    BY <1>2, <1>3

\* What is found at a place depends on what is found at lower ones only.
LEMMA SearchesLower ==
    ASSUME NEW path \in Seq(STRING), NEW x \in Places(path), NEW s, NEW t,
           \A y \in Places(path) : Height(path, y) < Height(path, x) => s[y] = t[y]
    PROVE  searchFrom(s, path, x[1], x[2]) = searchFrom(t, path, x[1], x[2])
<1>. DEFINE v == x[1]
            d == x[2]
            part == path[d + 1]
            items == Elements(v)
<1>1. v \in JSON /\ d \in 0 .. Len(path) /\ Len(path) \in Nat
    BY DEF Places
<1>2. /\ Depth[v] \in Nat /\ items \in Seq(JSON)
      /\ \A j \in DOMAIN items : items[j] \in JSON /\ Depth[items[j]] \in Nat /\ Depth[items[j]] < Depth[v]
      /\ \A k \in Fields(v) : v.obj[k] \in JSON /\ Depth[v.obj[k]] \in Nat /\ Depth[v.obj[k]] < Depth[v]
  <2>. HIDE DEF v, d
  <2>. QED
      BY <1>1, Inside DEF d
<1>3. ASSUME NEW u \in JSON, NEW n \in 0 .. Len(path), Depth[u] \in Nat,
             Depth[u] - n < Depth[v] - d
      PROVE  s[<<u, n>>] = t[<<u, n>>]
  <2>1. <<u, n>> \in Places(path) /\ Height(path, <<u, n>>) = Depth[u] + Len(path) - n
      BY DEF Places, Height
  <2>2. Height(path, x) = Depth[v] + Len(path) - d
      BY DEF Height
  <2>3. Height(path, <<u, n>>) < Height(path, x)
      BY <1>1, <1>2, <1>3, <2>1, <2>2
  <2>. QED
      BY <2>1, <2>3
<1>. HIDE DEF v, d, items
<1>4. CASE d = Len(path)
    BY <1>4 DEF searchFrom, v, d
<1>5. CASE d # Len(path)
  <2>1. d + 1 \in 0 .. Len(path)
      BY <1>1, <1>5
  <2>2. s[<<v, d + 1>>] = t[<<v, d + 1>>]
      BY <1>1, <1>2, <1>3, <2>1
  <2>3. part \in Fields(v) => s[<<v.obj[part], d + 1>>] = t[<<v.obj[part], d + 1>>]
      BY <1>1, <1>2, <1>3, <2>1
  <2>4. [j \in DOMAIN items |-> s[<<items[j], d>>]] = [j \in DOMAIN items |-> t[<<items[j], d>>]]
    <3>1. ASSUME NEW j \in DOMAIN items PROVE s[<<items[j], d>>] = t[<<items[j], d>>]
      <4>1. items[j] \in JSON /\ Depth[items[j]] \in Nat /\ Depth[items[j]] - d < Depth[v] - d
          BY <1>1, <1>2
      <4>. QED
          BY <1>1, <1>3, <4>1
    <3>. QED
        BY <3>1
  <2>5. ASSUME NEW n, n \in DOMAIN items
        PROVE  s[<<items[n], d + 1>>] = t[<<items[n], d + 1>>]
      BY <1>1, <1>2, <1>3, <2>1, <2>5
  <2>. HIDE DEF part
  <2>6. searchFrom(s, path, v, d) =
            IF part = Empty THEN s[<<v, d + 1>>]
            ELSE IF part \in Fields(v) THEN s[<<v.obj[part], d + 1>>]
            ELSE IF ~IsNumber(part) THEN FlattenSeq([j \in DOMAIN items |-> s[<<items[j], d>>]])
            ELSE IF DOMAIN v # {"list"} \/ ~InRange(Atoi[part], items) THEN << >>
            ELSE IF Atoi[part] + 1 \in DOMAIN items THEN s[<<items[Atoi[part] + 1], d + 1>>]
            ELSE <<Panic>>
      BY <1>5, Zenon DEF searchFrom, NoMore, part, items
  <2>7. searchFrom(t, path, v, d) =
            IF part = Empty THEN t[<<v, d + 1>>]
            ELSE IF part \in Fields(v) THEN t[<<v.obj[part], d + 1>>]
            ELSE IF ~IsNumber(part) THEN FlattenSeq([j \in DOMAIN items |-> t[<<items[j], d>>]])
            ELSE IF DOMAIN v # {"list"} \/ ~InRange(Atoi[part], items) THEN << >>
            ELSE IF Atoi[part] + 1 \in DOMAIN items THEN t[<<items[Atoi[part] + 1], d + 1>>]
            ELSE <<Panic>>
      BY <1>5, Zenon DEF searchFrom, NoMore, part, items
  <2>8. searchFrom(s, path, v, d) = searchFrom(t, path, v, d)
    <3>. DEFINE n == Atoi[part] + 1
    <3>1. n \in DOMAIN items => s[<<items[n], d + 1>>] = t[<<items[n], d + 1>>]
        BY <2>5
    <3>. HIDE DEF n
    <3>2. CASE part = Empty
        BY <2>2, <2>6, <2>7, <3>2, Zenon
    <3>3. CASE part # Empty /\ part \in Fields(v)
        BY <2>3, <2>6, <2>7, <3>3, Zenon
    <3>4. CASE part # Empty /\ part \notin Fields(v) /\ ~IsNumber(part)
        BY <2>4, <2>6, <2>7, <3>4, Zenon
    <3>5. CASE part # Empty /\ part \notin Fields(v) /\ IsNumber(part)
      <4>1. CASE DOMAIN v # {"list"} \/ ~InRange(Atoi[part], items)
          BY <2>6, <2>7, <3>5, <4>1, Zenon
      <4>2. CASE ~(DOMAIN v # {"list"} \/ ~InRange(Atoi[part], items)) /\ n \in DOMAIN items
          BY <2>6, <2>7, <3>1, <3>5, <4>2, Zenon DEF n
      <4>3. CASE ~(DOMAIN v # {"list"} \/ ~InRange(Atoi[part], items)) /\ n \notin DOMAIN items
          BY <2>6, <2>7, <3>5, <4>3, Zenon DEF n
      <4>. QED
          BY <4>1, <4>2, <4>3, Zenon
    <3>. QED
        BY <3>2, <3>3, <3>4, <3>5, Zenon
  <2>. QED
      BY <2>8 DEF v, d
<1>. QED
    BY <1>4, <1>5

IsSearch(s, path, D) == s = [x \in D |-> searchFrom(s, path, x[1], x[2])]

\* The recursion of search has a solution.
LEMMA SearchExists ==
    ASSUME NEW path \in Seq(STRING)
    PROVE  \E s : IsSearch(s, path, Places(path))
<1>. DEFINE top == MaxDepth + Len(path) + 1
            S == {n \in 0 .. top : \E s : IsSearch(s, path, Lower(path, n))}
<1>1. top \in Nat /\ Len(path) \in Nat /\ MaxDepth \in Nat
    BY JSONAssumption
<1>2. ASSUME NEW x \in Places(path) PROVE Height(path, x) \in 0 .. top - 1
  <2>1. x[1] \in JSON /\ x[2] \in 0 .. Len(path)
      BY DEF Places
  <2>2. Depth[x[1]] \in 0 .. MaxDepth
      BY <2>1, JSONAssumption
  <2>. QED
      BY <1>1, <2>1, <2>2 DEF Height
<1>3. 0 \in S
  <2>1. Lower(path, 0) = {}
      BY <1>2 DEF Lower
  <2>. DEFINE s == [x \in {} |-> x]
  <2>2. IsSearch(s, path, {})
      BY DEF IsSearch
  <2>3. \E t : IsSearch(t, path, Lower(path, 0))
      BY <2>1, <2>2, Zenon
  <2>4. 0 \in 0 .. top
      BY <1>1
  <2>. QED
      BY <2>3, <2>4, Zenon
<1>4. ASSUME NEW n \in 1 .. top, n - 1 \in S PROVE n \in S
  <2>1. PICK old : IsSearch(old, path, Lower(path, n - 1))
      BY <1>4
  <2>. DEFINE new == [x \in Lower(path, n) |-> searchFrom(old, path, x[1], x[2])]
  <2>2. ASSUME NEW x \in Lower(path, n)
        PROVE  searchFrom(old, path, x[1], x[2]) = searchFrom(new, path, x[1], x[2])
    <3>1. x \in Places(path) /\ Height(path, x) < n
        BY DEF Lower
    <3>2. ASSUME NEW y \in Places(path), Height(path, y) < Height(path, x)
          PROVE  old[y] = new[y]
      <4>1. y \in Lower(path, n - 1) /\ y \in Lower(path, n)
          BY <1>1, <1>2, <3>1, <3>2 DEF Lower
      <4>2. old[y] = searchFrom(old, path, y[1], y[2])
          BY <2>1, <4>1, Zenon DEF IsSearch
      <4>. QED
          BY <4>1, <4>2, Zenon
    <3>. HIDE DEF new
    <3>. QED
        BY <3>1, <3>2, SearchesLower, Zenon
  <2>3. IsSearch(new, path, Lower(path, n))
    <3>1. \A x \in Lower(path, n) : new[x] = searchFrom(new, path, x[1], x[2])
        BY <2>2, Zenon
    <3>2. new = [x \in Lower(path, n) |-> new[x]]
        BY Zenon
    <3>. HIDE DEF new
    <3>. QED
        BY <3>1, <3>2, Zenon DEF IsSearch
  <2>4. \E t : IsSearch(t, path, Lower(path, n))
      BY <2>3, Zenon
  <2>5. n \in 0 .. top
      BY <1>1
  <2>. QED
      BY <2>4, <2>5, Zenon
<1>5. 0 .. top \subseteq S
  <2>. HIDE DEF S, top
  <2>. QED
      BY <1>1, <1>3, <1>4, Steps
<1>6. top \in S /\ Lower(path, top) = Places(path)
  <2>1. Lower(path, top) = Places(path)
      BY <1>1, <1>2 DEF Lower
  <2>2. top \in 0 .. top
      BY <1>1
  <2>. QED
      BY <1>5, <2>1, <2>2, Zenon
<1>. QED
    BY <1>6, Zenon

AllFound(path) == CHOOSE s : s = [x \in Places(path) |-> searchFrom(s, path, x[1], x[2])]

\* search is the solution, and finds values, or the panic of a negative index.
LEMMA SearchType ==
    ASSUME NEW path \in Seq(STRING), NEW v \in JSON, NEW T, JSON \subseteq T,
           (\A d \in 1 .. Len(path) : IsNumber(path[d]) => Atoi[path[d]] >= 0) \/ Panic \in T
    PROVE  /\ search(v, path) = AllFound(path)[<<v, 0>>]
           /\ \A x \in Places(path) : /\ AllFound(path)[x] = searchFrom(AllFound(path), path, x[1], x[2])
                                      /\ AllFound(path)[x] \in Seq(T)
           /\ search(v, path) \in Seq(T)
<1>. DEFINE s == AllFound(path)
            top == MaxDepth + Len(path) + 1
            S == {n \in 0 .. top : \A x \in Places(path) : Height(path, x) < n => s[x] \in Seq(T)}
<1>1. search(v, path) = s[<<v, 0>>]
    BY Zenon DEF search, Places, AllFound
<1>2. s = [x \in Places(path) |-> searchFrom(s, path, x[1], x[2])]
  <2>1. \E t : IsSearch(t, path, Places(path))
      BY SearchExists
  <2>. QED
      BY <2>1, Zenon DEF IsSearch, AllFound
<1>. HIDE DEF s
<1>3. top \in Nat /\ Len(path) \in Nat /\ MaxDepth \in Nat
    BY JSONAssumption
<1>4. ASSUME NEW x \in Places(path),
             \A y \in Places(path) : Height(path, y) < Height(path, x) => s[y] \in Seq(T)
      PROVE  s[x] \in Seq(T)
  <2>. DEFINE w == x[1]
              d == x[2]
              part == path[d + 1]
              items == Elements(w)
              n == Atoi[part] + 1
  <2>1. w \in JSON /\ d \in 0 .. Len(path)
      BY DEF Places
  <2>2. /\ Depth[w] \in Nat /\ items \in Seq(JSON)
        /\ \A j \in DOMAIN items : items[j] \in JSON /\ Depth[items[j]] \in Nat /\ Depth[items[j]] < Depth[w]
        /\ \A k \in Fields(w) : w.obj[k] \in JSON /\ Depth[w.obj[k]] \in Nat /\ Depth[w.obj[k]] < Depth[w]
    <3>. HIDE DEF w, d
    <3>. QED
        BY <2>1, Inside DEF d
  <2>3. ASSUME NEW u \in JSON, NEW m \in 0 .. Len(path), Depth[u] \in Nat,
               Depth[u] - m < Depth[w] - d
        PROVE  s[<<u, m>>] \in Seq(T)
    <3>1. <<u, m>> \in Places(path) /\ Height(path, <<u, m>>) = Depth[u] + Len(path) - m
        BY DEF Places, Height
    <3>2. Height(path, x) = Depth[w] + Len(path) - d
        BY DEF Height
    <3>3. Height(path, <<u, m>>) < Height(path, x)
        BY <1>3, <2>1, <2>2, <2>3, <3>1, <3>2
    <3>. QED
        BY <1>4, <3>1, <3>3
  <2>4. s[x] = searchFrom(s, path, w, d)
      BY <1>2, Zenon
  <2>. HIDE DEF w, d
  <2>5. CASE d = Len(path)
    <3>1. s[x] = <<w>>
        BY <2>4, <2>5, Zenon DEF searchFrom
    <3>2. w \in T
        BY <2>1
    <3>. QED
        BY <3>1, <3>2
  <2>6. CASE d # Len(path)
    <3>1. d + 1 \in 0 .. Len(path) /\ d + 1 \in 1 .. Len(path)
        BY <1>3, <2>1, <2>6
    <3>2. s[<<w, d + 1>>] \in Seq(T)
        BY <2>1, <2>2, <2>3, <3>1
    <3>3. part \in Fields(w) => s[<<w.obj[part], d + 1>>] \in Seq(T)
        BY <2>1, <2>2, <2>3, <3>1
    <3>4. [j \in DOMAIN items |-> s[<<items[j], d>>]] \in Seq(Seq(T))
      <4>1. ASSUME NEW j \in DOMAIN items PROVE s[<<items[j], d>>] \in Seq(T)
        <5>1. items[j] \in JSON /\ Depth[items[j]] \in Nat /\ Depth[items[j]] - d < Depth[w] - d
            BY <2>1, <2>2
        <5>. QED
            BY <2>1, <2>3, <5>1
      <4>2. DOMAIN items = 1 .. Len(items) /\ Len(items) \in Nat
          BY <2>2
      <4>. QED
          BY <4>1, <4>2
    <3>5. n \in DOMAIN items => s[<<items[n], d + 1>>] \in Seq(T)
      <4>. HIDE DEF items, n
      <4>. QED
          BY <2>1, <2>2, <2>3, <3>1
    <3>6. FlattenSeq([j \in DOMAIN items |-> s[<<items[j], d>>]]) \in Seq(T)
        BY <3>4, FlattenType, Zenon
    <3>7. ASSUME IsNumber(part), InRange(Atoi[part], items), n \notin DOMAIN items
          PROVE  <<Panic>> \in Seq(T)
      <4>1. Atoi[part] \in Int /\ Atoi[part] < Len(items) /\ Len(items) \in Nat
            /\ DOMAIN items = 1 .. Len(items)
          BY <2>2, <3>7, AtoiAssumption DEF IsNumber, InRange
      <4>2. Atoi[part] < 0
          BY <3>7, <4>1
      <4>3. Panic \in T
        <5>1. CASE \A k \in 1 .. Len(path) : IsNumber(path[k]) => Atoi[path[k]] >= 0
          <6>1. Atoi[path[d + 1]] >= 0
              BY <3>1, <3>7, <5>1, Zenon
          <6>. QED
              BY <4>1, <4>2, <6>1
        <5>. QED
            BY <5>1, Zenon
      <4>4. <<Panic>> \in Seq(T)
          BY <4>3
      <4>. QED
          BY <4>4
    <3>8. << >> \in Seq(T)
        OBVIOUS
    <3>. HIDE DEF part, items
    <3>9. s[x] =
              IF part = Empty THEN s[<<w, d + 1>>]
              ELSE IF part \in Fields(w) THEN s[<<w.obj[part], d + 1>>]
              ELSE IF ~IsNumber(part) THEN FlattenSeq([j \in DOMAIN items |-> s[<<items[j], d>>]])
              ELSE IF DOMAIN w # {"list"} \/ ~InRange(Atoi[part], items) THEN << >>
              ELSE IF n \in DOMAIN items THEN s[<<items[n], d + 1>>]
              ELSE <<Panic>>
        BY <2>4, <2>6, Zenon DEF searchFrom, NoMore, part, items
    <3>. HIDE DEF n
    <3>10. CASE part = Empty
        BY <3>2, <3>9, <3>10, Zenon
    <3>11. CASE part # Empty /\ part \in Fields(w)
        BY <3>3, <3>9, <3>11, Zenon
    <3>12. CASE part # Empty /\ part \notin Fields(w) /\ ~IsNumber(part)
        BY <3>6, <3>9, <3>12, Zenon
    <3>13. CASE part # Empty /\ part \notin Fields(w) /\ IsNumber(part)
      <4>1. CASE DOMAIN w # {"list"} \/ ~InRange(Atoi[part], items)
          BY <3>8, <3>9, <3>13, <4>1, Zenon
      <4>2. CASE ~(DOMAIN w # {"list"} \/ ~InRange(Atoi[part], items)) /\ n \in DOMAIN items
          BY <3>5, <3>9, <3>13, <4>2, Zenon
      <4>3. CASE ~(DOMAIN w # {"list"} \/ ~InRange(Atoi[part], items)) /\ n \notin DOMAIN items
          BY <3>7, <3>9, <3>13, <4>3, Zenon
      <4>. QED
          BY <4>1, <4>2, <4>3, Zenon
    <3>. QED
        BY <3>10, <3>11, <3>12, <3>13, Zenon
  <2>. QED
      BY <2>5, <2>6
<1>5. ASSUME NEW x \in Places(path) PROVE Height(path, x) \in 0 .. top - 1
  <2>1. x[1] \in JSON /\ x[2] \in 0 .. Len(path)
      BY DEF Places
  <2>2. Depth[x[1]] \in 0 .. MaxDepth
      BY <2>1, JSONAssumption
  <2>. QED
      BY <1>3, <2>1, <2>2 DEF Height
<1>6. 0 \in S
  <2>1. 0 \in 0 .. top /\ \A x \in Places(path) : ~(Height(path, x) < 0)
      BY <1>3, <1>5
  <2>. QED
      BY <2>1
<1>7. ASSUME NEW n \in 1 .. top, n - 1 \in S PROVE n \in S
  <2>1. ASSUME NEW x \in Places(path), Height(path, x) < n PROVE s[x] \in Seq(T)
    <3>1. ASSUME NEW y \in Places(path), Height(path, y) < Height(path, x) PROVE s[y] \in Seq(T)
      <4>1. Height(path, y) < n - 1
          BY <1>3, <1>5, <2>1, <3>1
      <4>. QED
          BY <1>7, <4>1, Zenon
    <3>. QED
        BY <1>4, <3>1, Zenon
  <2>2. n \in 0 .. top
      BY <1>3
  <2>. QED
      BY <2>1, <2>2, Zenon
<1>8. 0 .. top \subseteq S
  <2>1. top \in Nat
      BY <1>3
  <2>. HIDE DEF S, top
  <2>. QED
      BY <1>6, <1>7, <2>1, Steps
<1>9. ASSUME NEW x \in Places(path) PROVE s[x] \in Seq(T)
  <2>1. top \in 0 .. top /\ Height(path, x) < top
      BY <1>3, <1>5
  <2>2. top \in S
      BY <1>8, <2>1, Zenon
  <2>. QED
      BY <2>1, <2>2, Zenon
<1>10. <<v, 0>> \in Places(path)
    BY <1>3 DEF Places
<1>11. \A x \in Places(path) : s[x] = searchFrom(s, path, x[1], x[2])
    BY <1>2, Zenon
<1>. QED
    BY <1>1, <1>9, <1>10, <1>11, Zenon DEF s

-----------------------------------------------------------------------------
(* Places on a path *)

DocSteps == [index : Nat] \cup [key : UNION {Fields(v) : v \in JSON}]
DocPlaces == [at : Seq(DocSteps), value : JSON]

FollowsAt(at, steps, path, rest) ==
    /\ \A n \in rest : Names(path[n], steps[at[n]])
    /\ \A n, m \in rest : n < m => at[n] < at[m]
    /\ \A s \in DOMAIN steps \ {at[n] : n \in rest} :
           /\ DOMAIN steps[s] = {"index"}
           /\ \E n \in rest :
                  /\ s < at[n] /\ ~IsNumber(path[n])
                  /\ \A m \in rest : m < n => at[m] < s

\* Steps follow parts if some places of theirs are where the parts are.
LEMMA FollowsDef ==
    ASSUME NEW steps, NEW path, NEW rest
    PROVE  Follows(steps, path, rest) <=> \E at \in [rest -> DOMAIN steps] : FollowsAt(at, steps, path, rest)
    BY Zenon DEF Follows, FollowsAt

\* A step before others.
LEMMA StepBefore ==
    ASSUME NEW T, NEW step \in T, NEW below \in Seq(T)
    PROVE  /\ <<step>> \o below \in Seq(T)
           /\ Len(below) \in Nat /\ DOMAIN below = 1 .. Len(below)
           /\ DOMAIN (<<step>> \o below) = 1 .. Len(below) + 1
           /\ (<<step>> \o below)[1] = step
           /\ \A k \in 1 .. Len(below) : (<<step>> \o below)[k + 1] = below[k]
<1>1. /\ <<step>> \o below \in Seq(T)
      /\ Len(below) \in Nat /\ DOMAIN below = 1 .. Len(below)
      /\ Len(<<step>>) = 1 /\ <<step>>[1] = step
      /\ DOMAIN (<<step>> \o below) = 1 .. Len(below) + 1
    OBVIOUS
<1>2. (<<step>> \o below)[1] = step
    BY <1>1
<1>3. ASSUME NEW k \in 1 .. Len(below) PROVE (<<step>> \o below)[k + 1] = below[k]
  <2>1. k + 1 \in 1 .. 1 + Len(below) /\ ~(k + 1 <= 1) /\ k + 1 - 1 = k
      BY <1>1
  <2>. QED
      BY <1>1, <2>1
<1>. QED
    BY <1>1, <1>2, <1>3

\* When no part is left, only no steps follow.
LEMMA FollowsNothing ==
    ASSUME NEW steps \in Seq(DocSteps), NEW path
    PROVE  Follows(steps, path, {}) <=> steps = << >>
<1>1. ASSUME Follows(steps, path, {}) PROVE steps = << >>
  <2>1. PICK at \in [{} -> DOMAIN steps] : FollowsAt(at, steps, path, {})
      BY <1>1, FollowsDef
  <2>2. \A s \in DOMAIN steps : FALSE
      BY <2>1, Zenon DEF FollowsAt
  <2>3. DOMAIN steps = 1 .. Len(steps) /\ Len(steps) \in Nat
      OBVIOUS
  <2>4. Len(steps) = 0
    <3>1. 1 \notin 1 .. Len(steps)
        BY <2>2, <2>3, Zenon
    <3>. QED
        BY <2>3, <3>1
  <2>. QED
      BY <2>4
<1>2. ASSUME steps = << >> PROVE Follows(steps, path, {})
  <2>. DEFINE at == [n \in {} |-> n]
  <2>1. at \in [{} -> DOMAIN steps] /\ DOMAIN steps = {}
      BY <1>2
  <2>2. FollowsAt(at, steps, path, {})
      BY <2>1 DEF FollowsAt
  <2>. QED
      BY <2>1, <2>2, FollowsDef
<1>. QED
    BY <1>1, <1>2

\* And when some part is left, no steps do not follow.
LEMMA NothingFollows ==
    ASSUME NEW path, NEW rest, rest # {}
    PROVE  ~Follows(<< >>, path, rest)
<1>. SUFFICES ASSUME Follows(<< >>, path, rest) PROVE FALSE
    OBVIOUS
<1>1. PICK at \in [rest -> DOMAIN << >>] : TRUE
    BY FollowsDef
<1>. QED
    BY <1>1

\* Where the next part is no number, or the step is a key, the step is the part.
LEMMA FollowsNext ==
    ASSUME NEW path, NEW rest \in SUBSET Nat, NEW m \in rest, \A n \in rest : m <= n,
           NEW step \in DocSteps, NEW below \in Seq(DocSteps),
           DOMAIN step = {"key"} \/ IsNumber(path[m])
    PROVE  Follows(<<step>> \o below, path, rest) <=>
               Names(path[m], step) /\ Follows(below, path, rest \ {m})
<1>. DEFINE steps == <<step>> \o below
            others == rest \ {m}
            len == Len(below)
<1>1. /\ len \in Nat /\ DOMAIN below = 1 .. len /\ DOMAIN steps = 1 .. len + 1 /\ steps[1] = step
      /\ \A k \in 1 .. len : steps[k + 1] = below[k]
    BY StepBefore
<1>. HIDE DEF steps, len
<1>2. ASSUME Follows(steps, path, rest)
      PROVE  Names(path[m], step) /\ Follows(below, path, others)
  <2>1. PICK at \in [rest -> DOMAIN steps] : FollowsAt(at, steps, path, rest)
      BY <1>2, FollowsDef
  <2>2. \A n \in rest : at[n] \in 1 .. len + 1
      BY <1>1, <2>1
  <2>3. \E n \in rest : at[n] = 1
    <3>. SUFFICES ASSUME \A n \in rest : at[n] # 1 PROVE FALSE
        OBVIOUS
    <3>1. 1 \in DOMAIN steps \ {at[n] : n \in rest}
        BY <1>1
    <3>2. DOMAIN steps[1] = {"index"}
        BY <2>1, <3>1, Zenon DEF FollowsAt
    <3>3. PICK n \in rest : ~IsNumber(path[n]) /\ \A k \in rest : k < n => at[k] < 1
        BY <2>1, <3>1, Zenon DEF FollowsAt
    <3>4. n # m
        BY <1>1, <3>2, <3>3
    <3>5. at[m] < 1
        BY <3>3, <3>4
    <3>. QED
        BY <1>1, <2>2, <3>5
  <2>4. at[m] = 1
    <3>1. PICK n \in rest : at[n] = 1
        BY <2>3
    <3>2. m < n => at[m] < at[n]
        BY <2>1, Zenon DEF FollowsAt
    <3>. QED
        BY <1>1, <2>2, <3>1, <3>2
  <2>5. ASSUME NEW n \in others PROVE at[n] \in 2 .. len + 1 /\ at[n] - 1 \in 1 .. len
    <3>1. m < n => at[m] < at[n]
        BY <2>1, Zenon DEF FollowsAt
    <3>. QED
        BY <1>1, <2>2, <2>4, <3>1
  <2>. DEFINE new == [n \in others |-> at[n] - 1]
  <2>6. new \in [others -> DOMAIN below]
      BY <1>1, <2>5
  <2>7. \A n \in others : Names(path[n], below[new[n]])
    <3>1. ASSUME NEW n \in others PROVE Names(path[n], below[new[n]])
      <4>1. Names(path[n], steps[at[n]])
          BY <2>1, Zenon DEF FollowsAt
      <4>2. at[n] = new[n] + 1 /\ new[n] \in 1 .. len
          BY <1>1, <2>5
      <4>. QED
          BY <1>1, <4>1, <4>2
    <3>. QED
        BY <3>1
  <2>8. \A n, k \in others : n < k => new[n] < new[k]
    <3>1. \A n, k \in others : n < k => at[n] < at[k]
        BY <2>1, Zenon DEF FollowsAt
    <3>. QED
        BY <1>1, <2>5, <3>1
  <2>9. ASSUME NEW s \in DOMAIN below \ {new[n] : n \in others}
        PROVE  /\ DOMAIN below[s] = {"index"}
               /\ \E n \in others : /\ s < new[n] /\ ~IsNumber(path[n])
                                    /\ \A k \in others : k < n => new[k] < s
    <3>1. s \in 1 .. len /\ s + 1 \in DOMAIN steps /\ s + 1 # 1 /\ steps[s + 1] = below[s]
        BY <1>1
    <3>2. s + 1 \notin {at[n] : n \in rest}
      <4>1. ASSUME NEW n \in others PROVE at[n] # s + 1
          BY <1>1, <2>5, <2>9, <3>1
      <4>. QED
          BY <2>4, <3>1, <4>1
    <3>3. DOMAIN steps[s + 1] = {"index"}
        BY <2>1, <3>1, <3>2, Zenon DEF FollowsAt
    <3>4. PICK n \in rest : /\ s + 1 < at[n] /\ ~IsNumber(path[n])
                            /\ \A k \in rest : k < n => at[k] < s + 1
        BY <2>1, <3>1, <3>2, Zenon DEF FollowsAt
    <3>5. n \in others
        BY <1>1, <2>4, <3>1, <3>4
    <3>6. s < new[n]
        BY <1>1, <2>5, <3>1, <3>4, <3>5
    <3>7. \A k \in others : k < n => new[k] < s
        BY <1>1, <2>5, <3>1, <3>4
    <3>. QED
        BY <3>1, <3>3, <3>4, <3>5, <3>6, <3>7
  <2>10. FollowsAt(new, below, path, others)
    <3>. HIDE DEF new, others
    <3>. QED
        BY <2>7, <2>8, <2>9, Zenon DEF FollowsAt
  <2>11. Names(path[m], step)
    <3>1. Names(path[m], steps[at[m]])
        BY <2>1, Zenon DEF FollowsAt
    <3>. QED
        BY <1>1, <2>4, <3>1
  <2>. HIDE DEF new, others
  <2>. QED
      BY <2>6, <2>10, <2>11, FollowsDef
<1>3. ASSUME Names(path[m], step), Follows(below, path, others)
      PROVE  Follows(steps, path, rest)
  <2>1. PICK at \in [others -> DOMAIN below] : FollowsAt(at, below, path, others)
    <3>. HIDE DEF others
    <3>. QED
        BY <1>3, FollowsDef
  <2>2. \A n \in others : at[n] \in 1 .. len
      BY <1>1, <2>1
  <2>. DEFINE new == [n \in rest |-> IF n = m THEN 1 ELSE at[n] + 1]
  <2>3. new[m] = 1 /\ \A n \in others : new[n] = at[n] + 1 /\ new[n] \in 2 .. len + 1
      BY <1>1, <2>2
  <2>4. new \in [rest -> DOMAIN steps]
      BY <1>1, <2>2
  <2>. HIDE DEF new
  <2>5. ASSUME NEW n \in rest PROVE Names(path[n], steps[new[n]])
    <3>1. CASE n = m
        BY <1>1, <1>3, <2>3, <3>1
    <3>2. CASE n # m
      <4>1. n \in others
          BY <3>2
      <4>2. Names(path[n], below[at[n]])
          BY <2>1, <4>1, Zenon DEF FollowsAt
      <4>3. steps[new[n]] = below[at[n]]
          BY <1>1, <2>2, <2>3, <4>1
      <4>. QED
          BY <4>2, <4>3
    <3>. QED
        BY <3>1, <3>2
  <2>6. ASSUME NEW n \in rest, NEW k \in rest, n < k PROVE new[n] < new[k]
    <3>1. n \in others /\ k \in others => at[n] < at[k]
        BY <2>1, <2>6, Zenon DEF FollowsAt
    <3>2. k \in others
        BY <2>6
    <3>3. CASE n = m
        BY <1>1, <2>3, <3>2, <3>3
    <3>4. CASE n # m
        BY <1>1, <2>2, <2>3, <3>1, <3>2, <3>4
    <3>. QED
        BY <3>3, <3>4
  <2>7. ASSUME NEW s \in DOMAIN steps \ {new[n] : n \in rest}
        PROVE  /\ DOMAIN steps[s] = {"index"}
               /\ \E n \in rest : /\ s < new[n] /\ ~IsNumber(path[n])
                                  /\ \A k \in rest : k < n => new[k] < s
    <3>. DEFINE t == s - 1
    <3>1. s # 1 /\ s \in 1 .. len + 1
        BY <1>1, <2>3, <2>7
    <3>2. t \in 1 .. len /\ s = t + 1 /\ steps[s] = below[t]
      <4>1. t \in 1 .. len /\ s = t + 1
          BY <1>1, <3>1
      <4>. HIDE DEF t
      <4>. QED
          BY <1>1, <4>1
    <3>. HIDE DEF t
    <3>3. t \notin {at[n] : n \in others}
        BY <2>3, <2>7, <3>2
    <3>4. DOMAIN below[t] = {"index"}
        BY <1>1, <2>1, <3>2, <3>3, Zenon DEF FollowsAt
    <3>5. PICK n \in others : /\ t < at[n] /\ ~IsNumber(path[n])
                              /\ \A k \in others : k < n => at[k] < t
        BY <1>1, <2>1, <3>2, <3>3, Zenon DEF FollowsAt
    <3>6. s < new[n]
        BY <1>1, <2>2, <2>3, <3>2, <3>5
    <3>7. ASSUME NEW k \in rest, k < n PROVE new[k] < s
      <4>1. CASE k = m
          BY <1>1, <2>3, <3>1, <4>1
      <4>2. CASE k # m
          BY <1>1, <2>2, <2>3, <3>2, <3>5, <3>7, <4>2
      <4>. QED
          BY <4>1, <4>2
    <3>. QED
        BY <3>2, <3>4, <3>5, <3>6, <3>7
  <2>8. FollowsAt(new, steps, path, rest)
      BY <2>5, <2>6, <2>7, Zenon DEF FollowsAt
  <2>. QED
      BY <2>4, <2>8, FollowsDef
<1>. QED
    BY <1>2, <1>3 DEF steps

\* A position in an array is passed over when the next part is no number.
LEMMA FollowsPast ==
    ASSUME NEW path, NEW rest \in SUBSET Nat, NEW m \in rest, \A n \in rest : m <= n,
           NEW step \in DocSteps, NEW below \in Seq(DocSteps),
           DOMAIN step = {"index"}, ~IsNumber(path[m])
    PROVE  Follows(<<step>> \o below, path, rest) <=> Follows(below, path, rest)
<1>. DEFINE steps == <<step>> \o below
            len == Len(below)
<1>1. /\ len \in Nat /\ DOMAIN below = 1 .. len /\ DOMAIN steps = 1 .. len + 1 /\ steps[1] = step
      /\ \A k \in 1 .. len : steps[k + 1] = below[k]
    BY StepBefore
<1>. HIDE DEF steps, len
<1>2. ASSUME Follows(steps, path, rest)
      PROVE  Follows(below, path, rest)
  <2>1. PICK at \in [rest -> DOMAIN steps] : FollowsAt(at, steps, path, rest)
      BY <1>2, FollowsDef
  <2>2. \A n \in rest : at[n] \in 1 .. len + 1
      BY <1>1, <2>1
  <2>3. at[m] # 1
    <3>1. Names(path[m], steps[at[m]])
        BY <2>1, Zenon DEF FollowsAt
    <3>2. ~Names(path[m], step)
        BY Zenon DEF Names
    <3>. QED
        BY <1>1, <3>1, <3>2
  <2>4. ASSUME NEW n \in rest PROVE at[n] \in 2 .. len + 1 /\ at[n] - 1 \in 1 .. len
    <3>1. m < n => at[m] < at[n]
        BY <2>1, Zenon DEF FollowsAt
    <3>. QED
        BY <1>1, <2>2, <2>3, <3>1
  <2>. DEFINE new == [n \in rest |-> at[n] - 1]
  <2>5. new \in [rest -> DOMAIN below]
      BY <1>1, <2>4
  <2>6. \A n \in rest : at[n] = new[n] + 1 /\ new[n] \in 1 .. len
      BY <1>1, <2>4
  <2>. HIDE DEF new
  <2>7. ASSUME NEW n \in rest PROVE Names(path[n], below[new[n]])
    <3>1. Names(path[n], steps[at[n]])
        BY <2>1, Zenon DEF FollowsAt
    <3>. QED
        BY <1>1, <2>6, <3>1
  <2>8. ASSUME NEW n \in rest, NEW k \in rest, n < k PROVE new[n] < new[k]
    <3>1. at[n] < at[k]
        BY <2>1, <2>8, Zenon DEF FollowsAt
    <3>. QED
        BY <1>1, <2>6, <3>1
  <2>9. ASSUME NEW s \in DOMAIN below \ {new[n] : n \in rest}
        PROVE  /\ DOMAIN below[s] = {"index"}
               /\ \E n \in rest : /\ s < new[n] /\ ~IsNumber(path[n])
                                  /\ \A k \in rest : k < n => new[k] < s
    <3>1. s \in 1 .. len /\ s + 1 \in DOMAIN steps /\ s + 1 # 1 /\ steps[s + 1] = below[s]
        BY <1>1
    <3>2. s + 1 \notin {at[n] : n \in rest}
        BY <1>1, <2>6, <2>9, <3>1
    <3>3. DOMAIN steps[s + 1] = {"index"}
        BY <2>1, <3>1, <3>2, Zenon DEF FollowsAt
    <3>4. PICK n \in rest : /\ s + 1 < at[n] /\ ~IsNumber(path[n])
                            /\ \A k \in rest : k < n => at[k] < s + 1
        BY <2>1, <3>1, <3>2, Zenon DEF FollowsAt
    <3>6. s < new[n]
        BY <1>1, <2>6, <3>1, <3>4
    <3>7. \A k \in rest : k < n => new[k] < s
        BY <1>1, <2>6, <3>1, <3>4
    <3>. QED
        BY <3>1, <3>3, <3>4, <3>6, <3>7
  <2>10. FollowsAt(new, below, path, rest)
      BY <2>7, <2>8, <2>9, Zenon DEF FollowsAt
  <2>. QED
      BY <2>5, <2>10, FollowsDef
<1>3. ASSUME Follows(below, path, rest)
      PROVE  Follows(steps, path, rest)
  <2>1. PICK at \in [rest -> DOMAIN below] : FollowsAt(at, below, path, rest)
      BY <1>3, FollowsDef
  <2>2. \A n \in rest : at[n] \in 1 .. len
      BY <1>1, <2>1
  <2>. DEFINE new == [n \in rest |-> at[n] + 1]
  <2>3. \A n \in rest : new[n] = at[n] + 1 /\ new[n] \in 2 .. len + 1
    <3>1. \A n \in rest : new[n] = at[n] + 1
        BY Zenon
    <3>. HIDE DEF new
    <3>2. ASSUME NEW n \in rest PROVE new[n] \in 2 .. len + 1
      <4>1. PICK k \in 1 .. len : k = at[n]
          BY <2>2, Zenon
      <4>2. k + 1 \in 2 .. len + 1
          BY <1>1
      <4>. QED
          BY <3>1, <4>1, <4>2, Zenon
    <3>. QED
        BY <3>1, <3>2, Zenon
  <2>4. new \in [rest -> DOMAIN steps]
      BY <1>1, <2>2
  <2>. HIDE DEF new
  <2>5. ASSUME NEW n \in rest PROVE Names(path[n], steps[new[n]])
    <3>2. Names(path[n], below[at[n]])
        BY <2>1, Zenon DEF FollowsAt
    <3>3. steps[new[n]] = below[at[n]]
        BY <1>1, <2>2, <2>3
    <3>. QED
        BY <3>2, <3>3
  <2>6. ASSUME NEW n \in rest, NEW k \in rest, n < k PROVE new[n] < new[k]
    <3>1. at[n] < at[k]
        BY <2>1, <2>6, Zenon DEF FollowsAt
    <3>2. /\ new[n] = at[n] + 1 /\ at[n] \in 1 .. len
          /\ new[k] = at[k] + 1 /\ at[k] \in 1 .. len
        BY <2>2, <2>3
    <3>. QED
        BY <1>1, <3>1, <3>2
  <2>7. ASSUME NEW s \in DOMAIN steps \ {new[n] : n \in rest}
        PROVE  /\ DOMAIN steps[s] = {"index"}
               /\ \E n \in rest : /\ s < new[n] /\ ~IsNumber(path[n])
                                  /\ \A k \in rest : k < n => new[k] < s
    <3>1. CASE s = 1
      <4>1. DOMAIN steps[s] = {"index"}
          BY <1>1, <3>1
      <4>2. s < new[m] /\ \A k \in rest : ~(k < m)
          BY <1>1, <2>3, <3>1
      <4>. QED
          BY <4>1, <4>2
    <3>2. CASE s # 1
      <4>. DEFINE t == s - 1
      <4>2. t \in 1 .. len /\ s = t + 1 /\ steps[s] = below[t]
        <5>1. t \in 1 .. len /\ s = t + 1
            BY <1>1, <3>2
        <5>. HIDE DEF t
        <5>. QED
            BY <1>1, <5>1
      <4>. HIDE DEF t
      <4>3. t \notin {at[n] : n \in rest}
          BY <2>3, <2>7, <4>2
      <4>4. DOMAIN below[t] = {"index"}
          BY <1>1, <2>1, <4>2, <4>3, Zenon DEF FollowsAt
      <4>5. PICK n \in rest : /\ t < at[n] /\ ~IsNumber(path[n])
                              /\ \A k \in rest : k < n => at[k] < t
          BY <1>1, <2>1, <4>2, <4>3, Zenon DEF FollowsAt
      <4>6. s < new[n]
        <5>1. new[n] = at[n] + 1 /\ at[n] \in 1 .. len
            BY <2>2, <2>3
        <5>. QED
            BY <1>1, <4>2, <4>5, <5>1
      <4>7. \A k \in rest : k < n => new[k] < s
          BY <1>1, <2>2, <2>3, <4>2, <4>5
      <4>. QED
          BY <4>2, <4>4, <4>5, <4>6, <4>7
    <3>. QED
        BY <3>1, <3>2
  <2>8. FollowsAt(new, steps, path, rest)
      BY <2>5, <2>6, <2>7, Zenon DEF FollowsAt
  <2>. QED
      BY <2>4, <2>8, FollowsDef
<1>. QED
    BY <1>2, <1>3 DEF steps

-----------------------------------------------------------------------------
(* Selection *)

Kept(p, path, d) == IF Follows(p.at, path, Rest(path, d)) THEN <<p.value>> ELSE << >>

AllKept(places, path, d) == [n \in DOMAIN places |-> Kept(places[n], path, d)]

\* A selection is of values.
LEMMA SelectionType ==
    ASSUME NEW places \in Seq(DocPlaces), NEW path, NEW d
    PROVE  /\ Selection(places, path, d) = FlattenSeq(AllKept(places, path, d))
           /\ AllKept(places, path, d) \in Seq(Seq(JSON))
           /\ Len(AllKept(places, path, d)) = Len(places)
           /\ Selection(places, path, d) \in Seq(JSON)
<1>1. Selection(places, path, d) = FlattenSeq(AllKept(places, path, d))
    BY Zenon DEF Selection, AllKept, Kept
<1>2. Len(places) \in Nat /\ DOMAIN places = 1 .. Len(places)
    OBVIOUS
<1>3. ASSUME NEW n \in 1 .. Len(places) PROVE Kept(places[n], path, d) \in Seq(JSON)
  <2>1. places[n] \in DocPlaces
      OBVIOUS
  <2>2. places[n].value \in JSON
      BY <2>1 DEF DocPlaces
  <2>3. <<places[n].value>> \in Seq(JSON) /\ << >> \in Seq(JSON)
      BY <2>2
  <2>. QED
      BY <2>3, Zenon DEF Kept
<1>4. AllKept(places, path, d) = [n \in 1 .. Len(places) |-> Kept(places[n], path, d)]
    BY <1>2 DEF AllKept
<1>5. /\ AllKept(places, path, d) \in Seq(Seq(JSON))
      /\ Len(AllKept(places, path, d)) = Len(places)
    BY <1>2, <1>3, <1>4
<1>. QED
    BY <1>1, <1>5, FlattenType

\* The selection from two sequences of places, one after the other.
LEMMA SelectionConcat ==
    ASSUME NEW ps \in Seq(DocPlaces), NEW qs \in Seq(DocPlaces), NEW path, NEW d
    PROVE  Selection(ps \o qs, path, d) = Selection(ps, path, d) \o Selection(qs, path, d)
<1>. DEFINE a == AllKept(ps, path, d)
            b == AllKept(qs, path, d)
            c == AllKept(ps \o qs, path, d)
            n == Len(ps)
            m == Len(qs)
<1>1. /\ n \in Nat /\ m \in Nat /\ ps \o qs \in Seq(DocPlaces) /\ Len(ps \o qs) = n + m
      /\ DOMAIN (ps \o qs) = 1 .. n + m /\ DOMAIN ps = 1 .. n /\ DOMAIN qs = 1 .. m
      /\ \A k \in 1 .. n : (ps \o qs)[k] = ps[k]
    OBVIOUS
<1>2. \A k \in 1 .. m : (ps \o qs)[n + k] = qs[k]
    BY ConcatAt
<1>3. /\ a \in Seq(Seq(JSON)) /\ Len(a) = n
      /\ b \in Seq(Seq(JSON)) /\ Len(b) = m
      /\ c \in Seq(Seq(JSON)) /\ Len(c) = n + m
    BY <1>1, SelectionType
<1>4. ASSUME NEW k \in 1 .. n PROVE c[k] = a[k]
  <2>1. c[k] = Kept((ps \o qs)[k], path, d) /\ a[k] = Kept(ps[k], path, d)
    <3>1. k \in DOMAIN (ps \o qs) /\ k \in DOMAIN ps
        BY <1>1
    <3>. QED
        BY <3>1, Zenon DEF AllKept
  <2>. QED
      BY <1>1, <2>1
<1>5. ASSUME NEW k \in 1 .. m PROVE c[n + k] = b[k]
  <2>. DEFINE l == n + k
  <2>1. c[l] = Kept((ps \o qs)[l], path, d) /\ b[k] = Kept(qs[k], path, d)
    <3>1. l \in DOMAIN (ps \o qs) /\ k \in DOMAIN qs
        BY <1>1
    <3>. QED
        BY <3>1, Zenon DEF AllKept
  <2>2. (ps \o qs)[l] = qs[k]
      BY <1>2
  <2>. HIDE DEF a, b, c
  <2>. QED
      BY <2>1, <2>2, Zenon
<1>7. c = a \o b
  <2>. HIDE DEF a, b, c, n, m
  <2>1. /\ Len(c) = Len(a) + Len(b) /\ \A k \in 1 .. Len(a) : c[k] = a[k]
        /\ \A k \in 1 .. Len(b) : c[Len(a) + k] = b[k]
      BY <1>3, <1>4, <1>5, Zenon
  <2>. QED
      BY <1>3, <2>1, ConcatIs, Zenon
<1>6. FlattenSeq(c) = FlattenSeq(a) \o FlattenSeq(b)
  <2>. HIDE DEF a, b, c
  <2>. QED
      BY <1>3, <1>7, FlattenConcat
<1>. QED
    BY <1>1, <1>6, SelectionType, Zenon

\* Nothing is selected from nowhere, and from one place what is kept of it.
LEMMA SelectionOne ==
    ASSUME NEW p \in DocPlaces, NEW path, NEW d
    PROVE  /\ Selection(<<p>>, path, d) = Kept(p, path, d)
           /\ Selection(<< >>, path, d) = << >>
<1>1. <<p>> \in Seq(DocPlaces) /\ Len(<<p>>) = 1 /\ <<p>>[1] = p /\ DOMAIN <<p>> = 1 .. 1
    OBVIOUS
<1>. DEFINE a == AllKept(<<p>>, path, d)
<1>2. a \in Seq(Seq(JSON)) /\ Len(a) = 1 /\ a[1] = Kept(p, path, d)
      /\ Selection(<<p>>, path, d) = FlattenSeq(a)
  <2>1. a \in Seq(Seq(JSON)) /\ Len(a) = 1 /\ Selection(<<p>>, path, d) = FlattenSeq(a)
      BY <1>1, SelectionType
  <2>2. a[1] = Kept(p, path, d)
    <3>1. 1 \in DOMAIN <<p>>
        BY <1>1
    <3>2. a[1] = Kept(<<p>>[1], path, d)
        BY <3>1, Zenon DEF AllKept
    <3>. QED
        BY <1>1, <3>2
  <2>. QED
      BY <2>1, <2>2
<1>. HIDE DEF a
<1>3. FlattenSeq(a) = a[1]
  <2>1. 1 \in 1 .. Len(a) /\ \A k \in 1 .. Len(a) : k = 1
      BY <1>2
  <2>. QED
      BY <1>2, <2>1, FlattenOne
<1>4. Selection(<< >>, path, d) = << >>
  <2>1. << >> \in Seq(DocPlaces) /\ Len(<< >>) = 0
      OBVIOUS
  <2>2. /\ Selection(<< >>, path, d) = FlattenSeq(AllKept(<< >>, path, d))
        /\ AllKept(<< >>, path, d) \in Seq(Seq(JSON)) /\ Len(AllKept(<< >>, path, d)) = 0
      BY <2>1, SelectionType
  <2>3. FlattenSeq(AllKept(<< >>, path, d)) = AllKept(<< >>, path, d)
      BY <2>2 DEF FlattenSeq
  <2>4. AllKept(<< >>, path, d) = << >>
      BY <2>2
  <2>. QED
      BY <2>2, <2>3, <2>4
<1>. QED
    BY <1>2, <1>3, <1>4

\* And from many.
LEMMA SelectionFlatten ==
    ASSUME NEW ss \in Seq(Seq(DocPlaces)), NEW path, NEW d
    PROVE  /\ Selection(FlattenSeq(ss), path, d)
                  = FlattenSeq([n \in DOMAIN ss |-> Selection(ss[n], path, d)])
           /\ [n \in DOMAIN ss |-> Selection(ss[n], path, d)] \in Seq(Seq(JSON))
<1>. DEFINE n == Len(ss)
            ts == [k \in DOMAIN ss |-> Selection(ss[k], path, d)]
<1>1. n \in Nat /\ DOMAIN ss = 1 .. n /\ \A k \in 1 .. n : ss[k] \in Seq(DocPlaces)
    OBVIOUS
<1>2. ts \in Seq(Seq(JSON)) /\ Len(ts) = n /\ \A k \in 1 .. n : ts[k] = Selection(ss[k], path, d)
  <2>1. \A k \in 1 .. n : Selection(ss[k], path, d) \in Seq(JSON)
      BY <1>1, SelectionType
  <2>. QED
      BY <1>1, <2>1
<1>. HIDE DEF ts
<1>0. \A ps, qs \in Seq(DocPlaces) :
          Selection(ps \o qs, path, d) = Selection(ps, path, d) \o Selection(qs, path, d)
    BY SelectionConcat
<1>3. PICK f \in [0 .. n -> Seq(DocPlaces)] :
          /\ f[0] = << >> /\ \A k \in 1 .. n : f[k] = f[k - 1] \o ss[k]
          /\ FlattenSeq(ss) = f[n]
    BY FlattenSteps
<1>4. PICK g \in [0 .. n -> Seq(JSON)] :
          /\ g[0] = << >> /\ \A k \in 1 .. n : g[k] = g[k - 1] \o ts[k]
          /\ FlattenSeq(ts) = g[n]
  <2>. HIDE DEF n
  <2>. QED
      BY <1>2, FlattenSteps
<1>. DEFINE S == {k \in 0 .. n : Selection(f[k], path, d) = g[k]}
<1>5. 0 \in S
  <2>1. Selection(<< >>, path, d) = << >>
    <3>1. << >> \in Seq(DocPlaces) /\ Len(<< >>) = 0
        OBVIOUS
    <3>2. /\ Selection(<< >>, path, d) = FlattenSeq(AllKept(<< >>, path, d))
          /\ AllKept(<< >>, path, d) \in Seq(Seq(JSON)) /\ Len(AllKept(<< >>, path, d)) = 0
        BY <3>1, SelectionType
    <3>3. FlattenSeq(AllKept(<< >>, path, d)) = AllKept(<< >>, path, d)
        BY <3>2 DEF FlattenSeq
    <3>. QED
        BY <3>2, <3>3
  <2>2. 0 \in 0 .. n
      BY <1>1
  <2>. QED
      BY <1>3, <1>4, <2>1, <2>2, Zenon
<1>6. ASSUME NEW k \in 1 .. n, k - 1 \in S PROVE k \in S
  <2>1. k \in 0 .. n /\ k - 1 \in 0 .. n
      BY <1>1
  <2>2. f[k - 1] \in Seq(DocPlaces) /\ ss[k] \in Seq(DocPlaces)
      BY <1>1, <2>1
  <2>3. Selection(f[k - 1] \o ss[k], path, d) = Selection(f[k - 1], path, d) \o Selection(ss[k], path, d)
    <3>1. PICK before \in Seq(DocPlaces) : before = f[k - 1]
        BY <2>2
    <3>2. PICK next \in Seq(DocPlaces) : next = ss[k]
        BY <2>2
    <3>3. Selection(before \o next, path, d) = Selection(before, path, d) \o Selection(next, path, d)
        BY <1>0
    <3>. QED
        BY <3>1, <3>2, <3>3, Zenon
  <2>4. Selection(f[k - 1], path, d) = g[k - 1]
      BY <1>6
  <2>. HIDE DEF n
  <2>5. Selection(f[k], path, d) = g[k]
      BY <1>2, <1>3, <1>4, <2>3, <2>4, Zenon
  <2>. QED
      BY <2>1, <2>5, Zenon
<1>7. n \in S
  <2>. HIDE DEF S
  <2>1. 0 .. n \subseteq S
      BY <1>1, <1>5, <1>6, Steps
  <2>2. n \in 0 .. n
      BY <1>1
  <2>. QED
      BY <2>1, <2>2
<1>. QED
    BY <1>2, <1>3, <1>4, <1>7 DEF ts

\* From a step on.
LEMMA FromType ==
    ASSUME NEW places \in Seq(DocPlaces), NEW step \in DocSteps
    PROVE  /\ From(step, places) \in Seq(DocPlaces)
           /\ DOMAIN From(step, places) = DOMAIN places
           /\ Len(From(step, places)) = Len(places)
           /\ \A n \in DOMAIN places : /\ places[n].at \in Seq(DocSteps) /\ places[n].value \in JSON
                                       /\ From(step, places)[n].at = <<step>> \o places[n].at
                                       /\ From(step, places)[n].value = places[n].value
<1>1. Len(places) \in Nat /\ DOMAIN places = 1 .. Len(places)
    OBVIOUS
<1>2. ASSUME NEW n \in DOMAIN places
      PROVE  /\ places[n].at \in Seq(DocSteps) /\ places[n].value \in JSON
             /\ From(step, places)[n] = [at |-> <<step>> \o places[n].at, value |-> places[n].value]
             /\ From(step, places)[n] \in DocPlaces
  <2>1. places[n] \in DocPlaces
      OBVIOUS
  <2>2. places[n].at \in Seq(DocSteps) /\ places[n].value \in JSON
      BY <2>1 DEF DocPlaces
  <2>3. <<step>> \o places[n].at \in Seq(DocSteps)
    <3>1. PICK below \in Seq(DocSteps) : below = places[n].at
        BY <2>2
    <3>2. <<step>> \o below \in Seq(DocSteps)
        BY StepBefore
    <3>. QED
        BY <3>1, <3>2
  <2>4. From(step, places)[n] = [at |-> <<step>> \o places[n].at, value |-> places[n].value]
      BY Zenon DEF From
  <2>5. From(step, places)[n] \in DocPlaces
    <3>. DEFINE a == <<step>> \o places[n].at
    <3>. HIDE DEF a
    <3>1. [at |-> a, value |-> places[n].value] \in DocPlaces
        BY <2>2, <2>3 DEF DocPlaces, a
    <3>. QED
        BY <2>4, <3>1 DEF a
  <2>. QED
      BY <2>2, <2>4, <2>5
<1>3. DOMAIN From(step, places) = DOMAIN places
    BY Zenon DEF From
<1>4. From(step, places) = [n \in 1 .. Len(places) |-> From(step, places)[n]]
    BY <1>1, Zenon DEF From
<1>5. From(step, places) \in Seq(DocPlaces) /\ Len(From(step, places)) = Len(places)
  <2>. DEFINE r == From(step, places)
  <2>1. \A n \in 1 .. Len(places) : r[n] \in DocPlaces
      BY <1>1, <1>2
  <2>2. r = [n \in 1 .. Len(places) |-> r[n]]
      BY <1>4
  <2>. HIDE DEF r
  <2>3. r \in Seq(DocPlaces) /\ Len(r) = Len(places)
      BY <1>1, <2>1, <2>2
  <2>. QED
      BY <2>3 DEF r
<1>6. ASSUME NEW n \in DOMAIN places
      PROVE  /\ From(step, places)[n].at = <<step>> \o places[n].at
             /\ From(step, places)[n].value = places[n].value
  <2>. DEFINE a == <<step>> \o places[n].at
  <2>1. From(step, places)[n] = [at |-> a, value |-> places[n].value]
      BY <1>2
  <2>. HIDE DEF a
  <2>2. From(step, places)[n].at = a /\ From(step, places)[n].value = places[n].value
      BY <2>1
  <2>. QED
      BY <2>2 DEF a
<1>. QED
    BY <1>2, <1>3, <1>5, <1>6

\* What is selected beyond a step that follows what the rest of the steps need not.
LEMMA SelectionFrom ==
    ASSUME NEW places \in Seq(DocPlaces), NEW step \in DocSteps, NEW path, NEW d, NEW e,
           \A below \in Seq(DocSteps) :
               Follows(<<step>> \o below, path, Rest(path, d)) <=> Follows(below, path, Rest(path, e))
    PROVE  Selection(From(step, places), path, d) = Selection(places, path, e)
<1>. DEFINE a == AllKept(From(step, places), path, d)
            b == AllKept(places, path, e)
<1>1. ASSUME NEW n \in DOMAIN places PROVE a[n] = b[n]
  <2>1. a[n] = Kept(From(step, places)[n], path, d) /\ b[n] = Kept(places[n], path, e)
    <3>1. DOMAIN From(step, places) = DOMAIN places
        BY FromType
    <3>. QED
        BY <3>1, Zenon DEF AllKept
  <2>2. /\ places[n].at \in Seq(DocSteps)
        /\ From(step, places)[n].at = <<step>> \o places[n].at
        /\ From(step, places)[n].value = places[n].value
      BY FromType
  <2>3. Follows(<<step>> \o places[n].at, path, Rest(path, d)) <=> Follows(places[n].at, path, Rest(path, e))
      BY <2>2, Zenon
  <2>. QED
      BY <2>1, <2>2, <2>3, Zenon DEF Kept
<1>2. /\ a \in Seq(Seq(JSON)) /\ Len(a) = Len(places)
      /\ Selection(From(step, places), path, d) = FlattenSeq(a)
      /\ b \in Seq(Seq(JSON)) /\ Len(b) = Len(places)
      /\ Selection(places, path, e) = FlattenSeq(b)
  <2>1. From(step, places) \in Seq(DocPlaces) /\ Len(From(step, places)) = Len(places)
      BY FromType
  <2>. QED
      BY <2>1, SelectionType, Zenon
<1>. HIDE DEF a, b
<1>3. a = b
  <2>1. DOMAIN places = 1 .. Len(places)
      OBVIOUS
  <2>2. Len(a) = Len(b) /\ \A n \in 1 .. Len(a) : a[n] = b[n]
      BY <1>1, <1>2, <2>1, Zenon
  <2>. QED
      BY <1>2, <2>2, SameSequence, Zenon
<1>. QED
    BY <1>2, <1>3

\* Nothing is selected beyond a step off the path.
LEMMA SelectionOff ==
    ASSUME NEW places \in Seq(DocPlaces), NEW step \in DocSteps, NEW path, NEW d,
           \A below \in Seq(DocSteps) : ~Follows(<<step>> \o below, path, Rest(path, d))
    PROVE  Selection(From(step, places), path, d) = << >>
<1>. DEFINE a == AllKept(From(step, places), path, d)
<1>1. ASSUME NEW n \in DOMAIN places PROVE a[n] = << >>
  <2>1. a[n] = Kept(From(step, places)[n], path, d)
    <3>1. DOMAIN From(step, places) = DOMAIN places
        BY FromType
    <3>. QED
        BY <3>1, Zenon DEF AllKept
  <2>2. /\ places[n].at \in Seq(DocSteps)
        /\ From(step, places)[n].at = <<step>> \o places[n].at
      BY FromType
  <2>3. ~Follows(From(step, places)[n].at, path, Rest(path, d))
      BY <2>2, Zenon
  <2>. QED
      BY <2>1, <2>3, Zenon DEF Kept
<1>2. /\ a \in Seq(Seq(JSON)) /\ Len(a) = Len(places)
      /\ Selection(From(step, places), path, d) = FlattenSeq(a)
  <2>1. From(step, places) \in Seq(DocPlaces) /\ Len(From(step, places)) = Len(places)
      BY FromType
  <2>. QED
      BY <2>1, SelectionType, Zenon
<1>. HIDE DEF a
<1>3. /\ Len(places) \in Nat /\ DOMAIN a = 1 .. Len(places) /\ \A k \in 1 .. Len(places) : a[k] = << >>
      /\ a = [k \in 1 .. Len(places) |-> a[k]]
  <2>1. Len(places) \in Nat /\ DOMAIN places = 1 .. Len(places)
      OBVIOUS
  <2>. QED
      BY <1>1, <1>2, <2>1
<1>4. FlattenSeq([k \in 1 .. Len(places) |-> a[k]]) = << >>
    BY <1>3, FlattenNone
<1>. QED
    BY <1>2, <1>3, <1>4

\* The parts of what is in a value.
ItemPlaces(pl, v) ==
    [n \in DOMAIN Elements(v) |-> From([index |-> n - 1], pl[Elements(v)[n]])]

KeyPlaces(pl, v) ==
    [n \in DOMAIN SetToSeq(Fields(v)) |->
        From([key |-> SetToSeq(Fields(v))[n]], pl[v.obj[SetToSeq(Fields(v))[n]]])]

\* The places in a value: its own, those in its items and those in its fields.
LEMMA PlacesFrom ==
    ASSUME NEW pl, NEW v
    PROVE  placesFrom(pl, v) = <<[at |-> << >>, value |-> v]>> \o FlattenSeq(ItemPlaces(pl, v))
                                   \o FlattenSeq(KeyPlaces(pl, v))
    BY Zenon DEF placesFrom, ItemPlaces, KeyPlaces

\* The keys of an object are its fields.
LEMMA KeysOf ==
    ASSUME NEW v \in JSON
    PROVE  /\ SetToSeq(Fields(v)) \in Seq(Fields(v))
           /\ Len(SetToSeq(Fields(v))) \in Nat
           /\ DOMAIN SetToSeq(Fields(v)) = 1 .. Len(SetToSeq(Fields(v)))
           /\ \A n \in DOMAIN SetToSeq(Fields(v)) : SetToSeq(Fields(v))[n] \in Fields(v)
<1>1. IsFiniteSet(Fields(v))
  <2>1. CASE DOMAIN v = {"obj"}
      BY <2>1, ValueKinds DEF Fields
  <2>2. CASE DOMAIN v # {"obj"}
      BY <2>2, FS_EmptySet DEF Fields
  <2>. QED
      BY <2>1, <2>2
<1>2. SetToSeq(Fields(v)) \in Seq(Fields(v))
    BY <1>1, SetToSeqHas
<1>. QED
    BY <1>2

\* They are places if those in values of less depth are.
LEMMA PartsOfPlaces ==
    ASSUME NEW v \in JSON, NEW pl, \A u \in JSON : Depth[u] < Depth[v] => pl[u] \in Seq(DocPlaces)
    PROVE  /\ ItemPlaces(pl, v) \in Seq(Seq(DocPlaces))
           /\ KeyPlaces(pl, v) \in Seq(Seq(DocPlaces))
           /\ <<[at |-> << >>, value |-> v]>> \in Seq(DocPlaces)
           /\ placesFrom(pl, v) \in Seq(DocPlaces)
<1>. DEFINE items == Elements(v)
            keys == SetToSeq(Fields(v))
            a == ItemPlaces(pl, v)
            b == KeyPlaces(pl, v)
            root == <<[at |-> << >>, value |-> v]>>
<1>1. /\ Len(items) \in Nat /\ DOMAIN items = 1 .. Len(items)
      /\ \A n \in DOMAIN items : items[n] \in JSON /\ Depth[items[n]] < Depth[v]
      /\ \A k \in Fields(v) : v.obj[k] \in JSON /\ Depth[v.obj[k]] < Depth[v]
  <2>1. /\ items \in Seq(JSON)
        /\ \A n \in DOMAIN items : items[n] \in JSON /\ Depth[items[n]] < Depth[v]
        /\ \A k \in Fields(v) : v.obj[k] \in JSON /\ Depth[v.obj[k]] < Depth[v]
      BY Inside
  <2>. QED
      BY <2>1
<1>2. /\ Len(keys) \in Nat /\ DOMAIN keys = 1 .. Len(keys)
      /\ \A n \in DOMAIN keys : keys[n] \in Fields(v)
    BY KeysOf
<1>3. ASSUME NEW n \in 1 .. Len(items)
      PROVE  a[n] = From([index |-> n - 1], pl[items[n]]) /\ a[n] \in Seq(DocPlaces)
  <2>1. [index |-> n - 1] \in DocSteps
      BY <1>1 DEF DocSteps
  <2>2. pl[items[n]] \in Seq(DocPlaces)
      BY <1>1
  <2>3. a[n] = From([index |-> n - 1], pl[items[n]])
      BY <1>1, Zenon DEF ItemPlaces
  <2>. QED
      BY <2>1, <2>2, <2>3, FromType, Zenon
<1>4. ASSUME NEW n \in 1 .. Len(keys)
      PROVE  b[n] = From([key |-> keys[n]], pl[v.obj[keys[n]]]) /\ b[n] \in Seq(DocPlaces)
  <2>1. [key |-> keys[n]] \in DocSteps
      BY <1>2 DEF DocSteps
  <2>2. pl[v.obj[keys[n]]] \in Seq(DocPlaces)
      BY <1>1, <1>2
  <2>3. b[n] = From([key |-> keys[n]], pl[v.obj[keys[n]]])
      BY <1>2, Zenon DEF KeyPlaces
  <2>. QED
      BY <2>1, <2>2, <2>3, FromType, Zenon
<1>5. a \in Seq(Seq(DocPlaces)) /\ b \in Seq(Seq(DocPlaces))
  <2>1. a = [n \in 1 .. Len(items) |-> a[n]] /\ b = [n \in 1 .. Len(keys) |-> b[n]]
      BY <1>1, <1>2, Zenon DEF ItemPlaces, KeyPlaces
  <2>. HIDE DEF a, b
  <2>. QED
      BY <1>1, <1>2, <1>3, <1>4, <2>1, SequenceIs, Zenon
<1>6. root \in Seq(DocPlaces)
  <2>1. [at |-> << >>, value |-> v] \in DocPlaces
    <3>1. << >> \in Seq(DocSteps)
        OBVIOUS
    <3>. QED
        BY <3>1 DEF DocPlaces
  <2>. QED
      BY <2>1
<1>7. placesFrom(pl, v) \in Seq(DocPlaces)
  <2>1. FlattenSeq(a) \in Seq(DocPlaces) /\ FlattenSeq(b) \in Seq(DocPlaces)
      BY <1>5, FlattenType, Zenon
  <2>2. placesFrom(pl, v) = root \o FlattenSeq(a) \o FlattenSeq(b)
      BY PlacesFrom
  <2>. DEFINE fa == FlattenSeq(a)
              fb == FlattenSeq(b)
  <2>. HIDE DEF fa, fb, root
  <2>3. root \o fa \o fb \in Seq(DocPlaces)
      BY <1>6, <2>1 DEF fa, fb
  <2>. QED
      BY <2>2, <2>3 DEF fa, fb
<1>. QED
    BY <1>5, <1>6, <1>7

AllPlaces == CHOOSE pl : pl = [u \in JSON |-> placesFrom(pl, u)]

\* The recursion of PlacesOf has a solution, and PlacesOf is it.
LEMMA PlacesFacts ==
    ASSUME NEW x \in JSON
    PROVE  /\ PlacesOf(x) = AllPlaces[x]
           /\ PlacesOf(x) \in Seq(DocPlaces)
           /\ PlacesOf(x) = placesFrom(AllPlaces, x)
<1>. DEFINE R == Seq(DocPlaces)
            G == [f \in [JSON -> R] |-> [v \in JSON |-> placesFrom(f, v)]]
<1>1. \A v \in JSON : /\ Depth[v] \in 0 .. MaxDepth
                      /\ \A n \in DOMAIN Elements(v) : Elements(v)[n] \in JSON /\ Depth[Elements(v)[n]] < Depth[v]
                      /\ \A k \in Fields(v) : v.obj[k] \in JSON /\ Depth[v.obj[k]] < Depth[v]
    BY Inside
<1>2. \E f \in [JSON -> R] : f = G[f]
  <2>1. ASSUME NEW f \in [JSON -> R], NEW v \in JSON PROVE placesFrom(f, v) \in R
    <3>1. \A u \in JSON : Depth[u] < Depth[v] => f[u] \in Seq(DocPlaces)
        OBVIOUS
    <3>. QED
        BY <3>1, PartsOfPlaces
  <2>2. \A f \in [JSON -> R] : G[f] \in [JSON -> R]
      BY <2>1
  <2>3. ASSUME NEW f \in [JSON -> R], NEW g \in [JSON -> R], NEW v \in JSON,
               \A u \in JSON : Depth[u] < Depth[v] => f[u] = g[u]
        PROVE  G[f][v] = G[g][v]
    <3>1. ItemPlaces(f, v) = ItemPlaces(g, v)
      <4>1. \A n \in DOMAIN Elements(v) : f[Elements(v)[n]] = g[Elements(v)[n]]
          BY <1>1, <2>3
      <4>. QED
          BY <4>1, Zenon DEF ItemPlaces
    <3>2. KeyPlaces(f, v) = KeyPlaces(g, v)
      <4>1. \A n \in DOMAIN SetToSeq(Fields(v)) : SetToSeq(Fields(v))[n] \in Fields(v)
          BY KeysOf
      <4>2. \A k \in Fields(v) : f[v.obj[k]] = g[v.obj[k]]
          BY <1>1, <2>3
      <4>. QED
          BY <4>1, <4>2, Zenon DEF KeyPlaces
    <3>3. placesFrom(f, v) = placesFrom(g, v)
        BY <3>1, <3>2, PlacesFrom, Zenon
    <3>4. G[f][v] = placesFrom(f, v) /\ G[g][v] = placesFrom(g, v)
        BY Zenon
    <3>. QED
        BY <3>3, <3>4, Zenon
  <2>4. MaxDepth \in Nat /\ \A v \in JSON : Depth[v] \in 0 .. MaxDepth
      BY <1>1, JSONAssumption
  <2>5. R # {}
    <3>1. << >> \in R
        OBVIOUS
    <3>. QED
        BY <3>1
  <2>. HIDE DEF G, R
  <2>6. \A f, g \in [JSON -> R] : \A v \in JSON :
            (\A u \in JSON : Depth[u] < Depth[v] => f[u] = g[u]) => G[f][v] = G[g][v]
      BY <2>3
  <2>7. GoesDown(G, JSON, R, Depth, MaxDepth)
      BY <2>2, <2>4, <2>5, <2>6 DEF GoesDown
  <2>. QED
      BY <2>7, Recursion
<1>3. AllPlaces = [v \in JSON |-> placesFrom(AllPlaces, v)] 
  <2>1. \E f : f = [v \in JSON |-> placesFrom(f, v)]
    <3>1. PICK f \in [JSON -> R] : f = G[f]
        BY <1>2
    <3>2. G[f] = [v \in JSON |-> placesFrom(f, v)]
        BY Zenon
    <3>. QED
        BY <3>1, <3>2, Zenon
  <2>. QED
      BY <2>1, Zenon DEF AllPlaces
<1>4. \A v \in JSON : AllPlaces[v] = placesFrom(AllPlaces, v)
    BY <1>3, Zenon
<1>. DEFINE S == {v \in JSON : AllPlaces[v] \in Seq(DocPlaces)}
<1>5. \A v \in JSON : (\A u \in JSON : Depth[u] < Depth[v] => u \in S) => v \in S
  <2>. SUFFICES ASSUME NEW v \in JSON, \A u \in JSON : Depth[u] < Depth[v] => u \in S
                PROVE  AllPlaces[v] \in Seq(DocPlaces)
      BY Zenon
  <2>1. \A u \in JSON : Depth[u] < Depth[v] => AllPlaces[u] \in Seq(DocPlaces)
      BY Zenon
  <2>2. placesFrom(AllPlaces, v) \in Seq(DocPlaces)
      BY <2>1, PartsOfPlaces
  <2>. QED
      BY <1>4, <2>2, Zenon
<1>6. JSON \subseteq S
  <2>1. \A v \in JSON : Depth[v] \in Nat
      BY <1>1
  <2>. HIDE DEF S
  <2>. QED
      BY <1>5, <2>1, Ranks
<1>7. AllPlaces[x] \in Seq(DocPlaces)
    BY <1>6, Zenon
<1>8. PlacesOf(x) = AllPlaces[x]
    BY Zenon DEF PlacesOf, AllPlaces
<1>. QED
    BY <1>4, <1>7, <1>8, Zenon

\* What is selected in the parts of a value.
ItemsSelected(v, path, d) ==
    [n \in DOMAIN Elements(v) |->
        Selection(From([index |-> n - 1], PlacesOf(Elements(v)[n])), path, d)]

KeysSelected(v, path, d) ==
    [n \in DOMAIN SetToSeq(Fields(v)) |->
        Selection(From([key |-> SetToSeq(Fields(v))[n]],
                       PlacesOf(v.obj[SetToSeq(Fields(v))[n]])), path, d)]

Root(v) == [at |-> << >>, value |-> v]

\* The selection in a value: the value itself, if no part is left, and what is selected
\* in its items and in its fields.
LEMMA SelectionOfPlaces ==
    ASSUME NEW v \in JSON, NEW path, NEW d
    PROVE  /\ Selection(PlacesOf(v), path, d) =
                  Kept(Root(v), path, d) \o FlattenSeq(ItemsSelected(v, path, d))
                      \o FlattenSeq(KeysSelected(v, path, d))
           /\ ItemsSelected(v, path, d) \in Seq(Seq(JSON))
           /\ KeysSelected(v, path, d) \in Seq(Seq(JSON))
<1>. DEFINE items == Elements(v)
            keys == SetToSeq(Fields(v))
            a == ItemPlaces(AllPlaces, v)
            b == KeyPlaces(AllPlaces, v)
<1>1. /\ a \in Seq(Seq(DocPlaces)) /\ b \in Seq(Seq(DocPlaces))
      /\ <<Root(v)>> \in Seq(DocPlaces)
  <2>1. \A u \in JSON : Depth[u] < Depth[v] => AllPlaces[u] \in Seq(DocPlaces)
      BY PlacesFacts
  <2>. QED
      BY <2>1, PartsOfPlaces DEF Root
<1>2. PlacesOf(v) = <<Root(v)>> \o FlattenSeq(a) \o FlattenSeq(b)
    BY PlacesFacts, PlacesFrom, Zenon DEF Root
<1>3. FlattenSeq(a) \in Seq(DocPlaces) /\ FlattenSeq(b) \in Seq(DocPlaces)
    BY <1>1, FlattenType, Zenon
<1>4. \A ps, qs \in Seq(DocPlaces) :
          Selection(ps \o qs, path, d) = Selection(ps, path, d) \o Selection(qs, path, d)
    BY SelectionConcat
<1>5. Selection(PlacesOf(v), path, d) =
          Selection(<<Root(v)>>, path, d) \o Selection(FlattenSeq(a), path, d)
              \o Selection(FlattenSeq(b), path, d)
  <2>1. PICK root \in Seq(DocPlaces) : root = <<Root(v)>>
      BY <1>1, Zenon
  <2>2. PICK fa \in Seq(DocPlaces) : fa = FlattenSeq(a)
      BY <1>3, Zenon
  <2>3. PICK fb \in Seq(DocPlaces) : fb = FlattenSeq(b)
      BY <1>3, Zenon
  <2>. HIDE DEF a, b
  <2>4. PICK both \in Seq(DocPlaces) : both = root \o fa
    <3>1. root \o fa \in Seq(DocPlaces)
        OBVIOUS
    <3>. QED
        BY <3>1, Zenon
  <2>5. Selection(both, path, d) = Selection(root, path, d) \o Selection(fa, path, d)
      BY <1>4, <2>4
  <2>6. Selection(both \o fb, path, d) = Selection(both, path, d) \o Selection(fb, path, d)
      BY <1>4
  <2>. QED
      BY <1>2, <2>1, <2>2, <2>3, <2>4, <2>5, <2>6, Zenon
<1>6. Selection(<<Root(v)>>, path, d) = Kept(Root(v), path, d)
  <2>1. Root(v) \in DocPlaces
    <3>1. << >> \in Seq(DocSteps)
        OBVIOUS
    <3>. QED
        BY <3>1 DEF Root, DocPlaces
  <2>. QED
      BY <2>1, SelectionOne
<1>7. \A n \in DOMAIN items : items[n] \in JSON
    BY Inside
<1>8. \A n \in DOMAIN keys : keys[n] \in Fields(v) /\ v.obj[keys[n]] \in JSON
    BY Inside, KeysOf
<1>9. /\ Selection(FlattenSeq(a), path, d) = FlattenSeq(ItemsSelected(v, path, d))
      /\ ItemsSelected(v, path, d) \in Seq(Seq(JSON))
  <2>1. ItemsSelected(v, path, d) = [n \in DOMAIN a |-> Selection(a[n], path, d)]
    <3>1. DOMAIN a = DOMAIN items
        BY Zenon DEF ItemPlaces
    <3>2. \A n \in DOMAIN items : a[n] = From([index |-> n - 1], PlacesOf(items[n]))
      <4>1. \A n \in DOMAIN items : AllPlaces[items[n]] = PlacesOf(items[n])
          BY <1>7, PlacesFacts, Zenon
      <4>2. \A n \in DOMAIN items : a[n] = From([index |-> n - 1], AllPlaces[items[n]])
          BY Zenon DEF ItemPlaces
      <4>. QED
          BY <4>1, <4>2, Zenon
    <3>. QED
        BY <3>1, <3>2, Zenon DEF ItemsSelected
  <2>2. PICK ss \in Seq(Seq(DocPlaces)) : ss = a
      BY <1>1, Zenon
  <2>3. /\ Selection(FlattenSeq(ss), path, d) = FlattenSeq([n \in DOMAIN ss |-> Selection(ss[n], path, d)])
        /\ [n \in DOMAIN ss |-> Selection(ss[n], path, d)] \in Seq(Seq(JSON))
    <3>. HIDE DEF a, b, items, keys
    <3>. QED
        BY SelectionFlatten
  <2>. QED
      BY <2>1, <2>2, <2>3, Zenon
<1>10. /\ Selection(FlattenSeq(b), path, d) = FlattenSeq(KeysSelected(v, path, d))
       /\ KeysSelected(v, path, d) \in Seq(Seq(JSON))
  <2>1. KeysSelected(v, path, d) = [n \in DOMAIN b |-> Selection(b[n], path, d)]
    <3>1. DOMAIN b = DOMAIN keys
        BY Zenon DEF KeyPlaces
    <3>2. \A n \in DOMAIN keys : b[n] = From([key |-> keys[n]], PlacesOf(v.obj[keys[n]]))
      <4>1. \A n \in DOMAIN keys : AllPlaces[v.obj[keys[n]]] = PlacesOf(v.obj[keys[n]])
          BY <1>8, PlacesFacts, Zenon
      <4>2. \A n \in DOMAIN keys : b[n] = From([key |-> keys[n]], AllPlaces[v.obj[keys[n]]])
          BY Zenon DEF KeyPlaces
      <4>. QED
          BY <4>1, <4>2, Zenon
    <3>. QED
        BY <3>1, <3>2, Zenon DEF KeysSelected
  <2>2. PICK ss \in Seq(Seq(DocPlaces)) : ss = b
      BY <1>1, Zenon
  <2>3. /\ Selection(FlattenSeq(ss), path, d) = FlattenSeq([n \in DOMAIN ss |-> Selection(ss[n], path, d)])
        /\ [n \in DOMAIN ss |-> Selection(ss[n], path, d)] \in Seq(Seq(JSON))
    <3>. HIDE DEF a, b, items, keys
    <3>. QED
        BY SelectionFlatten
  <2>. QED
      BY <2>1, <2>2, <2>3, Zenon
<1>. QED
    BY <1>5, <1>6, <1>9, <1>10, Zenon

\* The numbers of the parts that are left.
LEMMA RestFacts ==
    ASSUME NEW path \in Seq(STRING), NEW d \in 0 .. Len(path)
    PROVE  /\ Rest(path, d) \in SUBSET Nat
           /\ d = Len(path) => Rest(path, d) = {}
           /\ d < Len(path) /\ path[d + 1] = Empty => Rest(path, d) = Rest(path, d + 1)
           /\ d < Len(path) /\ path[d + 1] # Empty =>
                  /\ d + 1 \in Rest(path, d) /\ \A n \in Rest(path, d) : d + 1 <= n
                  /\ Rest(path, d) \ {d + 1} = Rest(path, d + 1)
<1>1. Len(path) \in Nat /\ DOMAIN path = 1 .. Len(path)
    OBVIOUS
<1>2. Rest(path, d) \in SUBSET Nat /\ (d = Len(path) => Rest(path, d) = {})
  <2>. DEFINE rest == Rest(path, d)
  <2>1. \A n \in rest : n \in DOMAIN path /\ n > d
      BY Zenon DEF Rest
  <2>. HIDE DEF rest
  <2>2. ASSUME NEW n \in rest PROVE n \in Nat /\ d # Len(path)
    <3>1. PICK len \in Nat : len = Len(path)
        BY <1>1, Zenon
    <3>2. PICK k \in 1 .. len : k = n
        BY <1>1, <2>1, <3>1, Zenon
    <3>3. k > d
        BY <2>1, <3>2, Zenon
    <3>. QED
        BY <3>1, <3>2, <3>3
  <2>. QED
      BY <2>2 DEF rest
<1>. DEFINE m == d + 1
<1>3. d < Len(path) => m \in DOMAIN path /\ m > d
    BY <1>1
<1>4. \A n \in DOMAIN path : n > d <=> n > m \/ n = m
    BY <1>1
<1>5. \A n \in DOMAIN path : n = m => ~(n > m)
    BY <1>1
<1>6. \A n \in DOMAIN path : n > d => m <= n
    BY <1>1
<1>. HIDE DEF m
<1>7. d < Len(path) /\ path[m] = Empty => Rest(path, d) = Rest(path, m)
  <2>. SUFFICES ASSUME d < Len(path), path[m] = Empty PROVE Rest(path, d) = Rest(path, m)
      OBVIOUS
  <2>1. \A n \in DOMAIN path : n > d /\ path[n] # Empty <=> n > m /\ path[n] # Empty
      BY <1>4, Zenon
  <2>. QED
      BY <2>1, Zenon DEF Rest
<1>8. d < Len(path) /\ path[m] # Empty =>
          /\ m \in Rest(path, d) /\ \A n \in Rest(path, d) : m <= n
          /\ Rest(path, d) \ {m} = Rest(path, m)
  <2>. SUFFICES ASSUME d < Len(path), path[m] # Empty
                PROVE  /\ m \in Rest(path, d) /\ \A n \in Rest(path, d) : m <= n
                       /\ Rest(path, d) \ {m} = Rest(path, m)
      OBVIOUS
  <2>1. m \in Rest(path, d) /\ \A n \in Rest(path, d) : m <= n
      BY <1>3, <1>6, Zenon DEF Rest
  <2>2. \A n \in DOMAIN path : n > d /\ path[n] # Empty /\ n # m <=> n > m /\ path[n] # Empty
      BY <1>4, <1>5, Zenon
  <2>3. Rest(path, d) \ {m} = {n \in DOMAIN path : n > d /\ path[n] # Empty /\ n # m}
      BY DEF Rest
  <2>4. Rest(path, d) \ {m} = Rest(path, m)
      BY <2>2, <2>3, Zenon DEF Rest
  <2>. QED
      BY <2>1, <2>4
<1>. QED
    BY <1>2, <1>7, <1>8 DEF m

\* What is selected in the items of a value, when the next part is a number or not.
LEMMA ItemSteps ==
    ASSUME NEW v \in JSON, NEW path \in Seq(STRING), NEW d \in 0 .. Len(path), d < Len(path),
           path[d + 1] # Empty, NEW n \in DOMAIN Elements(v)
    PROVE  /\ n \in 1 .. Len(Elements(v))
           /\ ItemsSelected(v, path, d)[n] =
                  IF ~IsNumber(path[d + 1]) THEN Selection(PlacesOf(Elements(v)[n]), path, d)
                  ELSE IF Atoi[path[d + 1]] = n - 1
                  THEN Selection(PlacesOf(Elements(v)[n]), path, d + 1)
                  ELSE << >>
<1>. DEFINE m == d + 1
            rest == Rest(path, d)
            step == [index |-> n - 1]
            places == PlacesOf(Elements(v)[n])
<1>1. /\ rest \in SUBSET Nat /\ m \in rest /\ \A k \in rest : m <= k
      /\ rest \ {m} = Rest(path, m)
    BY RestFacts
<1>2. Elements(v)[n] \in JSON /\ n \in 1 .. Len(Elements(v))
  <2>1. Elements(v) \in Seq(JSON)
      BY Inside
  <2>. QED
      BY <2>1
<1>3. places \in Seq(DocPlaces)
    BY <1>2, PlacesFacts
<1>4. step \in DocSteps /\ DOMAIN step = {"index"} /\ step.index = n - 1
    BY <1>2 DEF DocSteps
<1>5. ItemsSelected(v, path, d)[n] = Selection(From(step, places), path, d)
    BY Zenon DEF ItemsSelected
<1>6. Names(path[m], step) <=> IsNumber(path[m]) /\ Atoi[path[m]] = n - 1
    BY <1>4, Zenon DEF Names
<1>. HIDE DEF m, rest, step, places
<1>7. CASE ~IsNumber(path[m])
  <2>1. \A below \in Seq(DocSteps) : Follows(<<step>> \o below, path, rest) <=> Follows(below, path, rest)
      BY <1>1, <1>4, <1>7, FollowsPast
  <2>2. Selection(From(step, places), path, d) = Selection(places, path, d)
      BY <1>3, <1>4, <2>1, SelectionFrom DEF rest
  <2>. QED
      BY <1>2, <1>5, <1>7, <2>2, Zenon DEF m, places
<1>8. CASE IsNumber(path[m])
  <2>1. \A below \in Seq(DocSteps) :
            Follows(<<step>> \o below, path, rest) <=>
                Names(path[m], step) /\ Follows(below, path, rest \ {m})
      BY <1>1, <1>4, <1>8, FollowsNext
  <2>2. CASE Atoi[path[m]] = n - 1
    <3>1. \A below \in Seq(DocSteps) :
              Follows(<<step>> \o below, path, rest) <=> Follows(below, path, Rest(path, m))
        BY <1>1, <1>6, <1>8, <2>1, <2>2, Zenon
    <3>2. Selection(From(step, places), path, d) = Selection(places, path, m)
        BY <1>3, <1>4, <3>1, SelectionFrom DEF rest
    <3>. QED
        BY <1>2, <1>5, <1>8, <2>2, <3>2, Zenon DEF m, places
  <2>3. CASE Atoi[path[m]] # n - 1
    <3>1. \A below \in Seq(DocSteps) : ~Follows(<<step>> \o below, path, rest)
        BY <1>6, <2>1, <2>3, Zenon
    <3>2. Selection(From(step, places), path, d) = << >>
        BY <1>3, <1>4, <3>1, SelectionOff DEF rest
    <3>. QED
        BY <1>2, <1>5, <1>8, <2>3, <3>2, Zenon DEF m, places
  <2>. QED
      BY <2>2, <2>3
<1>. QED
    BY <1>7, <1>8

\* And in its fields.
LEMMA KeySteps ==
    ASSUME NEW v \in JSON, NEW path \in Seq(STRING), NEW d \in 0 .. Len(path), d < Len(path),
           path[d + 1] # Empty, NEW n \in DOMAIN SetToSeq(Fields(v))
    PROVE  KeysSelected(v, path, d)[n] =
               IF SetToSeq(Fields(v))[n] = path[d + 1]
               THEN Selection(PlacesOf(v.obj[path[d + 1]]), path, d + 1)
               ELSE << >>
<1>. DEFINE m == d + 1
            rest == Rest(path, d)
            key == SetToSeq(Fields(v))[n]
            step == [key |-> key]
            places == PlacesOf(v.obj[key])
<1>1. /\ rest \in SUBSET Nat /\ m \in rest /\ \A k \in rest : m <= k
      /\ rest \ {m} = Rest(path, m)
    BY RestFacts
<1>2. key \in Fields(v) /\ v.obj[key] \in JSON
    BY KeysOf, Inside
<1>3. places \in Seq(DocPlaces)
    BY <1>2, PlacesFacts
<1>4. step \in DocSteps /\ DOMAIN step = {"key"} /\ step.key = key
    BY <1>2 DEF DocSteps
<1>5. KeysSelected(v, path, d)[n] = Selection(From(step, places), path, d)
    BY Zenon DEF KeysSelected
<1>6. Names(path[m], step) <=> key = path[m]
  <2>1. {"key"} # {"index"}
      OBVIOUS
  <2>. QED
      BY <1>4, <2>1, Zenon DEF Names
<1>. HIDE DEF m, rest, step
<1>7. \A below \in Seq(DocSteps) :
          Follows(<<step>> \o below, path, rest) <=>
              Names(path[m], step) /\ Follows(below, path, rest \ {m})
    BY <1>1, <1>4, FollowsNext
<1>8. CASE key = path[m]
  <2>1. \A below \in Seq(DocSteps) :
            Follows(<<step>> \o below, path, rest) <=> Follows(below, path, Rest(path, m))
      BY <1>1, <1>6, <1>7, <1>8, Zenon
  <2>. HIDE DEF key, places
  <2>2. Selection(From(step, places), path, d) = Selection(places, path, m)
      BY <1>3, <1>4, <2>1, SelectionFrom DEF rest
  <2>. QED
      BY <1>5, <1>8, <2>2, Zenon DEF m, places, key
<1>9. CASE key # path[m]
  <2>1. \A below \in Seq(DocSteps) : ~Follows(<<step>> \o below, path, rest)
      BY <1>6, <1>7, <1>9, Zenon
  <2>. HIDE DEF key, places
  <2>2. Selection(From(step, places), path, d) = << >>
      BY <1>3, <1>4, <2>1, SelectionOff DEF rest
  <2>. QED
      BY <1>5, <1>9, <2>2, Zenon DEF m, key
<1>. QED
    BY <1>8, <1>9

\* When no part is left, only the value itself is selected.
LEMMA NothingLeft ==
    ASSUME NEW v \in JSON, NEW path \in Seq(STRING)
    PROVE  Selection(PlacesOf(v), path, Len(path)) = <<v>>
<1>. DEFINE d == Len(path)
            a == ItemsSelected(v, path, d)
            b == KeysSelected(v, path, d)
<1>1. d \in 0 .. Len(path) /\ Rest(path, d) = {}
  <2>1. d \in 0 .. Len(path)
      OBVIOUS
  <2>. QED
      BY <2>1, RestFacts
<1>2. /\ Selection(PlacesOf(v), path, d) = Kept(Root(v), path, d) \o FlattenSeq(a) \o FlattenSeq(b)
      /\ a \in Seq(Seq(JSON)) /\ b \in Seq(Seq(JSON))
    BY SelectionOfPlaces
<1>3. ASSUME NEW step \in DocSteps, NEW below \in Seq(DocSteps)
      PROVE  ~Follows(<<step>> \o below, path, Rest(path, d))
  <2>1. /\ <<step>> \o below \in Seq(DocSteps)
        /\ DOMAIN (<<step>> \o below) = 1 .. Len(below) + 1 /\ Len(below) \in Nat
      BY StepBefore
  <2>2. <<step>> \o below # << >>
    <3>1. 1 \in DOMAIN (<<step>> \o below) /\ DOMAIN << >> = {}
        BY <2>1
    <3>. QED
        BY <3>1, Zenon
  <2>. QED
      BY <1>1, <2>1, <2>2, FollowsNothing
<1>4. Kept(Root(v), path, d) = <<v>>
  <2>1. Follows(<< >>, path, Rest(path, d))
    <3>1. << >> \in Seq(DocSteps)
        OBVIOUS
    <3>. QED
        BY <1>1, <3>1, FollowsNothing
  <2>2. Root(v).at = << >> /\ Root(v).value = v
      BY DEF Root
  <2>. QED
      BY <2>1, <2>2, Zenon DEF Kept
<1>5. \A n \in DOMAIN a : a[n] = << >>
  <2>. SUFFICES ASSUME NEW n \in DOMAIN Elements(v) PROVE a[n] = << >>
      BY Zenon DEF ItemsSelected
  <2>1. Elements(v)[n] \in JSON /\ n \in 1 .. Len(Elements(v))
    <3>1. Elements(v) \in Seq(JSON)
        BY Inside
    <3>. QED
        BY <3>1
  <2>2. [index |-> n - 1] \in DocSteps /\ PlacesOf(Elements(v)[n]) \in Seq(DocPlaces)
      BY <2>1, PlacesFacts DEF DocSteps
  <2>3. a[n] = Selection(From([index |-> n - 1], PlacesOf(Elements(v)[n])), path, d)
      BY Zenon DEF ItemsSelected
  <2>. QED
      BY <1>3, <2>2, <2>3, SelectionOff, Zenon
<1>6. \A n \in DOMAIN b : b[n] = << >>
  <2>. DEFINE keys == SetToSeq(Fields(v))
  <2>. SUFFICES ASSUME NEW n \in DOMAIN keys PROVE b[n] = << >>
      BY Zenon DEF KeysSelected
  <2>1. keys[n] \in Fields(v) /\ v.obj[keys[n]] \in JSON
      BY Inside, KeysOf
  <2>2. [key |-> keys[n]] \in DocSteps /\ PlacesOf(v.obj[keys[n]]) \in Seq(DocPlaces)
      BY <2>1, PlacesFacts DEF DocSteps
  <2>3. b[n] = Selection(From([key |-> keys[n]], PlacesOf(v.obj[keys[n]])), path, d)
      BY Zenon DEF KeysSelected
  <2>. QED
      BY <1>3, <2>2, <2>3, SelectionOff, Zenon
<1>. HIDE DEF a, b, d
<1>7. FlattenSeq(a) = << >> /\ FlattenSeq(b) = << >>
    BY <1>2, <1>5, <1>6, FlattenEmpty
<1>8. <<v>> \o << >> \o << >> = <<v>>
    OBVIOUS
<1>. QED
    BY <1>2, <1>4, <1>7, <1>8, Zenon DEF d

\* When the next part is empty, it is left out.
LEMMA EmptyLeft ==
    ASSUME NEW v \in JSON, NEW path \in Seq(STRING), NEW d \in 0 .. Len(path), d < Len(path),
           path[d + 1] = Empty
    PROVE  Selection(PlacesOf(v), path, d) = Selection(PlacesOf(v), path, d + 1)
<1>1. Rest(path, d) = Rest(path, d + 1)
    BY RestFacts
<1>. QED
    BY <1>1, Zenon DEF Selection

\* What is selected in a value when some part is left.
LEMMA PartLeft ==
    ASSUME NEW v \in JSON, NEW path \in Seq(STRING), NEW d \in 0 .. Len(path), d < Len(path),
           path[d + 1] # Empty
    PROVE  LET part == path[d + 1]
               items == Elements(v)
           IN /\ part \in Fields(v) =>
                     Selection(PlacesOf(v), path, d) = Selection(PlacesOf(v.obj[part]), path, d + 1)
              /\ part \notin Fields(v) =>
                     Selection(PlacesOf(v), path, d) = FlattenSeq(ItemsSelected(v, path, d))
<1>. DEFINE part == path[d + 1]
            items == Elements(v)
            keys == SetToSeq(Fields(v))
            a == ItemsSelected(v, path, d)
            b == KeysSelected(v, path, d)
<1>1. /\ Selection(PlacesOf(v), path, d) = Kept(Root(v), path, d) \o FlattenSeq(a) \o FlattenSeq(b)
      /\ a \in Seq(Seq(JSON)) /\ b \in Seq(Seq(JSON))
    BY SelectionOfPlaces
<1>2. Kept(Root(v), path, d) = << >>
  <2>1. Rest(path, d) # {}
      BY RestFacts
  <2>2. ~Follows(<< >>, path, Rest(path, d))
      BY <2>1, NothingFollows
  <2>3. Root(v).at = << >>
      BY DEF Root
  <2>. QED
      BY <2>2, <2>3, Zenon DEF Kept
<1>3. FlattenSeq(a) \in Seq(JSON) /\ FlattenSeq(b) \in Seq(JSON)
    BY <1>1, FlattenType, Zenon
<1>4. Selection(PlacesOf(v), path, d) = FlattenSeq(a) \o FlattenSeq(b)
  <2>1. PICK fa \in Seq(JSON) : fa = FlattenSeq(a)
      BY <1>3, Zenon
  <2>. HIDE DEF a, b
  <2>2. << >> \o fa = fa
      OBVIOUS
  <2>. QED
      BY <1>1, <1>2, <2>1, <2>2, Zenon
<1>5. DOMAIN a = DOMAIN items /\ DOMAIN b = DOMAIN keys
    BY Zenon DEF ItemsSelected, KeysSelected
<1>6. \A n \in DOMAIN keys :
          b[n] = IF keys[n] = part THEN Selection(PlacesOf(v.obj[part]), path, d + 1) ELSE << >>
    BY KeySteps
<1>7. ASSUME part \in Fields(v)
      PROVE  Selection(PlacesOf(v), path, d) = Selection(PlacesOf(v.obj[part]), path, d + 1)
  <2>1. items = << >>
    <3>1. DOMAIN v # {"list"}
        BY <1>7 DEF Fields
    <3>. QED
        BY <3>1, Zenon DEF Elements
  <2>2. FlattenSeq(a) = << >>
    <3>1. \A n \in DOMAIN a : a[n] = << >>
      <4>1. DOMAIN << >> = {}
          OBVIOUS
      <4>. QED
          BY <1>5, <2>1, <4>1, Zenon
    <3>. HIDE DEF a
    <3>. QED
        BY <1>1, <3>1, FlattenEmpty
  <2>3. PICK k \in DOMAIN keys : keys[k] = part
    <3>1. IsFiniteSet(Fields(v))
      <4>1. DOMAIN v = {"obj"}
          BY <1>7 DEF Fields
      <4>. QED
          BY <4>1, ValueKinds DEF Fields
    <3>2. \E n \in 1 .. Len(keys) : keys[n] = part
        BY <1>7, <3>1, SetToSeqHas
    <3>. QED
        BY <3>2, KeysOf
  <2>4. \A n \in DOMAIN keys : keys[n] = part => n = k
    <3>1. IsFiniteSet(Fields(v))
      <4>1. DOMAIN v = {"obj"}
          BY <1>7 DEF Fields
      <4>. QED
          BY <4>1, ValueKinds DEF Fields
    <3>2. \A n, m \in 1 .. Len(keys) : keys[n] = keys[m] => n = m
        BY <3>1, SetToSeqHas
    <3>. QED
        BY <2>3, <3>2, KeysOf
  <2>5. FlattenSeq(b) = b[k]
    <3>1. DOMAIN b = 1 .. Len(b)
        BY <1>1
    <3>2. k \in 1 .. Len(b) /\ \A n \in 1 .. Len(b) : n # k => b[n] = << >>
        BY <1>5, <1>6, <2>3, <2>4, <3>1, Zenon
    <3>. HIDE DEF b
    <3>. QED
        BY <1>1, <3>2, FlattenOne
  <2>6. b[k] = Selection(PlacesOf(v.obj[part]), path, d + 1)
      BY <1>6, <2>3, Zenon
  <2>7. PICK fb \in Seq(JSON) : fb = FlattenSeq(b)
      BY <1>3, Zenon
  <2>. HIDE DEF a, b
  <2>8. << >> \o fb = fb
      OBVIOUS
  <2>. QED
      BY <1>4, <2>2, <2>5, <2>6, <2>7, <2>8, Zenon
<1>8. ASSUME part \notin Fields(v)
      PROVE  Selection(PlacesOf(v), path, d) = FlattenSeq(a)
  <2>1. \A n \in DOMAIN b : b[n] = << >>
    <3>1. \A n \in DOMAIN keys : keys[n] # part
        BY <1>8, KeysOf
    <3>. QED
        BY <1>5, <1>6, <3>1, Zenon
  <2>2. PICK fa \in Seq(JSON) : fa = FlattenSeq(a)
      BY <1>3, Zenon
  <2>. HIDE DEF a, b
  <2>3. FlattenSeq(b) = << >>
      BY <1>1, <2>1, FlattenEmpty
  <2>4. fa \o << >> = fa
      OBVIOUS
  <2>. QED
      BY <1>4, <2>2, <2>3, <2>4, Zenon
<1>. QED
    BY <1>7, <1>8

\* What is selected in a list at a position.
LEMMA ItemLeft ==
    ASSUME NEW v \in JSON, NEW path \in Seq(STRING), NEW d \in 0 .. Len(path), d < Len(path),
           path[d + 1] # Empty, IsNumber(path[d + 1])
    PROVE  LET n == Atoi[path[d + 1]] + 1
               items == Elements(v)
           IN FlattenSeq(ItemsSelected(v, path, d)) =
                  IF n \in DOMAIN items THEN Selection(PlacesOf(items[n]), path, d + 1) ELSE << >>
<1>. DEFINE part == path[d + 1]
            items == Elements(v)
            n == Atoi[part] + 1
            a == ItemsSelected(v, path, d)
<1>1. a \in Seq(Seq(JSON)) /\ DOMAIN a = DOMAIN items /\ DOMAIN a = 1 .. Len(a)
  <2>1. a \in Seq(Seq(JSON))
      BY SelectionOfPlaces
  <2>2. DOMAIN a = DOMAIN items
      BY Zenon DEF ItemsSelected
  <2>. HIDE DEF a
  <2>. QED
      BY <2>1, <2>2
<1>2. Atoi[part] \in Int
    BY AtoiAssumption DEF IsNumber
<1>3. ASSUME NEW k \in DOMAIN items
      PROVE  a[k] = IF k = n THEN Selection(PlacesOf(items[k]), path, d + 1) ELSE << >>
  <2>1. /\ k \in 1 .. Len(items)
        /\ a[k] = IF Atoi[part] = k - 1 THEN Selection(PlacesOf(items[k]), path, d + 1) ELSE << >>
      BY ItemSteps
  <2>2. Atoi[part] = k - 1 <=> k = n
      BY <1>2, <2>1
  <2>. HIDE DEF a, n, part, items
  <2>. QED
      BY <2>1, <2>2, Zenon
<1>. HIDE DEF a, n
<1>4. CASE n \in DOMAIN items
  <2>1. FlattenSeq(a) = a[n]
    <3>1. n \in 1 .. Len(a) /\ \A k \in 1 .. Len(a) : k # n => a[k] = << >>
        BY <1>1, <1>3, <1>4, Zenon
    <3>. QED
        BY <1>1, <3>1, FlattenOne
  <2>. QED
      BY <1>3, <1>4, <2>1, Zenon DEF a, n
<1>5. CASE n \notin DOMAIN items
  <2>1. \A k \in DOMAIN a : a[k] = << >>
      BY <1>1, <1>3, <1>5, Zenon
  <2>2. FlattenSeq(a) = << >>
      BY <1>1, <2>1, FlattenEmpty
  <2>. QED
      BY <1>5, <2>2, Zenon DEF a, n
<1>. QED
    BY <1>4, <1>5

\* What is found at a place of the search is what is selected there, if the process
\* has not ended.
LEMMA FoundSelected ==
    ASSUME NEW path \in Seq(STRING), NEW w \in JSON, Panic \notin ToSet(search(w, path))
    PROVE  search(w, path) = Selection(PlacesOf(w), path, 0)
<1>. DEFINE s == AllFound(path)
            T == JSON \cup {Panic}
            D == Places(path)
            rank == [x \in D |-> Height(path, x)]
            S == {x \in D : Panic \in ToSet(s[x]) \/ s[x] = Selection(PlacesOf(x[1]), path, x[2])}
<1>1. /\ search(w, path) = s[<<w, 0>>]
      /\ \A x \in D : s[x] = searchFrom(s, path, x[1], x[2])
      /\ \A x \in D : s[x] \in Seq(T)
  <2>1. JSON \subseteq T /\ Panic \in T
      OBVIOUS
  <2>. HIDE DEF T
  <2>. QED
      BY <2>1, SearchType
<1>. HIDE DEF s
<1>2. \A x \in D : rank[x] = Height(path, x) /\ Height(path, x) \in Nat
  <2>1. \A x \in D : x[1] \in JSON /\ x[2] \in 0 .. Len(path)
      BY DEF Places
  <2>2. \A v \in JSON : Depth[v] \in 0 .. MaxDepth
      BY JSONAssumption
  <2>. QED
      BY <2>1, <2>2 DEF Height
<1>3. ASSUME NEW x \in D, \A y \in D : rank[y] < rank[x] => y \in S
      PROVE  x \in S
  <2>. DEFINE v == x[1]
              d == x[2]
              part == path[d + 1]
              items == Elements(v)
              n == Atoi[part] + 1
              Right(u, e) == Panic \in ToSet(s[<<u, e>>]) \/ s[<<u, e>>] = Selection(PlacesOf(u), path, e)
  <2>1. v \in JSON /\ d \in 0 .. Len(path) /\ Len(path) \in Nat /\ x = <<v, d>>
      BY DEF Places
  <2>2. /\ Depth[v] \in Nat /\ items \in Seq(JSON)
        /\ \A j \in DOMAIN items : items[j] \in JSON /\ Depth[items[j]] \in Nat /\ Depth[items[j]] < Depth[v]
        /\ \A k \in Fields(v) : v.obj[k] \in JSON /\ Depth[v.obj[k]] \in Nat /\ Depth[v.obj[k]] < Depth[v]
    <3>. HIDE DEF v, d
    <3>. QED
        BY <2>1, Inside DEF d
  <2>3. ASSUME NEW u \in JSON, NEW e \in 0 .. Len(path), Depth[u] \in Nat,
               Depth[u] - e < Depth[v] - d
        PROVE  Right(u, e)
    <3>. DEFINE y == <<u, e>>
    <3>1. y \in D /\ Height(path, y) = Depth[u] + Len(path) - e /\ y[1] = u /\ y[2] = e
        BY DEF Places, Height
    <3>2. Height(path, x) = Depth[v] + Len(path) - d
        BY DEF Height
    <3>3. Height(path, y) < Height(path, x)
        BY <2>1, <2>2, <2>3, <3>1, <3>2
    <3>. HIDE DEF y, S, D, rank
    <3>4. y \in S
        BY <1>2, <1>3, <3>1, <3>3, Zenon
    <3>. QED
        BY <3>1, <3>4, Zenon DEF S, y
  <2>4. s[x] = searchFrom(s, path, v, d)
      BY <1>1, Zenon
  <2>5. Panic \in ToSet(s[x]) \/ s[x] = Selection(PlacesOf(v), path, d) => x \in S
      BY Zenon
  <2>6. CASE d = Len(path)
    <3>1. s[x] = <<v>>
        BY <2>4, <2>6, Zenon DEF searchFrom
    <3>2. Selection(PlacesOf(v), path, d) = <<v>>
        BY <2>1, <2>6, NothingLeft
    <3>. QED
        BY <2>5, <3>1, <3>2, Zenon
  <2>7. CASE d # Len(path)
    <3>. HIDE DEF v, d, items, part, n, S
    <3>1. d + 1 \in 0 .. Len(path) /\ d < Len(path)
        BY <2>1, <2>7
    <3>2. s[x] =
              IF part = Empty THEN s[<<v, d + 1>>]
              ELSE IF part \in Fields(v) THEN s[<<v.obj[part], d + 1>>]
              ELSE IF ~IsNumber(part) THEN FlattenSeq([j \in DOMAIN items |-> s[<<items[j], d>>]])
              ELSE IF DOMAIN v # {"list"} \/ ~InRange(Atoi[part], items) THEN << >>
              ELSE IF n \in DOMAIN items THEN s[<<items[n], d + 1>>]
              ELSE <<Panic>>
        BY <2>4, <2>7, Zenon DEF searchFrom, NoMore, part, items, n
    <3>3. CASE part = Empty
      <4>1. Right(v, d + 1)
          BY <2>1, <2>2, <2>3, <3>1
      <4>2. Selection(PlacesOf(v), path, d) = Selection(PlacesOf(v), path, d + 1)
          BY <2>1, <3>1, <3>3, EmptyLeft DEF part
      <4>. QED
          BY <2>5, <3>2, <3>3, <4>1, <4>2, Zenon
    <3>4. CASE part # Empty /\ part \in Fields(v)
      <4>1. Right(v.obj[part], d + 1)
          BY <2>1, <2>2, <2>3, <3>1, <3>4
      <4>2. Selection(PlacesOf(v), path, d) = Selection(PlacesOf(v.obj[part]), path, d + 1)
          BY <2>1, <3>1, <3>4, PartLeft DEF part
      <4>. QED
          BY <2>5, <3>2, <3>4, <4>1, <4>2, Zenon
    <3>5. CASE part # Empty /\ part \notin Fields(v) /\ ~IsNumber(part)
      <4>. DEFINE ss == [j \in DOMAIN items |-> s[<<items[j], d>>]]
      <4>1. Selection(PlacesOf(v), path, d) = FlattenSeq(ItemsSelected(v, path, d))
          BY <2>1, <3>1, <3>5, PartLeft DEF part
      <4>2. ASSUME NEW j \in DOMAIN items PROVE Right(items[j], d) /\ s[<<items[j], d>>] \in Seq(T)
        <5>1. items[j] \in JSON /\ Depth[items[j]] \in Nat /\ Depth[items[j]] - d < Depth[v] - d
            BY <2>1, <2>2
        <5>2. <<items[j], d>> \in D
            BY <2>1, <5>1 DEF Places
        <5>. QED
            BY <1>1, <2>1, <2>3, <5>1, <5>2, Zenon
      <4>3. \A j \in DOMAIN items :
                ItemsSelected(v, path, d)[j] = Selection(PlacesOf(items[j]), path, d)
          BY <2>1, <3>1, <3>5, ItemSteps, Zenon DEF part, items
      <4>4. DOMAIN items = 1 .. Len(items) /\ Len(items) \in Nat
          BY <2>2
      <4>5. ss \in Seq(Seq(T)) /\ Len(ss) = Len(items)
          BY <4>2, <4>4
      <4>6. CASE \E j \in DOMAIN items : Panic \in ToSet(s[<<items[j], d>>])
        <5>1. \E j \in DOMAIN items : Panic \in ToSet(ss[j])
            BY <4>6, Zenon
        <5>. HIDE DEF ss
        <5>2. Panic \in ToSet(FlattenSeq(ss))
            BY <4>4, <4>5, <5>1, FlattenHas, Zenon
        <5>. QED
            BY <2>5, <3>2, <3>5, <5>2, Zenon DEF ss
      <4>7. CASE ~\E j \in DOMAIN items : Panic \in ToSet(s[<<items[j], d>>])
        <5>1. \A j \in DOMAIN items : s[<<items[j], d>>] = ItemsSelected(v, path, d)[j]
            BY <4>2, <4>3, <4>7, Zenon
        <5>2. DOMAIN ItemsSelected(v, path, d) = DOMAIN items
            BY Zenon DEF ItemsSelected, items
        <5>3. ItemsSelected(v, path, d) = [j \in DOMAIN items |-> ItemsSelected(v, path, d)[j]]
            BY <5>2, Zenon DEF ItemsSelected, items
        <5>4. ss = ItemsSelected(v, path, d)
            BY <5>1, <5>3, Zenon
        <5>. QED
            BY <2>5, <3>2, <3>5, <4>1, <5>4, Zenon
      <4>. QED
          BY <4>6, <4>7
    <3>6. CASE part # Empty /\ part \notin Fields(v) /\ IsNumber(part)
      <4>1. Selection(PlacesOf(v), path, d) =
                IF n \in DOMAIN items THEN Selection(PlacesOf(items[n]), path, d + 1) ELSE << >>
        <5>1. Selection(PlacesOf(v), path, d) = FlattenSeq(ItemsSelected(v, path, d))
            BY <2>1, <3>1, <3>6, PartLeft DEF part
        <5>2. FlattenSeq(ItemsSelected(v, path, d)) =
                  IF n \in DOMAIN items THEN Selection(PlacesOf(items[n]), path, d + 1) ELSE << >>
            BY <2>1, <3>1, <3>6, ItemLeft, Zenon DEF part, n, items
        <5>. QED
            BY <5>1, <5>2, Zenon
      <4>2. CASE DOMAIN v # {"list"} \/ ~InRange(Atoi[part], items)
        <5>1. n \notin DOMAIN items
          <6>1. CASE DOMAIN v # {"list"}
            <7>1. items = << >>
                BY <6>1, Zenon DEF Elements, items
            <7>2. DOMAIN << >> = {}
                OBVIOUS
            <7>. QED
                BY <7>1, <7>2, Zenon
          <6>2. CASE ~InRange(Atoi[part], items)
            <7>1. Atoi[part] \in Int
                BY <3>6, AtoiAssumption DEF IsNumber
            <7>2. ~(Atoi[part] < Len(items))
                BY <6>2, Zenon DEF InRange
            <7>3. DOMAIN items = 1 .. Len(items) /\ Len(items) \in Nat
                BY <2>2
            <7>. QED
                BY <7>1, <7>2, <7>3 DEF n
          <6>. QED
              BY <4>2, <6>1, <6>2
        <5>. QED
            BY <2>5, <3>2, <3>6, <4>1, <4>2, <5>1, Zenon
      <4>3. CASE ~(DOMAIN v # {"list"} \/ ~InRange(Atoi[part], items)) /\ n \in DOMAIN items
        <5>1. items[n] \in JSON /\ Depth[items[n]] \in Nat /\ Depth[items[n]] < Depth[v]
            BY <2>2, <4>3, Zenon
        <5>. DEFINE item == items[n]
        <5>. HIDE DEF item
        <5>2. item \in JSON /\ Depth[item] \in Nat /\ Depth[item] - (d + 1) < Depth[v] - d
            BY <2>1, <2>2, <5>1 DEF item
        <5>3. Right(item, d + 1)
            BY <2>3, <3>1, <5>2
        <5>. QED
            BY <2>5, <3>2, <3>6, <4>1, <4>3, <5>3, Zenon DEF item
      <4>4. CASE ~(DOMAIN v # {"list"} \/ ~InRange(Atoi[part], items)) /\ n \notin DOMAIN items
        <5>1. s[x] = <<Panic>>
            BY <3>2, <3>6, <4>4, Zenon
        <5>2. Panic \in ToSet(<<Panic>>)
            BY DEF ToSet
        <5>. QED
            BY <2>5, <5>1, <5>2, Zenon
      <4>. QED
          BY <4>2, <4>3, <4>4, Zenon
    <3>. QED
        BY <3>3, <3>4, <3>5, <3>6, Zenon
  <2>. QED
      BY <2>6, <2>7
<1>4. D \subseteq S
  <2>. HIDE DEF S, D, rank
  <2>1. \A x \in D : rank[x] \in Nat
      BY <1>2, Zenon
  <2>2. \A x \in D : (\A y \in D : rank[y] < rank[x] => y \in S) => x \in S
      BY <1>3, Zenon
  <2>. QED
      BY <2>1, <2>2, Ranks, Zenon
<1>5. <<w, 0>> \in D /\ <<w, 0>>[1] = w /\ <<w, 0>>[2] = 0
    BY DEF Places
<1>6. <<w, 0>> \in S
    BY <1>4, <1>5, Zenon
<1>. QED
    BY <1>1, <1>5, <1>6, Zenon

-----------------------------------------------------------------------------
(* findDeep *)

\* Sequences of values of less depth than n.
Shallow(n) == {items \in Seq(JSON) : \A k \in DOMAIN items : Depth[items[k]] < n}

IsFind(f, value, D) == f = [items \in D |-> findIn(f, items, value)]

\* Only the lists among the items are looked into.
LEMMA FindsInside ==
    ASSUME NEW items \in Seq(JSON), NEW value, NEW f, NEW g,
           \A k \in DOMAIN items : DOMAIN items[k] = {"list"} => f[items[k].list] = g[items[k].list]
    PROVE  findIn(f, items, value) = findIn(g, items, value)
<1>1. ASSUME NEW k \in DOMAIN items
      PROVE  (DOMAIN items[k] = {"list"} /\ f[items[k].list])
                 <=> (DOMAIN items[k] = {"list"} /\ g[items[k].list])
    BY Zenon
<1>2. findIn(f, items, value) <=> findIn(g, items, value)
    BY <1>1, Zenon DEF findIn
<1>3. findIn(f, items, value) \in BOOLEAN /\ findIn(g, items, value) \in BOOLEAN
    BY Zenon DEF findIn
<1>. QED
    BY <1>2, <1>3

\* The recursion of findDeep has a solution.
LEMMA FindExists ==
    ASSUME NEW value
    PROVE  \E f : IsFind(f, value, Seq(JSON))
<1>. DEFINE top == MaxDepth + 1
            S == {n \in 0 .. top : \E f : IsFind(f, value, Shallow(n))}
<1>1. top \in Nat /\ MaxDepth \in Nat
    BY JSONAssumption
<1>2. ASSUME NEW items \in Seq(JSON), NEW k \in DOMAIN items
      PROVE  items[k] \in JSON /\ Depth[items[k]] \in 0 .. MaxDepth
  <2>1. items[k] \in JSON
      OBVIOUS
  <2>. QED
      BY <2>1, JSONAssumption
<1>3. 0 \in S
  <2>. DEFINE none == [items \in Shallow(0) |-> FALSE]
  <2>1. ASSUME NEW items \in Shallow(0) PROVE findIn(none, items, value) = FALSE
    <3>1. items \in Seq(JSON) /\ \A k \in DOMAIN items : Depth[items[k]] < 0
        BY DEF Shallow
    <3>2. \A k \in DOMAIN items : FALSE
        BY <1>1, <1>2, <3>1
    <3>. HIDE DEF none
    <3>. QED
        BY <3>2, Zenon DEF findIn
  <2>2. IsFind(none, value, Shallow(0))
    <3>1. \A items \in Shallow(0) : none[items] = findIn(none, items, value)
        BY <2>1, Zenon
    <3>2. none = [items \in Shallow(0) |-> none[items]]
        BY Zenon
    <3>. HIDE DEF none
    <3>. QED
        BY <3>1, <3>2, Zenon DEF IsFind
  <2>3. \E f : IsFind(f, value, Shallow(0))
      BY <2>2, Zenon
  <2>4. 0 \in 0 .. top
      BY <1>1
  <2>. QED
      BY <2>3, <2>4, Zenon
<1>4. ASSUME NEW n \in 1 .. top, n - 1 \in S PROVE n \in S
  <2>1. PICK old : IsFind(old, value, Shallow(n - 1))
      BY <1>4
  <2>. DEFINE new == [items \in Shallow(n) |-> findIn(old, items, value)]
  <2>2. ASSUME NEW items \in Shallow(n)
        PROVE  findIn(old, items, value) = findIn(new, items, value)
    <3>1. items \in Seq(JSON) /\ \A k \in DOMAIN items : Depth[items[k]] < n
        BY DEF Shallow
    <3>2. ASSUME NEW k \in DOMAIN items, DOMAIN items[k] = {"list"}
          PROVE  old[items[k].list] = new[items[k].list]
      <4>. DEFINE list == items[k].list
      <4>1. list \in Seq(JSON) /\ \A j \in DOMAIN list : Depth[list[j]] < Depth[items[k]]
          BY <1>2, <3>1, <3>2, JSONAssumption
      <4>2. Depth[items[k]] \in Nat /\ Depth[items[k]] < n
          BY <1>2, <3>1
      <4>. HIDE DEF list
      <4>3. \A j \in DOMAIN list : Depth[list[j]] \in Nat
          BY <1>2, <4>1
      <4>4. list \in Shallow(n - 1) /\ list \in Shallow(n)
          BY <1>1, <4>1, <4>2, <4>3 DEF Shallow
      <4>5. old[list] = findIn(old, list, value)
          BY <2>1, <4>4, Zenon DEF IsFind
      <4>6. new[list] = findIn(old, list, value)
          BY <4>4, Zenon
      <4>. QED
          BY <4>5, <4>6, Zenon DEF list
    <3>. HIDE DEF new
    <3>. QED
        BY <3>1, <3>2, FindsInside, Zenon
  <2>3. IsFind(new, value, Shallow(n))
    <3>1. \A items \in Shallow(n) : new[items] = findIn(new, items, value)
        BY <2>2, Zenon
    <3>2. new = [items \in Shallow(n) |-> new[items]]
        BY Zenon
    <3>. HIDE DEF new
    <3>. QED
        BY <3>1, <3>2, Zenon DEF IsFind
  <2>4. \E f : IsFind(f, value, Shallow(n))
      BY <2>3, Zenon
  <2>5. n \in 0 .. top
      BY <1>1
  <2>. QED
      BY <2>4, <2>5, Zenon
<1>5. 0 .. top \subseteq S
  <2>. HIDE DEF S, top
  <2>. QED
      BY <1>1, <1>3, <1>4, Steps
<1>6. Shallow(top) = Seq(JSON)
  <2>1. \A items \in Seq(JSON) : \A k \in DOMAIN items : Depth[items[k]] < top
      BY <1>1, <1>2
  <2>. QED
      BY <2>1, Zenon DEF Shallow
<1>7. top \in S
  <2>1. top \in 0 .. top
      BY <1>1
  <2>. QED
      BY <1>5, <2>1, Zenon
<1>. QED
    BY <1>6, <1>7, Zenon

\* findDeep is the solution.
LEMMA FindFacts ==
    ASSUME NEW items \in Seq(JSON), NEW value
    PROVE  \E f : findDeep(items, value) = findIn(f, items, value)
<1>. DEFINE f == CHOOSE g : g = [list \in Seq(JSON) |-> findIn(g, list, value)]
<1>1. findDeep(items, value) = f[items]
    BY Zenon DEF findDeep
<1>2. f = [list \in Seq(JSON) |-> findIn(f, list, value)]
  <2>1. \E g : IsFind(g, value, Seq(JSON))
      BY FindExists
  <2>. QED
      BY <2>1, Zenon DEF IsFind
<1>. HIDE DEF f
<1>3. f[items] = findIn(f, items, value)
    BY <1>2, Zenon
<1>. QED
    BY <1>1, <1>3, Zenon

\* Nothing is found among no items, and one that is neither list nor object is found
\* by itself only.
LEMMA FindNothing ==
    ASSUME NEW value
    PROVE  ~findDeep(<< >>, value)
<1>1. << >> \in Seq(JSON) /\ DOMAIN << >> = {}
    OBVIOUS
<1>2. PICK f : findDeep(<< >>, value) = findIn(f, << >>, value)
    BY <1>1, FindFacts
<1>3. ~findIn(f, << >>, value)
    BY <1>1, Zenon DEF findIn
<1>. QED
    BY <1>2, <1>3, Zenon

\* What is found among one item.
LEMMA FindOne ==
    ASSUME NEW items \in Seq(JSON), Len(items) = 1, IsPrimitive(items[1]), NEW value
    PROVE  findDeep(items, value) <=> items[1] = value
<1>1. DOMAIN items = {1}
    OBVIOUS
<1>2. PICK f : findDeep(items, value) = findIn(f, items, value)
    BY FindFacts
<1>3. DOMAIN items[1] # {"list"} /\ DOMAIN items[1] # {"obj"}
    BY DEF IsPrimitive
<1>4. findIn(f, items, value) <=> items[1] = value
    BY <1>1, <1>3, Zenon DEF findIn
<1>. QED
    BY <1>2, <1>4, Zenon

-----------------------------------------------------------------------------
(* Looking up *)

\* The parts that are searched are parts of the path.
LEMMA CleanType ==
    ASSUME NEW path \in Seq(STRING)
    PROVE  /\ cleanPath(path) \in Seq(STRING)
           /\ \A k \in 1 .. Len(cleanPath(path)) : cleanPath(path)[k] \in ToSet(path)
<1>1. CASE path # << >> /\ IsCall(Last(path))
  <2>1. cleanPath(path) = Front(path)
      BY <1>1 DEF cleanPath
  <2>2. Front(path) = [k \in 1 .. Len(path) - 1 |-> path[k]]
      BY <1>1 DEF Front
  <2>3. /\ Len(path) \in Nat /\ Len(path) # 0
        /\ \A k \in 1 .. Len(path) : path[k] \in STRING /\ k \in DOMAIN path
      BY <1>1
  <2>. DEFINE n == Len(path) - 1
  <2>4. n \in Nat /\ \A k \in 1 .. n : path[k] \in STRING /\ k \in DOMAIN path
      BY <2>3
  <2>5. cleanPath(path) = [k \in 1 .. n |-> path[k]]
      BY <2>1, <2>2
  <2>. HIDE DEF n
  <2>6. cleanPath(path) \in Seq(STRING) /\ Len(cleanPath(path)) = n
      BY <2>4, <2>5
  <2>7. \A k \in 1 .. n : cleanPath(path)[k] = path[k]
      BY <2>5
  <2>. QED
      BY <2>4, <2>6, <2>7 DEF ToSet
<1>2. CASE ~(path # << >> /\ IsCall(Last(path)))
  <2>1. cleanPath(path) = path
      BY <1>2 DEF cleanPath
  <2>. QED
      BY <2>1 DEF ToSet
<1>. QED
    BY <1>1, <1>2

\* What is found on a path without negative indices is values, and on any path if
\* the process has not ended.
LEMMA FoundType ==
    ASSUME NEW doc \in JSON, NEW path \in Seq(STRING),
           \/ Panic \notin ToSet(Search(doc, path))
           \/ \A part \in ToSet(path) : ~(IsNumber(part) /\ Atoi[part] < 0)
    PROVE  /\ Search(doc, path) \in Seq(JSON)
           /\ Panic \notin ToSet(Search(doc, path))
<1>. DEFINE clean == cleanPath(path)
            found == Search(doc, path)
<1>1. clean \in Seq(STRING) /\ \A k \in 1 .. Len(clean) : clean[k] \in ToSet(path)
    BY CleanType
<1>2. found = search(doc, clean)
    BY DEF Search
<1>3. Panic \notin JSON
  <2>1. DOMAIN Panic = {"panic"}
      BY DEF Panic
  <2>2. \A v \in JSON : DOMAIN v \in {{"list"}, {"obj"}, {"num"}, {"str"}, {"null"}}
      BY JSONAssumption
  <2>. QED
      BY <2>1, <2>2
<1>4. found \in Seq(JSON) => Panic \notin ToSet(found)
    BY <1>3 DEF ToSet
<1>. HIDE DEF clean, found
<1>5. CASE \A part \in ToSet(path) : ~(IsNumber(part) /\ Atoi[part] < 0)
  <2>1. ASSUME NEW k \in 1 .. Len(clean), IsNumber(clean[k]) PROVE Atoi[clean[k]] >= 0
    <3>1. Atoi[clean[k]] \in Int
        BY <2>1, AtoiAssumption DEF IsNumber
    <3>2. ~(Atoi[clean[k]] < 0)
        BY <1>1, <1>5, <2>1, Zenon
    <3>. QED
        BY <3>1, <3>2
  <2>2. search(doc, clean) \in Seq(JSON)
      BY <1>1, <2>1, SearchType
  <2>. QED
      BY <1>2, <1>4, <2>2 DEF found
<1>6. CASE Panic \notin ToSet(found)
  <2>1. search(doc, clean) \in Seq(JSON \cup {Panic})
      BY <1>1, SearchType
  <2>2. found \in Seq(JSON)
      BY <1>2, <1>6, <2>1 DEF ToSet
  <2>. QED
      BY <1>6, <2>2 DEF found
<1>. QED
    BY <1>5, <1>6 DEF found

-----------------------------------------------------------------------------
(* Checking *)

BodyInv ==
    /\ asked \in Compares \cup Lookups
    /\ outcome # NotYet =>
           \/ /\ asked \in Compares
              /\ outcome = [met |-> Met(asked.pair[1], asked.pair[2], asked.strict)]
           \/ asked \in Lookups /\ outcome = Outcome(asked.doc, asked.path, asked.expected)

\* What was asked stays, and the outcome is the answer to it.
THEOREM BodyInvariance == BodySpec => []BodyInv
<1>1. BodyInit => BodyInv
    BY DEF BodyInit, BodyInv
<1>2. BodyInv /\ [BodyNext]_bodyVars => BodyInv'
  <2>. SUFFICES ASSUME BodyInv, [BodyNext]_bodyVars PROVE BodyInv'
      OBVIOUS
  <2>1. CASE Compare
      BY <2>1 DEF BodyInv, Compare
  <2>2. CASE LookUp
      BY <2>2 DEF BodyInv, LookUp
  <2>3. CASE Answered \/ UNCHANGED bodyVars
      BY <2>3 DEF BodyInv, Answered, bodyVars
  <2>. QED
      BY <2>1, <2>2, <2>3 DEF BodyNext
<1>. QED
    BY <1>1, <1>2, PTL DEF BodySpec

\* The outcome of a comparison.
LEMMA ComparedFacts ==
    ASSUME BodyInv, NEW strict \in BOOLEAN, Compared(strict)
    PROVE  /\ asked.pair[1] \in JSON /\ asked.pair[2] \in JSON
           /\ outcome.met <=> Met(asked.pair[1], asked.pair[2], strict)
<1>1. /\ outcome # NotYet /\ asked \in Compares /\ asked.strict = strict
      /\ asked.pair \in JSON \X JSON
    BY ChecksAssumption DEF Compared, Compares
<1>2. asked \notin Lookups
  <2>1. DOMAIN asked = {"pair", "strict"}
      BY <1>1 DEF Compares
  <2>2. asked \in Lookups => DOMAIN asked = {"doc", "path", "expected"}
      BY DEF Lookups
  <2>. QED
      BY <2>1, <2>2
<1>3. outcome = [met |-> Met(asked.pair[1], asked.pair[2], strict)]
    BY <1>1, <1>2, Zenon DEF BodyInv
<1>. QED
    BY <1>1, <1>3

\* An exact body is met by an equal one and by no other (NewBodyMatcher, Report).
THEOREM ExactMeansEqual == BodySpec => []StrictIsEquality
<1>1. BodyInv => StrictIsEquality
  <2>. SUFFICES ASSUME BodyInv, Compared(TRUE)
                PROVE  outcome.met <=> asked.pair[1] = asked.pair[2]
      BY DEF StrictIsEquality
  <2>. QED
      BY ComparedFacts, MetExactly
<1>. QED
    BY <1>1, BodyInvariance, PTL

\* A body is met in part only by one that has all it specifies, and by any such one if
\* it has no lists (NewBodyMatcher, Report).
THEOREM PartMeansEmbedded == BodySpec => []PartialIsEmbedding
<1>1. BodyInv => PartialIsEmbedding
  <2>. SUFFICES ASSUME BodyInv, Compared(FALSE)
                PROVE  /\ outcome.met => Embeds(asked.pair[1], asked.pair[2])
                       /\ Embeds(asked.pair[1], asked.pair[2]) => outcome.met \/ HasList(asked.pair[1])
      BY DEF PartialIsEmbedding
  <2>1. /\ asked.pair[1] \in JSON /\ asked.pair[2] \in JSON
        /\ outcome.met <=> Met(asked.pair[1], asked.pair[2], FALSE)
      BY ComparedFacts
  <2>. QED
      BY <2>1, MetEmbeds, EmbedsMet
<1>. QED
    BY <1>1, BodyInvariance, PTL

\* The parts of the outcome.
LEMMA OutcomeParts ==
    ASSUME NEW doc, NEW path, NEW expected, NEW o, o = Outcome(doc, path, expected)
    PROVE  LET crashed == Panic \in ToSet(Search(doc, path))
           IN /\ o.crashed <=> crashed
              /\ o.found = Search(doc, path)
              /\ o.value = IF crashed THEN Error ELSE GetByPath(doc, path)
              /\ o.met <=> ~crashed /\ SearchByPath(doc, expected, path)
              /\ o.absent <=> ~crashed /\ AbsentPathMet(doc, path)
<1>. DEFINE found == Search(doc, path)
            crashed == Panic \in ToSet(found)
            value == IF crashed THEN Error ELSE GetByPath(doc, path)
            met == ~crashed /\ SearchByPath(doc, expected, path)
            absent == ~crashed /\ AbsentPathMet(doc, path)
<1>1. o = [crashed |-> crashed, found |-> found, value |-> value, met |-> met, absent |-> absent]
    BY Zenon DEF Outcome
<1>. HIDE DEF found, value, met, absent, crashed
<1>2. (o.crashed <=> crashed) /\ o.found = found /\ o.value = value /\ (o.met <=> met) /\ (o.absent <=> absent)
    BY <1>1
<1>. QED
    BY <1>2, Zenon DEF found, value, met, absent, crashed

\* The outcome of a path looked up.
LEMMA LookedUpFacts ==
    ASSUME BodyInv, LookedUp
    PROVE  /\ asked.doc \in JSON /\ asked.path \in Seq(STRING) /\ asked.expected \in JSON
           /\ outcome = Outcome(asked.doc, asked.path, asked.expected)
<1>1. /\ outcome # NotYet /\ asked \in Lookups
      /\ asked.doc \in JSON /\ asked.path \in Seq(STRING) /\ asked.expected \in JSON
    BY ChecksAssumption DEF LookedUp, Lookups
<1>2. asked \notin Compares
  <2>1. DOMAIN asked = {"doc", "path", "expected"}
      BY <1>1 DEF Lookups
  <2>2. asked \in Compares => DOMAIN asked = {"pair", "strict"}
      BY DEF Compares
  <2>. QED
      BY <2>1, <2>2
<1>3. outcome = Outcome(asked.doc, asked.path, asked.expected)
    BY <1>1, <1>2, Zenon DEF BodyInv
<1>. QED
    BY <1>1, <1>3

\* Only a negative index ends the process (search, matchers.go).
THEOREM OnlyBelowZeroPanics == BodySpec => []PanicsOnlyBelowZero
<1>1. BodyInv => PanicsOnlyBelowZero
  <2>. SUFFICES ASSUME BodyInv, LookedUp, outcome.crashed
                PROVE  \E part \in ToSet(asked.path) : IsNumber(part) /\ Atoi[part] < 0
      BY DEF PanicsOnlyBelowZero
  <2>1. asked.doc \in JSON /\ asked.path \in Seq(STRING)
      BY LookedUpFacts
  <2>2. outcome.crashed <=> Panic \in ToSet(Search(asked.doc, asked.path))
      BY LookedUpFacts, OutcomeParts, Zenon
  <2>. QED
      BY <2>1, <2>2, FoundType
<1>. QED
    BY <1>1, BodyInvariance, PTL

\* A path finds the values at the places on it, each once and in the order of the
\* document, unless a negative index ends the process (search, matchers.go).
THEOREM SearchSelects == BodySpec => []SearchIsSelection
<1>1. BodyInv => SearchIsSelection
  <2>. DEFINE clean == cleanPath(asked.path)
  <2>. SUFFICES ASSUME BodyInv, LookedUp, ~outcome.crashed
                PROVE  outcome.found = Selection(PlacesOf(asked.doc), clean, 0)
      BY DEF SearchIsSelection
  <2>1. asked.doc \in JSON /\ clean \in Seq(STRING)
      BY LookedUpFacts, CleanType
  <2>2. outcome.found = search(asked.doc, clean) /\ Panic \notin ToSet(search(asked.doc, clean))
    <3>1. outcome = Outcome(asked.doc, asked.path, asked.expected)
        BY LookedUpFacts, Zenon
    <3>2. /\ outcome.found = Search(asked.doc, asked.path)
          /\ outcome.crashed <=> Panic \in ToSet(Search(asked.doc, asked.path))
      <4>. DEFINE doc == asked.doc
                  path == asked.path
                  expected == asked.expected
                  o == outcome
      <4>1. o = Outcome(doc, path, expected)
          BY <3>1
      <4>. HIDE DEF doc, path, expected, o
      <4>2. /\ o.found = Search(doc, path)
            /\ o.crashed <=> Panic \in ToSet(Search(doc, path))
          BY <4>1, OutcomeParts
      <4>. QED
          BY <4>2, Zenon DEF doc, path, o
    <3>3. Search(asked.doc, asked.path) = search(asked.doc, clean)
        BY Zenon DEF Search
    <3>4. Panic \notin ToSet(Search(asked.doc, asked.path))
        BY <3>2, Zenon
    <3>. QED
        BY <3>2, <3>3, <3>4, Zenon
  <2>. HIDE DEF clean
  <2>. QED
      BY <2>1, <2>2, FoundSelected
<1>. QED
    BY <1>1, BodyInvariance, PTL

\* What a path is expected to have, what is remembered from it and whether it is
\* absent agree (checkExpectedPath, checkAbsentPath, GetByPath).
THEOREM UsesAgree == BodySpec => []ChecksAgree
<1>1. BodyInv => ChecksAgree
  <2>. SUFFICES ASSUME BodyInv, LookedUp
                PROVE  /\ ~HasPathFunc(asked.path) /\ outcome.met /\ outcome.absent =>
                              asked.expected = [list |-> << >>]
                       /\ /\ outcome.value # Error
                          /\ IsPrimitive(outcome.value) /\ IsPrimitive(asked.expected)
                          => (outcome.met <=> asked.expected = outcome.value)
      BY DEF ChecksAgree
  <2>. DEFINE doc == asked.doc
              path == asked.path
              expected == asked.expected
              found == Search(doc, path)
              crashed == Panic \in ToSet(found)
  <2>1. doc \in JSON /\ path \in Seq(STRING) /\ expected \in JSON
      BY LookedUpFacts
  <2>2. /\ outcome.value = IF crashed THEN Error ELSE GetByPath(doc, path)
        /\ outcome.met <=> ~crashed /\ SearchByPath(doc, expected, path)
        /\ outcome.absent <=> ~crashed /\ AbsentPathMet(doc, path)
    <3>1. outcome = Outcome(doc, path, expected)
        BY LookedUpFacts
    <3>. HIDE DEF doc, path, expected
    <3>. QED
        BY <3>1, OutcomeParts, Zenon
  <2>3. ~crashed => found \in Seq(JSON)
      BY <2>1, FoundType
  <2>4. SearchByPath(doc, expected, path) <=>
            IF HasPathFunc(path) THEN Len(found) = 1 /\ CallPathFunc(path, found[1]) = expected
            ELSE IF DOMAIN expected = {"list"}
            THEN \A k \in DOMAIN expected.list : findDeep(found, expected.list[k])
            ELSE findDeep(found, expected)
      BY Zenon DEF SearchByPath
  <2>5. GetByPath(doc, path) =
            IF Len(found) # 1 THEN Error
            ELSE IF HasPathFunc(path) THEN CallPathFunc(path, found[1])
            ELSE found[1]
      BY Zenon DEF GetByPath
  <2>6. AbsentPathMet(doc, path) <=> found = << >>
      BY Zenon DEF AbsentPathMet
  <2>. HIDE DEF doc, path, expected, found, crashed
  <2>7. ASSUME ~HasPathFunc(path), outcome.met, outcome.absent
        PROVE  expected = [list |-> << >>]
    <3>1. found = << >>
        BY <2>2, <2>6, <2>7, Zenon
    <3>2. DOMAIN expected = {"list"} /\ \A k \in DOMAIN expected.list : FALSE
        BY <2>2, <2>4, <2>7, <3>1, FindNothing, Zenon
    <3>3. expected \in [list : Seq(JSON)]
        BY <2>1, <3>2, JSONAssumption
    <3>4. expected.list \in Seq(JSON) /\ expected = [list |-> expected.list]
        BY <3>3
    <3>5. expected.list = << >>
      <4>. DEFINE list == expected.list
      <4>1. list \in Seq(JSON) /\ \A k \in DOMAIN list : FALSE
          BY <3>2, <3>4
      <4>. HIDE DEF list
      <4>2. Len(list) \in Nat /\ DOMAIN list = 1 .. Len(list)
          BY <4>1
      <4>3. Len(list) = 0
        <5>1. 1 \notin 1 .. Len(list)
            BY <4>1, <4>2, Zenon
        <5>. QED
            BY <4>2, <5>1
      <4>4. list = << >>
          BY <4>1, <4>3
      <4>. QED
          BY <4>4, Zenon DEF list
    <3>. QED
        BY <3>4, <3>5
  <2>8. ASSUME outcome.value # Error, IsPrimitive(outcome.value), IsPrimitive(expected)
        PROVE  outcome.met <=> expected = outcome.value
    <3>1. ~crashed /\ Len(found) = 1 /\ outcome.value = GetByPath(doc, path)
        BY <2>2, <2>5, <2>8, Zenon
    <3>2. CASE HasPathFunc(path)
        BY <2>2, <2>4, <2>5, <3>1, <3>2, Zenon
    <3>3. CASE ~HasPathFunc(path)
      <4>1. outcome.value = found[1]
          BY <2>5, <3>1, <3>3, Zenon
      <4>2. DOMAIN expected # {"list"}
          BY <2>8 DEF IsPrimitive
      <4>3. outcome.met <=> findDeep(found, expected)
          BY <2>2, <2>4, <3>1, <3>3, <4>2, Zenon
      <4>4. findDeep(found, expected) <=> found[1] = expected
          BY <2>3, <2>8, <3>1, <4>1, FindOne
      <4>. QED
          BY <4>1, <4>3, <4>4, Zenon
    <3>. QED
        BY <3>2, <3>3
  <2>. QED
      BY <2>7, <2>8 DEF path, expected
<1>. QED
    BY <1>1, BodyInvariance, PTL

=============================================================================
