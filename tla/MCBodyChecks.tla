---------------------------- MODULE MCBodyChecks -----------------------------
(* Bodies, paths and expected values for TLC. *)
EXTENDS BodyChecks

Num(n) == [num |-> n]
Str(s) == [str |-> s]
Obj(f) == [obj |-> f]
List(s) == [list |-> s]

Upto(S, n) == UNION {[1 .. m -> S] : m \in 0 .. n}

Scalars == {Num(1), Num(2), Null}
Objects(names) == {Obj(f) : f \in UNION {[N -> {Num(1), Num(2)}] : N \in SUBSET names}}

ScalarLists == {List(s) : s \in Upto(Scalars, 3)}
LongLists == {List(s) : s \in Upto({Num(1), Num(2)}, 5)}
ObjectLists == {List(s) : s \in Upto(Objects({"a", "b"}), 2)}
Nested == {Obj([k \in {"a"} |-> v]) : v \in Scalars \cup Objects({"a", "b"})}

\* The suite schema accepts objects with a field as expected bodies.
Within(pairs) == {<<Obj([items |-> p[1]]), Obj([items |-> p[2]])>> : p \in pairs}

AllComparisons ==
    Within((ScalarLists \X ScalarLists) \cup (LongLists \X LongLists)
               \cup (ObjectLists \X ObjectLists)
               \cup (Scalars \X ScalarLists) \cup (ScalarLists \X Nested)
               \cup (Objects({"a", "b"}) \X Objects({"a", "b", "c"})))
        \cup Within({List(<<o>>) : o \in Objects({"a"})}
                        \X {List(<<o>>) : o \in Objects({"a", "b", "c", "d"})})
        \cup (Nested \X (Nested \cup Objects({"a", "b", "c"}) \cup ScalarLists \cup {Null}))

\* TLC evaluates a definition like this one once, and the right side of a constant in
\* the .cfg every time.
MCComparisons == AllComparisons

User(n) == Obj("a" :> Num(n) @@ "b" :> Str("1"))
Deep == Obj("a" :> List(<<User(1), User(2)>>) @@ "0" :> Obj("a" :> List(<< >>)))
Matrix == List(<<List(<<Num(1), Num(2)>>), List(<<Num(2)>>), Obj("a" :> List(<<Num(1)>>))>>)
Mixed == List(<<User(1), List(<<User(2), Obj("a" :> Null)>>), Num(1)>>)

MCDocs == {Deep, Matrix, Mixed, Obj("a" :> Deep @@ "b" :> Matrix), List(<< >>), Null, Str("1")}

Calls == {<< >>, <<"size()">>, <<"string()">>, <<"sizeAsString()">>, <<"length()">>}
MCPaths == {p \o c : p \in Upto({"a", "b", "0", "1", ""}, 3), c \in Calls}
               \cup Upto({"a", "0", "-1"}, 3)

MCValues == {Num(1), Num(2), Str("1"), Str("2"), Null, User(1), Obj("a" :> Null),
             List(<< >>), List(<<Num(1), Num(2)>>)}

MCAtoi == "0" :> 0 @@ "1" :> 1 @@ "-1" :> -1

Inside(v) == ToSet(Elements(v)) \cup {v.obj[k] : k \in Fields(v)}
WithInside(S) == S \cup UNION {Inside(v) : v \in S}

Bodies == MCDocs \cup MCValues \cup UNION {{p[1], p[2]} : p \in AllComparisons}
Everything == WithInside(WithInside(WithInside(WithInside(Bodies))))
MCJSON == Everything

MCDepth[v \in MCJSON] ==
    IF Inside(v) = {} THEN 0 ELSE 1 + Max({MCDepth[u] : u \in Inside(v)})
MCMaxDepth == 4

=============================================================================
