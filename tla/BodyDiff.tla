------------------------------ MODULE BodyDiff ------------------------------
(***************************************************************************)
(* NewBodyMatcher (matchers.go) and bodyDiffReporter (cmp.go): whether the *)
(* body of a response meets an expected body, strictly (exactBody) or in   *)
(* part (body).  The comparison itself is the vendored go-cmp: compareAny  *)
(* walks both values and reports what is equal, different or on one side   *)
(* only; the reporter decides which reports are differences.               *)
(***************************************************************************)
EXTENDS BodyValues, SequencesExt

-----------------------------------------------------------------------------
(* Reports of a comparison *)

Sides == {"both", "expected", "actual"}
Report(eq, side, shifted) == [eq |-> eq, side |-> side, shifted |-> shifted]

\* Result: how many sub-elements are equal and how many are not.
Result(reports) ==
    LET same == Cardinality({n \in DOMAIN reports : reports[n].eq})
    IN [same |-> same, diff |-> Len(reports) - same]
Equal(r) == r.diff = 0
Similar(r) == r.same + 1 >= r.diff

-----------------------------------------------------------------------------
(* The edit script of two lists: diff.Difference.  A path has the point it *)
(* has reached and the edits that lead there, from the start (d = 1) or    *)
(* from the end (d = -1); f is the result for each pair of elements.       *)

Edits == {"identity", "modified", "uniqueX", "uniqueY"}
Directions == {1, -1}
Points == [x : Int, y : Int]
EditPaths == [x : Int, y : Int, es : Seq(Edits)]

\* Where n turns of a loop lead from s.
Loop(turn, s, n) ==
    LET after[k \in 0 .. n] == IF k = 0 THEN s ELSE turn[after[k - 1]]
    IN after[n]

Abs(n) == IF n < 0 THEN -n ELSE n

Move(p, edit, d) ==
    [x |-> IF edit = "uniqueY" THEN p.x ELSE p.x + d,
     y |-> IF edit = "uniqueX" THEN p.y ELSE p.y + d,
     es |-> IF d = 1 THEN Append(p.es, edit) ELSE <<edit>> \o p.es]

\* The result at the next cell in this direction; lists are counted from 1.
At(f, p, d) == IF d = 1 THEN f[<<p.x + 1, p.y + 1>>] ELSE f[<<p.x, p.y>>]

\* Where both directions are open and the elements are not similar, the longer
\* way goes first; the start prefers x and the end prefers y.
Edit(f, p, d, dx, dy) ==
    IF dx = 0 THEN "uniqueY"
    ELSE IF dy = 0 THEN "uniqueX"
    ELSE IF Equal(At(f, p, d)) THEN "identity"
    ELSE IF Similar(At(f, p, d)) THEN "modified"
    ELSE IF dx > dy \/ (dx = dy /\ d = 1) THEN "uniqueX"
    ELSE "uniqueY"

Toward(f, p, d, dst) ==
    LET dx == Abs(dst.x - p.x)
        dy == Abs(dst.y - p.y)
    IN IF dx = 0 /\ dy = 0 THEN p ELSE Move(p, Edit(f, p, d, dx, dy), d)

Connect(f, p, d, dst) ==
    Loop([q \in EditPaths |-> Toward(f, q, d, dst)], p, Abs(dst.x - p.x) + Abs(dst.y - p.y))

\* As many more equal pairs as there are before the other path.
Match(f, p, d, other) ==
    IF d * (other.x - p.x) > 0 /\ d * (other.y - p.y) > 0 /\ Equal(At(f, p, d))
    THEN Move(p, "identity", d)
    ELSE p
Follow(f, p, d, other) ==
    Loop([q \in EditPaths |-> Match(f, q, d, other)], p, Abs(other.x - p.x))

Zigzag(n) == IF n % 2 = 0 THEN n \div 2 ELSE -((n + 1) \div 2)

\* The cells of a search are on the diagonal through the frontier of its
\* direction; at each end the diagonal leaves what is between the two paths.
Cell(s, n) ==
    [x |-> s.front[s.d].x + s.d * Zigzag(n), y |-> s.front[s.d].y - s.d * Zigzag(n)]
PastX(s, p) == s.d * (p.x - s.path[-s.d].x) >= 0 \/ s.d * (p.y - s.path[s.d].y) < 0
PastY(s, p) == s.d * (p.y - s.path[-s.d].y) >= 0 \/ s.d * (p.x - s.path[s.d].x) < 0
Open(s, p) == ~PastX(s, p) /\ ~PastY(s, p)
IsMatch(f, s, p) == Open(s, p) /\ Equal(At(f, p, s.d))

\* The cells looked at in vain before cell n, which cost as much of the budget.
Tried(s, n) == Cardinality({m \in 0 .. n - 1 : Open(s, Cell(s, m))})
\* A search is over when both ends are passed or the budget is used up.
IsOver(s, n) ==
    \/ Tried(s, n) = s.budget
    \/ /\ \E m \in 0 .. n - 1 : PastX(s, Cell(s, m))
       /\ \E m \in 0 .. n - 1 : ~PastX(s, Cell(s, m)) /\ PastY(s, Cell(s, m))

\* The number of the cell where the search ends, with a match or without.
EndOf(f, s) ==
    LET span == Abs(s.path[1].x - s.path[-1].x) + Abs(s.path[1].y - s.path[-1].y)
        ends(n) == IsOver(s, n) \/ IsMatch(f, s, Cell(s, n))
    IN CHOOSE n \in 0 .. 2 * span + 3 : ends(n) /\ \A m \in 0 .. n - 1 : ~ends(m)

FindMatch(f, s) ==
    LET n == EndOf(f, s)
        p == Cell(s, n)
        found == Follow(f, Move(Connect(f, s.path[s.d], s.d, p), "identity", s.d), s.d, s.path[-s.d])
        left == s.budget - Tried(s, n)
    IN IF IsMatch(f, s, p) /\ ~IsOver(s, n)
       THEN [s EXCEPT !.path = [@ EXCEPT ![s.d] = found],
                      !.front = [@ EXCEPT ![s.d] = [x |-> found.x, y |-> found.y]],
                      !.budget = left]
       ELSE [s EXCEPT !.budget = left]

\* The frontier goes on, and it is the turn of the other direction.
Advance(s) ==
    LET front == s.front[s.d]
        other == s.path[-s.d]
        further == IF s.d * (other.x - front.x) >= s.d * (other.y - front.y)
                   THEN [front EXCEPT !.x = @ + s.d]
                   ELSE [front EXCEPT !.y = @ + s.d]
    IN [s EXCEPT !.front = [@ EXCEPT ![s.d] = further], !.d = -@]

SearchStates == [path : [Directions -> EditPaths], front : [Directions -> Points],
                 budget : Int, d : Directions]

Turn(f, s) ==
    IF s.front[1].x >= s.front[-1].x \/ s.front[1].y >= s.front[-1].y \/ s.budget = 0
    THEN s
    ELSE Advance(FindMatch(f, s))

Difference(nx, ny, f) ==
    LET start == [x |-> 0, y |-> 0]
        end == [x |-> nx, y |-> ny]
        here(p) == [x |-> p.x, y |-> p.y, es |-> << >>]
        s == Loop([t \in SearchStates |-> Turn(f, t)],
                  [path |-> [d \in Directions |-> IF d = 1 THEN here(start) ELSE here(end)],
                   front |-> [d \in Directions |-> IF d = 1 THEN start ELSE end],
                   budget |-> 4 * (nx + ny), d |-> 1],
                  nx + ny)
    IN Connect(f, s.path[1], 1, s.path[-1]).es \o s.path[-1].es

-----------------------------------------------------------------------------
(* compareAny, compareMap and compareArray *)

\* The number of elements of x, and of y, the first n edits consume.
Consumed(es, n, other) == Cardinality({m \in 1 .. n : es[m] # other})

\* What is reported of a field and of an edit; r has the reports of what is inside.
ofField(r, x, y, k) ==
    IF k \notin DOMAIN y.obj THEN <<Report(FALSE, "expected", FALSE)>>
    ELSE IF k \notin DOMAIN x.obj THEN <<Report(FALSE, "actual", FALSE)>>
    ELSE r[<<x.obj[k], y.obj[k]>>]

replay(r, x, y, es, n) ==
    LET a == Consumed(es, n, "uniqueY")
        b == Consumed(es, n, "uniqueX")
    IN CASE es[n] = "uniqueX" -> <<Report(FALSE, "expected", FALSE)>>
         [] es[n] = "uniqueY" -> <<Report(FALSE, "actual", FALSE)>>
         [] es[n] = "identity" -> <<Report(TRUE, "both", a # b)>>
         [] es[n] = "modified" -> r[<<x.list[a], y.list[b]>>]

Script(r, x, y) ==
    Difference(Len(x.list), Len(y.list),
               [c \in (DOMAIN x.list) \X (DOMAIN y.list) |-> Result(r[<<x.list[c[1]], y.list[c[2]]>>])])

reportsFrom(r, x, y) ==
    IF DOMAIN x # DOMAIN y THEN <<Report(FALSE, "both", FALSE)>>
    ELSE IF DOMAIN x = {"obj"}
    THEN LET keys == SetToSeq(DOMAIN x.obj \cup DOMAIN y.obj)
         IN FlattenSeq([n \in DOMAIN keys |-> ofField(r, x, y, keys[n])])
    ELSE IF DOMAIN x = {"list"}
    THEN LET es == Script(r, x, y)
         IN FlattenSeq([n \in DOMAIN es |-> replay(r, x, y, es, n)])
    ELSE <<Report(x = y, "both", FALSE)>>

Reports(x, y) ==
    LET r[z \in JSON \X JSON] == reportsFrom(r, z[1], z[2])
    IN r[<<x, y>>]

-----------------------------------------------------------------------------
(* bodyDiffReporter.Report *)

\* A report that is recorded as a difference: in part, what is expected nowhere
\* is not; strictly, neither side may be missing nor an equal element elsewhere.
RecordedUnlessExtra(r, exact) == r.side # "actual" /\ ~r.eq
RecordedUnlessMissing(r, exact) == (r.side = "expected" => exact) /\ ~r.eq
Recorded(r, exact) ==
    /\ r.side = "actual" => exact
    /\ \/ exact /\ (r.side = "expected" \/ r.shifted)
       \/ ~r.eq

\* The first difference is always formatted; later ones may not be, to keep the
\* message short.
Met(x, y, exact) == \A r \in ToSet(Reports(x, y)) : ~Recorded(r, exact)

=============================================================================
