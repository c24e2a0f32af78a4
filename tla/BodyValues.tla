----------------------------- MODULE BodyValues -----------------------------
(***************************************************************************)
(* Parsed bodies (types.go), as encoding/json makes them.  A value is a    *)
(* record with one field, its kind: num, str, null, list (a sequence) or   *)
(* obj (a function on field names).                                        *)
(***************************************************************************)
EXTENDS Integers, Sequences, FiniteSets

CONSTANTS
    JSON,       \* the values there are
    Depth,      \* of a value: more than that of what is in it
    MaxDepth

\* A parsed value is a finite tree: what is in it is a value of less depth.
ASSUME JSONAssumption ==
    /\ MaxDepth \in Nat /\ Depth \in [JSON -> 0 .. MaxDepth]
    /\ \A v \in JSON :
          \/ /\ v \in [list : Seq(JSON)]
             /\ \A i \in DOMAIN v.list : Depth[v.list[i]] < Depth[v]
          \/ /\ DOMAIN v = {"obj"} /\ v \in [obj : [DOMAIN v.obj -> JSON]]
             /\ IsFiniteSet(DOMAIN v.obj)
             /\ \A k \in DOMAIN v.obj : Depth[v.obj[k]] < Depth[v]
          \/ DOMAIN v \in {{"num"}, {"str"}, {"null"}}

Elements(v) == IF DOMAIN v = {"list"} THEN v.list ELSE << >>
Fields(v) == IF DOMAIN v = {"obj"} THEN DOMAIN v.obj ELSE {}
IsPrimitive(v) == DOMAIN v \notin {{"list"}, {"obj"}}

=============================================================================
