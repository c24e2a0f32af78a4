------------------------- MODULE SchemaCacheProofs --------------------------
(***************************************************************************)
(* What the shared cache of schemas guarantees, for any number of workers, *)
(* references and calls and however the sources change.                    *)
(***************************************************************************)
EXTENDS SchemaCache, TLAPS

Storing(w, k) == pc[w] = "store" /\ uri(Ref(w)) = k

\* What a worker is in the middle of.
Position ==
    \A w \in Workers :
        /\ pc[w] # "lookup" => ~Finished(w) /\ Ref(w) \in Refs
        /\ pc[w] = "fetch" => reads[w][uri(Ref(w))] = 0
        /\ pc[w] = "store" => schema[w] \in Contents

InCall == \A w \in Workers : ~Finished(w) => step[w] \in 1 .. Len(Calls[w][call[w]])

\* A key that a worker has read and stored is in the cache.
Remembered ==
    \A w \in Workers, k \in Keys :
        reads[w][k] # 0 => reads[w][k] = 1 /\ (Storing(w, k) \/ cache[k] # NotCached)

\* What is in the cache was stored by a worker that read it.
StoredByReader ==
    \A k \in Keys : cache[k] # NotCached =>
        \E w \in Workers : reads[w][k] # 0 /\ ~Storing(w, k)

StoringHasRead == \A w \in Workers, k \in Keys : Storing(w, k) => reads[w][k] # 0

OneReader(k) == \A w, x \in Workers : reads[w][k] # 0 /\ reads[x][k] # 0 => w = x

\* With one reader of a key, what was used for it is what the cache has.
UsedIsCached ==
    \A u \in used : OneReader(uri(u[2])) => u[3] = cache[uri(u[2])]

Inv == TypeOK /\ InCall /\ Position /\ Remembered /\ StoredByReader /\ StoringHasRead /\ UsedIsCached

-----------------------------------------------------------------------------

\* The reference of a worker in the middle of a call is one of the suites.
LEMMA RefInRefs ==
    ASSUME TypeOK, InCall, NEW w \in Workers, ~Finished(w)
    PROVE  /\ Ref(w) \in Refs /\ uri(Ref(w)) \in Keys /\ Source(Ref(w)) \in Sources
           /\ step[w] \in 1 .. Len(Calls[w][call[w]])
           /\ call[w] \in 1 .. Len(Calls[w])
           /\ Calls[w] \in Seq(Seq(Refs) \ {<< >>})
<1>1. Calls[w] \in Seq(Seq(Refs) \ {<< >>})
  BY SchemaCacheAssumption
<1>2. call[w] \in 1 .. Len(Calls[w])
  BY <1>1 DEF TypeOK, Finished
<1>3. Calls[w][call[w]] \in Seq(Refs)
  BY <1>1, <1>2
<1>4. step[w] \in 1 .. Len(Calls[w][call[w]])
  BY DEF InCall
<1>5. Ref(w) \in Refs
  BY <1>3, <1>4 DEF Ref
<1> QED
  BY <1>1, <1>2, <1>4, <1>5 DEF Keys, Sources

\* A call has references, and its first one is a step of it.
LEMMA FirstStep ==
    ASSUME NEW w \in Workers, NEW c \in Nat \ {0}, c <= Len(Calls[w])
    PROVE  1 \in 1 .. Len(Calls[w][c])
<1>1. Calls[w] \in Seq(Seq(Refs) \ {<< >>})
  BY SchemaCacheAssumption
<1>2. c \in 1 .. Len(Calls[w])
  BY <1>1
<1>3. Calls[w][c] \in Seq(Refs) /\ Calls[w][c] # << >>
  BY <1>1, <1>2
<1> QED
  BY <1>3

\* What Resolve does, for the worker and for the others.
LEMMA ResolveStep ==
    ASSUME TypeOK, InCall, NEW w \in Workers, ~Finished(w), NEW c \in Contents, Resolve(w, c)
    PROVE  /\ call' \in [Workers -> Nat \ {0}] /\ step' \in [Workers -> Nat \ {0}]
           /\ pc' \in [Workers -> {"lookup", "fetch", "store"}]
           /\ pc'[w] = "lookup"
           /\ \A x \in Workers \ {w} : pc'[x] = pc[x] /\ call'[x] = call[x] /\ step'[x] = step[x]
           /\ InCall'
           /\ used' = used \cup {<<w, Ref(w), c>>}
           /\ used' \subseteq Workers \X Refs \X Contents
<1>1. /\ Ref(w) \in Refs /\ step[w] \in 1 .. Len(Calls[w][call[w]])
      /\ Calls[w] \in Seq(Seq(Refs) \ {<< >>}) /\ call[w] \in 1 .. Len(Calls[w])
  BY RefInRefs
<1>2. used' = used \cup {<<w, Ref(w), c>>} /\ used' \subseteq Workers \X Refs \X Contents
  BY <1>1 DEF Resolve, TypeOK
<1>3. /\ pc' \in [Workers -> {"lookup", "fetch", "store"}] /\ pc'[w] = "lookup"
      /\ \A x \in Workers \ {w} : pc'[x] = pc[x]
  BY DEF Resolve, TypeOK
<1>4. Calls[w][call[w]] \in Seq(Refs)
  BY <1>1
<1>5. CASE step[w] = Len(Calls[w][call[w]])
  <2>1. call' = [call EXCEPT ![w] = @ + 1] /\ step' = [step EXCEPT ![w] = 1]
    BY <1>5 DEF Resolve
  <2>2. /\ call' \in [Workers -> Nat \ {0}] /\ step' \in [Workers -> Nat \ {0}]
        /\ step'[w] = 1
        /\ \A x \in Workers \ {w} : call'[x] = call[x] /\ step'[x] = step[x]
    BY <2>1 DEF TypeOK
  <2>3. ASSUME NEW x \in Workers, ~Finished(x)'
        PROVE  step'[x] \in 1 .. Len(Calls[x][call'[x]])
    <3>1. CASE x = w
      <4>1. call'[w] <= Len(Calls[w])
        BY <3>1, <2>2, <2>3, <1>1 DEF Finished
      <4> QED
        BY <3>1, <4>1, <2>2, FirstStep
    <3>2. CASE x # w
      BY <3>2, <2>2, <2>3 DEF InCall, Finished
    <3> QED
      BY <3>1, <3>2
  <2> QED
    BY <1>2, <1>3, <2>2, <2>3 DEF InCall
<1>6. CASE step[w] # Len(Calls[w][call[w]])
  <2>1. call' = call /\ step' = [step EXCEPT ![w] = @ + 1]
    BY <1>6 DEF Resolve
  <2>2. step[w] + 1 \in 1 .. Len(Calls[w][call[w]])
    BY <1>1, <1>4, <1>6
  <2>3. /\ call' \in [Workers -> Nat \ {0}] /\ step' \in [Workers -> Nat \ {0}]
        /\ step'[w] = step[w] + 1
        /\ \A x \in Workers \ {w} : call'[x] = call[x] /\ step'[x] = step[x]
    BY <2>1 DEF TypeOK
  <2>4. InCall'
    BY <2>1, <2>2, <2>3 DEF InCall, Finished
  <2> QED
    BY <1>2, <1>3, <2>3, <2>4
<1> QED
  BY <1>5, <1>6

\* A worker that does not move keeps its reference.
LEMMA SamePlace ==
    ASSUME NEW x \in Workers, call'[x] = call[x], step'[x] = step[x]
    PROVE  /\ Ref(x)' = Ref(x) /\ (Finished(x)' <=> Finished(x))
           /\ uri(Ref(x))' = uri(Ref(x)) /\ Source(Ref(x))' = Source(Ref(x))
<1>1. Ref(x)' = Ref(x) /\ (Finished(x)' <=> Finished(x))
  BY DEF Ref, Finished
<1>2. uri(Ref(x))' = uri(Ref(x))
  BY <1>1 DEF uri, toAbsPath, toAbsURL
<1>3. Source(Ref(x))' = Source(Ref(x))
  BY <1>1, <1>2 DEF Source
<1> QED
  BY <1>1, <1>2, <1>3

-----------------------------------------------------------------------------

LEMMA InitInv == Init => Inv
<1> SUFFICES ASSUME Init PROVE Inv
  OBVIOUS
<1>1. TypeOK
  BY SchemaCacheAssumption DEF Init, TypeOK
<1>2. InCall
  BY FirstStep, SchemaCacheAssumption DEF Init, InCall, Finished
<1>3. Position /\ Remembered /\ StoredByReader /\ StoringHasRead /\ UsedIsCached
  BY <1>1 DEF Init, Position, Remembered, StoredByReader, StoringHasRead, UsedIsCached, Storing, TypeOK
<1> QED
  BY <1>1, <1>2, <1>3 DEF Inv

LEMMA FoundInv ==
    ASSUME Inv, NEW w \in Workers, Found(w)
    PROVE  Inv'
<1> USE DEF Inv
<1> DEFINE k == uri(Ref(w))
<1>1. ~Finished(w) /\ Ref(w) \in Refs /\ k \in Keys
  BY RefInRefs DEF Found
<1>2. cache[k] \in Contents /\ Resolve(w, cache[k])
  BY <1>1 DEF Found, TypeOK
<1>3. /\ call' \in [Workers -> Nat \ {0}] /\ step' \in [Workers -> Nat \ {0}]
      /\ pc' \in [Workers -> {"lookup", "fetch", "store"}]
      /\ pc'[w] = "lookup" /\ pc[w] = "lookup"
      /\ \A x \in Workers \ {w} : pc'[x] = pc[x] /\ call'[x] = call[x] /\ step'[x] = step[x]
      /\ InCall'
      /\ used' = used \cup {<<w, Ref(w), cache[k]>>}
      /\ used' \subseteq Workers \X Refs \X Contents
  BY <1>1, <1>2, ResolveStep DEF Found
<1>4. UNCHANGED <<source, served, changes, cache, schema, reads>>
  BY DEF Found
<1>5. TypeOK'
  BY <1>3, <1>4 DEF TypeOK
<1>6. \A x \in Workers \ {w} :
        /\ Ref(x)' = Ref(x) /\ (Finished(x)' <=> Finished(x))
        /\ uri(Ref(x))' = uri(Ref(x))
  BY <1>3, SamePlace
<1>7. \A x \in Workers, j \in Keys : Storing(x, j)' <=> Storing(x, j)
  BY <1>3, <1>6 DEF Storing
<1>8. Position'
  BY <1>3, <1>4, <1>6 DEF Position
<1>9. Remembered' /\ StoredByReader' /\ StoringHasRead'
  BY <1>4, <1>7 DEF Remembered, StoredByReader, StoringHasRead
<1>10. UsedIsCached'
  BY <1>3, <1>4 DEF UsedIsCached, OneReader, uri, toAbsPath, toAbsURL
<1> QED
  BY <1>3, <1>5, <1>8, <1>9, <1>10

LEMMA NotFoundInv ==
    ASSUME Inv, NEW w \in Workers, NotFound(w)
    PROVE  Inv'
<1> USE DEF Inv
<1> DEFINE k == uri(Ref(w))
<1>1. ~Finished(w) /\ Ref(w) \in Refs /\ k \in Keys
  BY RefInRefs DEF NotFound
<1>2. /\ pc[w] = "lookup" /\ cache[k] = NotCached
      /\ UNCHANGED <<source, served, changes, cache, call, step, schema, reads, used>>
  BY DEF NotFound
<1>3. /\ pc' \in [Workers -> {"lookup", "fetch", "store"}]
      /\ pc'[w] = "fetch" /\ \A x \in Workers \ {w} : pc'[x] = pc[x]
  BY DEF NotFound, TypeOK
<1>4. \A x \in Workers :
        /\ Ref(x)' = Ref(x) /\ (Finished(x)' <=> Finished(x))
        /\ uri(Ref(x))' = uri(Ref(x))
  BY <1>2, SamePlace
<1>5. \A x \in Workers, j \in Keys : Storing(x, j)' <=> Storing(x, j)
  BY <1>2, <1>3, <1>4 DEF Storing
<1>6. reads[w][k] = 0
  BY <1>1, <1>2 DEF Remembered, Storing
<1>7. Position'
  BY <1>1, <1>2, <1>3, <1>4, <1>6 DEF Position
<1>8. TypeOK' /\ InCall' /\ Remembered' /\ StoredByReader' /\ StoringHasRead'
  BY <1>2, <1>3, <1>4, <1>5 DEF TypeOK, InCall, Remembered, StoredByReader, StoringHasRead
<1>9. UsedIsCached'
  BY <1>2 DEF UsedIsCached, OneReader, uri, toAbsPath, toAbsURL
<1> QED
  BY <1>7, <1>8, <1>9

LEMMA ReadInv ==
    ASSUME Inv, NEW w \in Workers, Read(w)
    PROVE  Inv'
<1> USE DEF Inv
<1> DEFINE k == uri(Ref(w))
<1>1. ~Finished(w) /\ pc[w] = "fetch" /\ reads[w][k] = 0
  BY DEF Position, Read
<1>2. Ref(w) \in Refs /\ k \in Keys /\ Source(Ref(w)) \in Sources
  BY <1>1, RefInRefs
<1>3. UNCHANGED <<source, changes, cache, call, step, used>>
  BY DEF Read
<1>4. /\ pc' \in [Workers -> {"lookup", "fetch", "store"}]
      /\ pc'[w] = "store" /\ \A x \in Workers \ {w} : pc'[x] = pc[x]
      /\ schema' \in [Workers -> Contents \cup {NotCached}]
      /\ schema'[w] \in Contents /\ \A x \in Workers \ {w} : schema'[x] = schema[x]
      /\ served' \in [Sources -> SUBSET Contents]
  BY <1>2 DEF Read, TypeOK
<1>5. /\ reads' \in [Workers -> [Keys -> Nat]]
      /\ reads'[w][k] = 1
      /\ \A x \in Workers, j \in Keys : x # w \/ j # k => reads'[x][j] = reads[x][j]
  <2>1. reads' = [reads EXCEPT ![w] = [reads[w] EXCEPT ![k] = reads[w][k] + 1]]
    BY DEF Read
  <2>2. reads[w] \in [Keys -> Nat] /\ reads[w][k] + 1 = 1
    BY <1>1 DEF TypeOK
  <2>3. [reads[w] EXCEPT ![k] = reads[w][k] + 1] \in [Keys -> Nat]
    BY <1>2, <2>2
  <2> HIDE DEF k
  <2> QED
    BY <1>2, <2>1, <2>2, <2>3 DEF TypeOK
<1>6. \A x \in Workers :
        /\ Ref(x)' = Ref(x) /\ (Finished(x)' <=> Finished(x))
        /\ uri(Ref(x))' = uri(Ref(x))
  BY <1>3, SamePlace
<1>7. TypeOK' /\ InCall'
  BY <1>3, <1>4, <1>5, <1>6 DEF TypeOK, InCall
<1>8. Position'
  <2> SUFFICES ASSUME NEW x \in Workers
               PROVE  /\ pc'[x] # "lookup" => ~Finished(x) /\ Ref(x) \in Refs
                      /\ pc'[x] = "fetch" => reads'[x][uri(Ref(x))] = 0
                      /\ pc'[x] = "store" => schema'[x] \in Contents
    BY <1>6 DEF Position
  <2>1. CASE x = w
    BY <2>1, <1>1, <1>2, <1>4
  <2>2. CASE x # w
    <3>1. pc[x] # "lookup" => uri(Ref(x)) \in Keys
      BY RefInRefs DEF Position
    <3> QED
      BY <2>2, <3>1, <1>4, <1>5 DEF Position
  <2> QED
    BY <2>1, <2>2
<1>9. \A x \in Workers, j \in Keys :
        Storing(x, j)' <=> Storing(x, j) \/ (x = w /\ j = k)
  BY <1>1, <1>4, <1>6 DEF Storing
<1>10. Remembered' /\ StoringHasRead'
  BY <1>2, <1>3, <1>5, <1>9 DEF Remembered, StoringHasRead
<1>11. StoredByReader'
  <2> SUFFICES ASSUME NEW j \in Keys, cache'[j] # NotCached
               PROVE  \E x \in Workers : reads'[x][j] # 0 /\ ~Storing(x, j)'
    BY DEF StoredByReader
  <2>1. PICK x \in Workers : reads[x][j] # 0 /\ ~Storing(x, j)
    BY <1>3 DEF StoredByReader
  <2>2. x # w \/ j # k
    BY <2>1, <1>1
  <2> QED
    BY <2>1, <2>2, <1>5, <1>9
<1>12. UsedIsCached'
  <2> SUFFICES ASSUME NEW u \in used, OneReader(uri(u[2]))'
               PROVE  u[3] = cache[uri(u[2])]
    BY <1>3 DEF UsedIsCached, uri, toAbsPath, toAbsURL
  <2> DEFINE j == uri(u[2])
  <2>1. u[2] \in Refs /\ j \in Keys
    BY DEF TypeOK, Keys
  <2>2. \A x, y \in Workers : reads'[x][j] # 0 /\ reads'[y][j] # 0 => x = y
    BY DEF OneReader, uri, toAbsPath, toAbsURL
  <2>3. \A x \in Workers : reads[x][j] # 0 => reads'[x][j] # 0
    BY <1>1, <1>5, <2>1
  <2>4. OneReader(j)
    BY <2>2, <2>3 DEF OneReader
  <2> QED
    BY <2>4 DEF UsedIsCached
<1> QED
  BY <1>7, <1>8, <1>10, <1>11, <1>12

LEMMA ReadFailsInv ==
    ASSUME Inv, NEW w \in Workers, ReadFails(w)
    PROVE  Inv'
<1> USE DEF Inv
<1>1. ~Finished(w) /\ pc[w] = "fetch"
  BY DEF Position, ReadFails
<1>2. /\ call[w] \in 1 .. Len(Calls[w]) /\ Calls[w] \in Seq(Seq(Refs) \ {<< >>})
  BY <1>1, RefInRefs
<1>3. UNCHANGED <<source, served, changes, cache, schema, reads, used>>
  BY DEF ReadFails
<1>4. /\ pc' \in [Workers -> {"lookup", "fetch", "store"}] /\ pc'[w] = "lookup"
      /\ call' \in [Workers -> Nat \ {0}] /\ step' \in [Workers -> Nat \ {0}]
      /\ step'[w] = 1
      /\ \A x \in Workers \ {w} : pc'[x] = pc[x] /\ call'[x] = call[x] /\ step'[x] = step[x]
  BY DEF ReadFails, TypeOK
<1>5. \A x \in Workers \ {w} :
        /\ Ref(x)' = Ref(x) /\ (Finished(x)' <=> Finished(x))
        /\ uri(Ref(x))' = uri(Ref(x))
  BY <1>4, SamePlace
<1>6. TypeOK'
  BY <1>3, <1>4 DEF TypeOK
<1>7. InCall'
  <2> SUFFICES ASSUME NEW x \in Workers, ~Finished(x)'
               PROVE  step'[x] \in 1 .. Len(Calls[x][call'[x]])
    BY DEF InCall
  <2>1. CASE x = w
    <3>1. call'[w] <= Len(Calls[w])
      BY <2>1, <1>2, <1>4 DEF Finished
    <3> QED
      BY <2>1, <3>1, <1>4, FirstStep
  <2>2. CASE x # w
    BY <2>2, <1>4, <1>5 DEF InCall
  <2> QED
    BY <2>1, <2>2
<1>8. \A x \in Workers, j \in Keys : Storing(x, j)' <=> Storing(x, j)
  BY <1>1, <1>4, <1>5 DEF Storing
<1>9. Position'
  BY <1>3, <1>4, <1>5 DEF Position
<1>10. Remembered' /\ StoredByReader' /\ StoringHasRead'
  BY <1>3, <1>8 DEF Remembered, StoredByReader, StoringHasRead
<1>11. UsedIsCached'
  BY <1>3 DEF UsedIsCached, OneReader, uri, toAbsPath, toAbsURL
<1> QED
  BY <1>6, <1>7, <1>9, <1>10, <1>11

LEMMA StoreInv ==
    ASSUME Inv, NEW w \in Workers, Store(w)
    PROVE  Inv'
<1> USE DEF Inv
<1> DEFINE k == uri(Ref(w))
<1>1. ~Finished(w) /\ pc[w] = "store" /\ schema[w] \in Contents
  BY DEF Position, Store
<1>2. Ref(w) \in Refs /\ k \in Keys
  BY <1>1, RefInRefs
<1>3. /\ call' \in [Workers -> Nat \ {0}] /\ step' \in [Workers -> Nat \ {0}]
      /\ pc' \in [Workers -> {"lookup", "fetch", "store"}]
      /\ pc'[w] = "lookup"
      /\ \A x \in Workers \ {w} : pc'[x] = pc[x] /\ call'[x] = call[x] /\ step'[x] = step[x]
      /\ InCall'
      /\ used' = used \cup {<<w, Ref(w), schema[w]>>}
      /\ used' \subseteq Workers \X Refs \X Contents
  BY <1>1, ResolveStep DEF Store
<1>4. UNCHANGED <<source, served, changes, reads>>
  BY DEF Store
<1>5. /\ cache' \in [Keys -> Contents \cup {NotCached}] /\ cache'[k] = schema[w]
      /\ cache'[k] # NotCached
      /\ \A j \in Keys \ {k} : cache'[j] = cache[j]
      /\ schema' \in [Workers -> Contents \cup {NotCached}]
      /\ \A x \in Workers \ {w} : schema'[x] = schema[x]
  BY <1>1, <1>2, SchemaCacheAssumption DEF Store, Stored, TypeOK
<1>6. \A x \in Workers \ {w} :
        /\ Ref(x)' = Ref(x) /\ (Finished(x)' <=> Finished(x))
        /\ uri(Ref(x))' = uri(Ref(x))
  BY <1>3, SamePlace
<1>7. TypeOK'
  BY <1>3, <1>4, <1>5 DEF TypeOK
<1>8. Position'
  BY <1>3, <1>4, <1>5, <1>6 DEF Position
<1>9. /\ \A x \in Workers \ {w}, j \in Keys : Storing(x, j)' <=> Storing(x, j)
      /\ \A j \in Keys : ~Storing(w, j)' /\ (Storing(w, j) <=> j = k)
  BY <1>1, <1>3, <1>6 DEF Storing
<1>10. Remembered' /\ StoringHasRead'
  BY <1>4, <1>5, <1>9 DEF Remembered, StoringHasRead
<1>11. reads[w][k] # 0
  BY <1>2, <1>9 DEF StoringHasRead
<1>12. StoredByReader'
  <2> SUFFICES ASSUME NEW j \in Keys, cache'[j] # NotCached
               PROVE  \E x \in Workers : reads[x][j] # 0 /\ ~Storing(x, j)'
    BY <1>4 DEF StoredByReader
  <2>1. CASE j = k
    BY <2>1, <1>9, <1>11
  <2>2. CASE j # k
    <3>1. PICK x \in Workers : reads[x][j] # 0 /\ ~Storing(x, j)
      BY <2>2, <1>5 DEF StoredByReader
    <3> QED
      BY <3>1, <1>9
  <2> QED
    BY <2>1, <2>2
<1>13. UsedIsCached'
  <2> SUFFICES ASSUME NEW u \in used', OneReader(uri(u[2]))'
               PROVE  u[3] = cache'[uri(u[2])]
    BY DEF UsedIsCached, uri, toAbsPath, toAbsURL
  <2> DEFINE j == uri(u[2])
  <2>1. OneReader(j)
    BY <1>4 DEF OneReader, uri, toAbsPath, toAbsURL
  <2>2. CASE u = <<w, Ref(w), schema[w]>>
    BY <2>2, <1>5
  <2>3. CASE u \in used /\ j # k
    BY <2>1, <2>3, <1>2, <1>5 DEF UsedIsCached, TypeOK, Keys
  <2>4. CASE u \in used /\ j = k
    <3>1. u[3] = cache[k] /\ u[3] \in Contents
      BY <2>1, <2>4 DEF UsedIsCached, TypeOK
    <3>2. PICK x \in Workers : reads[x][k] # 0 /\ ~Storing(x, k)
      BY <3>1, <1>2, SchemaCacheAssumption DEF StoredByReader
    <3>3. x # w
      BY <3>2, <1>2, <1>9
    <3> QED
      BY <3>2, <3>3, <2>1, <2>4, <1>11 DEF OneReader
  <2> QED
    BY <2>2, <2>3, <2>4, <1>3
<1> QED
  BY <1>3, <1>7, <1>8, <1>10, <1>12, <1>13

LEMMA NextInv == Inv /\ [Next]_vars => Inv'
<1> SUFFICES ASSUME Inv, [Next]_vars PROVE Inv'
  OBVIOUS
<1>1. ASSUME NEW s \in Sources, Change(s) PROVE Inv'
  <2>1. UNCHANGED <<served, cache, call, step, pc, schema, reads, used>>
    BY <1>1 DEF Change
  <2>2. TypeOK'
    <3>1. changes' \in 0 .. MaxChanges
      BY <1>1, SchemaCacheAssumption DEF Change, Inv, TypeOK
    <3>2. Gives(s) \subseteq Contents \cup {Missing, Hanging}
      BY DEF Gives
    <3>3. source' \in [Sources -> Contents \cup {Missing, Hanging}]
      BY <1>1, <3>2 DEF Change, Inv, TypeOK
    <3> QED
      BY <2>1, <3>1, <3>3 DEF Inv, TypeOK
  <2>3. \A x \in Workers :
          /\ Ref(x)' = Ref(x) /\ (Finished(x)' <=> Finished(x))
          /\ uri(Ref(x))' = uri(Ref(x))
    BY <2>1, SamePlace
  <2>4. \A x \in Workers, j \in Keys : Storing(x, j)' <=> Storing(x, j)
    BY <2>1, <2>3 DEF Storing
  <2>5. InCall' /\ Position'
    BY <2>1, <2>3 DEF Inv, InCall, Position
  <2>6. Remembered' /\ StoredByReader' /\ StoringHasRead'
    BY <2>1, <2>4 DEF Inv, Remembered, StoredByReader, StoringHasRead
  <2>7. UsedIsCached'
    BY <2>1 DEF Inv, UsedIsCached, OneReader, uri, toAbsPath, toAbsURL
  <2> QED
    BY <2>2, <2>5, <2>6, <2>7 DEF Inv
<1>2. ASSUME NEW w \in Workers, Worker(w) PROVE Inv'
  BY <1>2, FoundInv, NotFoundInv, ReadInv, ReadFailsInv, StoreInv DEF Worker
<1>3. CASE UNCHANGED vars
  <2>1. \A x \in Workers :
          /\ Ref(x)' = Ref(x) /\ (Finished(x)' <=> Finished(x))
          /\ uri(Ref(x))' = uri(Ref(x))
    BY <1>3, SamePlace DEF vars
  <2>2. \A x \in Workers, j \in Keys : Storing(x, j)' <=> Storing(x, j)
    BY <1>3, <2>1 DEF Storing, vars
  <2>3. TypeOK' /\ InCall' /\ Position'
    BY <1>3, <2>1 DEF Inv, TypeOK, InCall, Position, vars
  <2>4. Remembered' /\ StoredByReader' /\ StoringHasRead'
    BY <1>3, <2>2 DEF Inv, Remembered, StoredByReader, StoringHasRead, vars
  <2>5. UsedIsCached'
    BY <1>3 DEF Inv, UsedIsCached, OneReader, uri, toAbsPath, toAbsURL, vars
  <2> QED
    BY <2>3, <2>4, <2>5 DEF Inv
<1> QED
  BY <1>1, <1>2, <1>3 DEF Next, Over

THEOREM InvAlways == Spec => []Inv
  BY InitInv, NextInv, PTL DEF Spec

\* The state of the cache and of the workers keeps its type.
THEOREM TypeCorrect == Spec => []TypeOK
  BY InvAlways, PTL DEF Inv

\* No worker reads a schema a second time, for any number of workers and calls and
\* however their steps and the changes of the sources interleave.
THEOREM NoSecondRead == Spec => []ReadOnce
<1>1. Inv => ReadOnce
  BY DEF Inv, TypeOK, Remembered, ReadOnce
<1> QED
  BY <1>1, InvAlways, PTL

\* Two contents of one schema within a run take two workers that race for it.
THEOREM OneSchemaPerRun == Spec => []OneSchema
<1>1. Inv => OneSchema
  <2> SUFFICES ASSUME Inv, NEW u \in used, NEW v \in used,
                      uri(u[2]) = uri(v[2]), u[3] # v[3]
               PROVE  \E w, x \in Workers :
                          w # x /\ reads[w][uri(u[2])] > 0 /\ reads[x][uri(u[2])] > 0
    BY DEF OneSchema
  <2>1. ~OneReader(uri(u[2]))
    BY DEF Inv, UsedIsCached
  <2>2. PICK w, x \in Workers : w # x /\ reads[w][uri(u[2])] # 0 /\ reads[x][uri(u[2])] # 0
    BY <2>1 DEF OneReader
  <2>3. uri(u[2]) \in Keys
    BY DEF Inv, TypeOK, Keys
  <2> QED
    BY <2>2, <2>3 DEF Inv, TypeOK
<1> QED
  BY <1>1, InvAlways, PTL

-----------------------------------------------------------------------------
(* Where a schema comes from *)

\* No file has the key of a URI: a URI has a host, and a file has not.
KeysApart == \A r, t \in Refs : uri(r) = uri(t) => r.kind = t.kind

Provenance ==
    /\ \A w \in Workers : pc[w] = "store" => schema[w] \in served[Source(Ref(w))]
    /\ \A r \in Refs : cache[uri(r)] # NotCached => cache[uri(r)] \in served[Source(r)]
    /\ FromItsSource

LEMMA ProvenanceStep ==
    ASSUME KeysApart, Inv, Provenance, [Next]_vars
    PROVE  Provenance'
<1> USE DEF Inv
<1>0. \A r \in Refs : /\ uri(r) \in Keys /\ Source(r) \in Sources
                      /\ uri(r)' = uri(r) /\ Source(r)' = Source(r)
  BY DEF Keys, Sources, uri, Source, toAbsPath, toAbsURL
<1>1. CASE \/ \E s \in Sources : Change(s)
           \/ \E w \in Workers : NotFound(w) \/ ReadFails(w)
           \/ UNCHANGED vars
  <2>1. UNCHANGED <<served, cache, schema, used>>
    BY <1>1 DEF Change, NotFound, ReadFails, vars
  <2>2. \A x \in Workers : pc'[x] = "store" =>
            pc[x] = "store" /\ call'[x] = call[x] /\ step'[x] = step[x]
    BY <1>1 DEF Change, NotFound, ReadFails, vars, TypeOK
  <2>3. \A x \in Workers : pc'[x] = "store" => Source(Ref(x))' = Source(Ref(x))
    BY <2>2, SamePlace
  <2>4. FromItsSource'
    BY <2>1 DEF Provenance, FromItsSource, Source, uri, toAbsPath, toAbsURL
  <2> QED
    BY <1>0, <2>1, <2>2, <2>3, <2>4 DEF Provenance
<1>2. ASSUME NEW w \in Workers, Found(w)
      PROVE  Provenance'
  <2>1. ~Finished(w) /\ Ref(w) \in Refs /\ cache[uri(Ref(w))] # NotCached
    BY <1>2, RefInRefs DEF Found
  <2>2. cache[uri(Ref(w))] \in Contents
    BY <1>0, <2>1 DEF TypeOK
  <2>3. /\ pc'[w] = "lookup"
        /\ \A x \in Workers \ {w} : pc'[x] = pc[x] /\ call'[x] = call[x] /\ step'[x] = step[x]
        /\ used' = used \cup {<<w, Ref(w), cache[uri(Ref(w))]>>}
        /\ UNCHANGED <<served, cache, schema>>
    BY <1>2, <2>1, <2>2, ResolveStep DEF Found
  <2>4. \A x \in Workers \ {w} : Source(Ref(x))' = Source(Ref(x))
    BY <2>3, SamePlace
  <2>5. \A u \in used' : u[3] \in served[Source(u[2])]
    BY <2>1, <2>3 DEF Provenance, FromItsSource
  <2>6. FromItsSource'
    BY <2>3, <2>5 DEF FromItsSource, Source, uri, toAbsPath, toAbsURL
  <2> QED
    BY <1>0, <2>3, <2>4, <2>6 DEF Provenance
<1>3. ASSUME NEW w \in Workers, Read(w)
      PROVE  Provenance'
  <2>1. ~Finished(w) /\ Ref(w) \in Refs /\ Source(Ref(w)) \in Sources
    BY <1>3, RefInRefs DEF Read, Position
  <2>2. /\ \A x \in Workers \ {w} : pc'[x] = pc[x] /\ schema'[x] = schema[x]
        /\ schema'[w] \in served'[Source(Ref(w))]
        /\ \A s \in Sources : served[s] \subseteq served'[s]
        /\ UNCHANGED <<cache, call, step, used>>
    BY <1>3, <2>1 DEF Read, TypeOK
  <2>3. \A x \in Workers : Source(Ref(x))' = Source(Ref(x))
    BY <2>2, SamePlace
  <2>4. \A x \in Workers \ {w} : pc[x] = "store" => Source(Ref(x)) \in Sources
    BY RefInRefs DEF Position
  <2>5. \A x \in Workers : pc'[x] = "store" => schema'[x] \in served'[Source(Ref(x))']
    BY <2>2, <2>3, <2>4 DEF Provenance
  <2>6. \A u \in used : u[2] \in Refs /\ u[3] \in served'[Source(u[2])]
    BY <1>0, <2>2 DEF Provenance, FromItsSource, TypeOK
  <2>7. FromItsSource'
    BY <2>2, <2>6 DEF FromItsSource, Source, uri, toAbsPath, toAbsURL
  <2>8. \A r \in Refs : cache[uri(r)] # NotCached => cache[uri(r)] \in served'[Source(r)]
    BY <1>0, <2>2 DEF Provenance
  <2> QED
    BY <1>0, <2>2, <2>5, <2>7, <2>8 DEF Provenance
<1>4. ASSUME NEW w \in Workers, Store(w)
      PROVE  Provenance'
  <2>1. ~Finished(w) /\ Ref(w) \in Refs /\ pc[w] = "store" /\ schema[w] \in Contents
    BY <1>4, RefInRefs DEF Store, Position
  <2>2. schema[w] \in served[Source(Ref(w))]
    BY <2>1 DEF Provenance
  <2>3. /\ pc'[w] = "lookup"
        /\ \A x \in Workers \ {w} : pc'[x] = pc[x] /\ call'[x] = call[x] /\ step'[x] = step[x]
        /\ used' = used \cup {<<w, Ref(w), schema[w]>>}
    BY <1>4, <2>1, ResolveStep DEF Store
  <2>4. /\ \A x \in Workers \ {w} : schema'[x] = schema[x]
        /\ served' = served
        /\ cache' = [cache EXCEPT ![uri(Ref(w))] = schema[w]]
    BY <1>4 DEF Store, Stored, TypeOK
  <2>5. \A x \in Workers \ {w} : Source(Ref(x))' = Source(Ref(x))
    BY <2>3, SamePlace
  <2>6. \A r \in Refs : uri(r) = uri(Ref(w)) => Source(r) = Source(Ref(w))
    BY <2>1 DEF KeysApart, Source
  <2>7. ASSUME NEW r \in Refs, cache'[uri(r)] # NotCached
        PROVE  cache'[uri(r)] \in served[Source(r)]
    <3>1. CASE uri(r) = uri(Ref(w))
      BY <3>1, <1>0, <2>2, <2>4, <2>6 DEF TypeOK
    <3>2. CASE uri(r) # uri(Ref(w))
      BY <3>2, <1>0, <2>4, <2>7 DEF Provenance, TypeOK
    <3> QED
      BY <3>1, <3>2
  <2>8. \A u \in used' : u[3] \in served[Source(u[2])]
    BY <2>2, <2>3 DEF Provenance, FromItsSource
  <2>9. FromItsSource'
    BY <2>4, <2>8 DEF FromItsSource, Source, uri, toAbsPath, toAbsURL
  <2> QED
    BY <1>0, <2>3, <2>4, <2>5, <2>7, <2>9 DEF Provenance
<1> QED
  BY <1>1, <1>2, <1>3, <1>4 DEF Next, Worker, Over

\* Where files and URIs have different keys, a response is checked against what its
\* own source gave, whoever read and stored it, and never against a failed read.
THEOREM SchemaFromItsSource ==
    ASSUME KeysApart
    PROVE  Spec => []FromItsSource
<1>1. Init => Provenance
  <2> SUFFICES ASSUME Init PROVE Provenance
    OBVIOUS
  <2>1. \A r \in Refs : uri(r) \in Keys
    BY DEF Keys
  <2> QED
    BY <2>1 DEF Init, Provenance, FromItsSource
<1>2. Inv /\ Provenance /\ [Next]_vars => Provenance'
  BY ProvenanceStep
<1>3. Provenance => FromItsSource
  BY DEF Provenance
<1> QED
  BY <1>1, <1>2, <1>3, InvAlways, PTL DEF Spec

=============================================================================
