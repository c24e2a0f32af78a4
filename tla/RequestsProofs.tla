--------------------------- MODULE RequestsProofs ---------------------------
(***************************************************************************)
(* Proofs about Requests, for any flags, calls, hosts, Locations and       *)
(* templates: RequestAsGiven and WholeLocation.  Most of it is about       *)
(* path.Clean, a recursion over the parts of a path: that its definition   *)
(* has a solution, and what it makes of two paths in a row.  The text is   *)
(* cut at its first question mark only after that, so the rest is about    *)
(* where this mark is found in two paths in a row.                         *)
(***************************************************************************)
EXTENDS Requests, SequenceTheorems, WellFoundedInduction, TLAPS

-----------------------------------------------------------------------------
(* Induction *)

\* A set of numbers that is not empty has a least one.
LEMMA LeastNumber ==
    ASSUME NEW T \in SUBSET Nat, T # {}
    PROVE  \E n \in T : \A m \in T : n <= m
<1>1. PICK n \in T : \A m \in T : <<m, n>> \notin OpToRel(<, Nat)
    BY WFMin, NatLessThanWellFounded, Zenon
<1>2. \A m \in T : ~(m < n)
    BY <1>1 DEF OpToRel
<1>. QED
    BY <1>2

\* Induction up to n, over the members of a set.
LEMMA Steps ==
    ASSUME NEW n \in Nat, NEW S, 0 \in S,
           \A i \in 1 .. n : i - 1 \in S => i \in S
    PROVE  0 .. n \subseteq S
<1>. SUFFICES ASSUME (0 .. n) \ S # {} PROVE FALSE
    OBVIOUS
<1>. DEFINE T == (0 .. n) \ S
<1>1. PICK i \in T : \A m \in T : i <= m
  <2>1. T \in SUBSET Nat /\ T # {}
      OBVIOUS
  <2>. HIDE DEF T
  <2>. QED
      BY <2>1, LeastNumber
<1>2. i \in 1 .. n /\ i - 1 \in 0 .. n /\ i - 1 \notin T
    BY <1>1
<1>. QED
    BY <1>2

-----------------------------------------------------------------------------
(* Sequences *)

\* The beginning of a sequence, with the next element and in full.
LEMMA Beginnings ==
    ASSUME NEW S, NEW s \in Seq(S)
    PROVE  /\ SubSeq(s, 1, 0) = << >> /\ SubSeq(s, 1, Len(s)) = s
           /\ \A i \in 1 .. Len(s) : /\ SubSeq(s, 1, i - 1) \in Seq(S) /\ s[i] \in S
                                    /\ SubSeq(s, 1, i) = Append(SubSeq(s, 1, i - 1), s[i])
<1>1. SubSeq(s, 1, 0) = << >> /\ SubSeq(s, 1, Len(s)) = s
    BY SubSeqEmpty, SubSeqFull
<1>2. ASSUME NEW i \in 1 .. Len(s)
      PROVE  /\ SubSeq(s, 1, i - 1) \in Seq(S) /\ s[i] \in S
             /\ SubSeq(s, 1, i) = Append(SubSeq(s, 1, i - 1), s[i])
  <2>1. Len(s) \in Nat /\ \A j \in 1 .. Len(s) : s[j] \in S
      BY LenProperties, ElementOfSeq
  <2>2. SubSeq(s, 1, i - 1) \in Seq(S)
      BY <2>1, SubSeqProperties
  <2>3. 1 \in 1 .. Len(s) /\ i \in 1 .. Len(s)
      BY <2>1
  <2>4. SubSeq(s, 1, i) = SubSeq(s, 1, i - 1) \o <<s[i]>>
      BY <2>3, SubSeqRecursiveSecond
  <2>. QED
      BY <2>1, <2>2, <2>4, AppendIsConcat
<1>. QED
    BY <1>1, <1>2

LEMMA Associative ==
    ASSUME NEW s \in Seq(Part), NEW t \in Seq(Part), NEW u \in Seq(Part)
    PROVE  (s \o t) \o u = s \o (t \o u)
BY ConcatAssociative

LEMMA EmptyConcat ==
    ASSUME NEW s \in Seq(Part), NEW t \in Seq(Part), s \o t = << >>
    PROVE  s = << >> /\ t = << >>
<1>1. Len(s \o t) = Len(s) + Len(t) /\ Len(s) \in Nat /\ Len(t) \in Nat
    BY ConcatProperties, LenProperties
<1>2. Len(s) = 0 /\ Len(t) = 0
    BY <1>1
<1>. QED
    BY <1>2, EmptySeq

-----------------------------------------------------------------------------
(* path.Clean *)

\* What is left after each part.
IsCleaning(done, rooted, parts, n) ==
    done = [i \in 0 .. n |-> IF i = 0 THEN << >> ELSE Push(rooted, done[i - 1], parts[i])]

LEMMA PushFacts ==
    ASSUME NEW S, NEW rooted, NEW done \in Seq(S), NEW part \in S
    PROVE  Push(rooted, done, part) \in Seq(S)
<1>1. done # << >> => Front(done) \in Seq(S)
    BY EmptySeq, LenProperties DEF Front
<1>. QED
    BY <1>1, AppendProperties DEF Push

\* The recursion of Clean has a solution.
LEMMA CleaningExists ==
    ASSUME NEW rooted, NEW parts, NEW n \in Nat
    PROVE  \E done : IsCleaning(done, rooted, parts, n)
<1>. DEFINE S == {i \in 0 .. n : \E done : IsCleaning(done, rooted, parts, i)}
<1>1. 0 \in S
  <2>. DEFINE done == [i \in 0 .. 0 |-> << >>]
  <2>1. IsCleaning(done, rooted, parts, 0)
      BY DEF IsCleaning
  <2>. QED
      BY <2>1
<1>2. ASSUME NEW i \in 1 .. n, i - 1 \in S PROVE i \in S
  <2>1. PICK old : IsCleaning(old, rooted, parts, i - 1)
      BY <1>2
  <2>. DEFINE done == [j \in 0 .. i |-> IF j = i THEN Push(rooted, old[i - 1], parts[i]) ELSE old[j]]
  <2>2. ASSUME NEW j \in 0 .. i
        PROVE  done[j] = IF j = 0 THEN << >> ELSE Push(rooted, done[j - 1], parts[j])
    <3>1. CASE j = i
        BY <3>1
    <3>2. CASE j \in 0 .. i - 1
      <4>1. old[j] = IF j = 0 THEN << >> ELSE Push(rooted, old[j - 1], parts[j])
          BY <2>1, <3>2 DEF IsCleaning
      <4>. QED
          BY <3>2, <4>1
    <3>. QED
        BY <3>1, <3>2
  <2>3. IsCleaning(done, rooted, parts, i)
      BY <2>2 DEF IsCleaning
  <2>. QED
      BY <2>3
<1>3. 0 .. n \subseteq S
  <2>. HIDE DEF S
  <2>. QED
      BY <1>1, <1>2, Steps
<1>. QED
    BY <1>3

\* Clean is the last step of a solution.
CleanedBy(done, P, rooted, parts) ==
    /\ done \in [0 .. Len(parts) -> Seq(P)]
    /\ done[0] = << >>
    /\ \A i \in 1 .. Len(parts) : done[i] = Push(rooted, done[i - 1], parts[i])
    /\ Clean(rooted, parts) = done[Len(parts)]

LEMMA CleanFacts ==
    ASSUME NEW P, NEW rooted, NEW parts \in Seq(P)
    PROVE  \E done : CleanedBy(done, P, rooted, parts)
<1>. DEFINE done == CHOOSE d : d = [i \in 0 .. Len(parts) |->
                                       IF i = 0 THEN << >> ELSE Push(rooted, d[i - 1], parts[i])]
<1>1. Clean(rooted, parts) = done[Len(parts)]
    BY DEF Clean
<1>2. Len(parts) \in Nat
    OBVIOUS
<1>3. done = [i \in 0 .. Len(parts) |->
                  IF i = 0 THEN << >> ELSE Push(rooted, done[i - 1], parts[i])]
  <2>1. \E d : IsCleaning(d, rooted, parts, Len(parts))
      BY <1>2, CleaningExists
  <2>. QED
      BY <2>1, Zenon DEF IsCleaning
<1>. HIDE DEF done
<1>. DEFINE S == {i \in 0 .. Len(parts) : done[i] \in Seq(P)}
<1>4. done[0] = << >> /\ 0 \in 0 .. Len(parts)
    BY <1>2, <1>3
<1>5. \A i \in 1 .. Len(parts) : i \in 0 .. Len(parts) /\ done[i] = Push(rooted, done[i - 1], parts[i])
    BY <1>2, <1>3
<1>6. ASSUME NEW i \in 1 .. Len(parts), i - 1 \in S PROVE i \in S
  <2>1. parts[i] \in P /\ done[i - 1] \in Seq(P)
      BY <1>6
  <2>2. Push(rooted, done[i - 1], parts[i]) \in Seq(P)
      BY <2>1, PushFacts
  <2>. QED
      BY <1>5, <2>2
<1>7. 0 .. Len(parts) \subseteq S
  <2>1. 0 \in S
      BY <1>4, EmptySeq
  <2>. HIDE DEF S
  <2>. QED
      BY <1>2, <1>6, <2>1, Steps
<1>8. done \in [0 .. Len(parts) -> Seq(P)]
    BY <1>3, <1>7
<1>9. CleanedBy(done, P, rooted, parts)
    BY <1>1, <1>4, <1>5, <1>8 DEF CleanedBy
<1>. QED
    BY <1>9, Zenon

\* It leaves only parts it was given.
LEMMA CleanKeeps ==
    ASSUME NEW P, NEW rooted, NEW parts \in Seq(P)
    PROVE  Clean(rooted, parts) \in Seq(P)
<1>0. PICK done : CleanedBy(done, P, rooted, parts)
    BY CleanFacts, Zenon
<1>1. done \in [0 .. Len(parts) -> Seq(P)] /\ Clean(rooted, parts) = done[Len(parts)]
    BY <1>0 DEF CleanedBy
<1>2. Len(parts) \in 0 .. Len(parts)
    BY LenProperties
<1>. QED
    BY <1>1, <1>2

\* On the parts of two paths in a row, Clean goes on from what it makes of the
\* first alone.
GoesOn(more, rooted, b, p) ==
    /\ more \in [0 .. Len(p) -> Seq(Part)]
    /\ more[0] = Clean(rooted, b)
    /\ \A i \in 1 .. Len(p) : more[i] = Push(rooted, more[i - 1], p[i])
    /\ Clean(rooted, b \o p) = more[Len(p)]

LEMMA CleanBoth ==
    ASSUME NEW rooted, NEW b \in Seq(Part), NEW p \in Seq(Part)
    PROVE  \E more : GoesOn(more, rooted, b, p)
<1>1. /\ b \o p \in Seq(Part) /\ Len(b \o p) = Len(b) + Len(p)
      /\ Len(b) \in Nat /\ Len(p) \in Nat
      /\ \A i \in 1 .. Len(b) : (b \o p)[i] = b[i]
      /\ \A i \in 1 .. Len(p) : (b \o p)[Len(b) + i] = p[i]
    BY ConcatProperties, LenProperties
<1>2. PICK done : /\ done \in [0 .. Len(b) + Len(p) -> Seq(Part)]
                  /\ done[0] = << >>
                  /\ \A i \in 1 .. Len(b) + Len(p) :
                         done[i] = Push(rooted, done[i - 1], (b \o p)[i])
                  /\ Clean(rooted, b \o p) = done[Len(b) + Len(p)]
  <2>. DEFINE both == b \o p
  <2>1. both \in Seq(Part) /\ Len(both) = Len(b) + Len(p)
      BY <1>1
  <2>. HIDE DEF both
  <2>2. \E done : CleanedBy(done, Part, rooted, both)
      BY <2>1, CleanFacts, Zenon
  <2>3. \E done : /\ done \in [0 .. Len(b) + Len(p) -> Seq(Part)]
                  /\ done[0] = << >>
                  /\ \A i \in 1 .. Len(b) + Len(p) :
                         done[i] = Push(rooted, done[i - 1], both[i])
                  /\ Clean(rooted, both) = done[Len(b) + Len(p)]
      BY <2>1, <2>2 DEF CleanedBy
  <2>. QED
      BY <2>3 DEF both
<1>3. PICK first : CleanedBy(first, Part, rooted, b)
    BY CleanFacts, Zenon
<1>4. /\ first \in [0 .. Len(b) -> Seq(Part)]
      /\ first[0] = << >>
      /\ \A i \in 1 .. Len(b) : first[i] = Push(rooted, first[i - 1], b[i])
      /\ Clean(rooted, b) = first[Len(b)]
    BY <1>3 DEF CleanedBy
<1>. DEFINE S == {i \in 0 .. Len(b) : done[i] = first[i]}
<1>5. 0 \in S
    BY <1>1, <1>2, <1>4
<1>6. ASSUME NEW i \in 1 .. Len(b), i - 1 \in S PROVE i \in S
  <2>1. i \in 1 .. Len(b) + Len(p) /\ i \in 0 .. Len(b) /\ done[i - 1] = first[i - 1]
      BY <1>1, <1>6
  <2>2. done[i] = Push(rooted, done[i - 1], b[i])
      BY <1>1, <1>2, <2>1
  <2>. QED
      BY <1>4, <2>1, <2>2
<1>7. done[Len(b)] = Clean(rooted, b)
  <2>1. 0 .. Len(b) \subseteq S
    <3>. HIDE DEF S
    <3>. QED
        BY <1>1, <1>5, <1>6, Steps
  <2>. QED
      BY <1>1, <1>4, <2>1
<1>. DEFINE more == [i \in 0 .. Len(p) |-> done[Len(b) + i]]
<1>8. more \in [0 .. Len(p) -> Seq(Part)]
    BY <1>1, <1>2
<1>9. more[0] = Clean(rooted, b) /\ more[Len(p)] = Clean(rooted, b \o p)
    BY <1>1, <1>2, <1>7
<1>10. ASSUME NEW i \in 1 .. Len(p) PROVE more[i] = Push(rooted, more[i - 1], p[i])
  <2>1. Len(b) + i \in 1 .. Len(b) + Len(p) /\ Len(b) + i - 1 = Len(b) + (i - 1)
      BY <1>1
  <2>2. done[Len(b) + i] = Push(rooted, done[Len(b) + i - 1], (b \o p)[Len(b) + i])
    <3>1. \A j \in 1 .. Len(b) + Len(p) : done[j] = Push(rooted, done[j - 1], (b \o p)[j])
        BY <1>2
    <3>. HIDE DEF more, S
    <3>. QED
        BY <2>1, <3>1
  <2>3. (b \o p)[Len(b) + i] = p[i]
      BY <1>1
  <2>4. done[Len(b) + i] = Push(rooted, done[Len(b) + (i - 1)], p[i])
      BY <2>1, <2>2, <2>3
  <2>5. i \in 0 .. Len(p) /\ i - 1 \in 0 .. Len(p)
      BY <1>1
  <2>. QED
      BY <2>4, <2>5
<1>11. GoesOn(more, rooted, b, p)
    BY <1>8, <1>9, <1>10 DEF GoesOn
<1>. QED
    BY <1>11, Zenon

\* Without a double dot in the second path, nothing is taken from the first.
LEMMA CleanPrefix ==
    ASSUME NEW rooted, NEW b \in Seq(Part), NEW p \in Seq(Part), DotDot \notin ToSet(p)
    PROVE  /\ Clean(rooted, b) \in Seq(Part)
           /\ \E rest \in Seq(Part) : Clean(rooted, b \o p) = Clean(rooted, b) \o rest
<1>. DEFINE c == Clean(rooted, b)
            end == Clean(rooted, b \o p)
<1>1. Len(p) \in Nat /\ \A i \in 1 .. Len(p) : p[i] # DotDot /\ p[i] \in Part
  <2>1. Len(p) \in Nat /\ DOMAIN p = 1 .. Len(p) /\ \A i \in 1 .. Len(p) : p[i] \in Part
      OBVIOUS
  <2>. QED
      BY <2>1 DEF ToSet
<1>0. PICK more : GoesOn(more, rooted, b, p)
    BY CleanBoth, Zenon
<1>2. /\ more \in [0 .. Len(p) -> Seq(Part)]
      /\ more[0] = c
      /\ \A i \in 1 .. Len(p) : more[i] = Push(rooted, more[i - 1], p[i])
      /\ end = more[Len(p)]
    BY <1>0 DEF GoesOn
<1>. HIDE DEF c, end
<1>3. c \in Seq(Part)
    BY <1>1, <1>2
<1>. DEFINE S == {i \in 0 .. Len(p) : \E rest \in Seq(Part) : more[i] = c \o rest}
<1>4. 0 \in S
  <2>1. << >> \in Seq(Part) /\ c \o << >> = c
      BY <1>3, EmptySeq, ConcatEmptySeq
  <2>2. more[0] = c \o << >> /\ 0 \in 0 .. Len(p)
      BY <1>1, <1>2, <2>1
  <2>. QED
      BY <2>1, <2>2, Zenon
<1>5. ASSUME NEW i \in 1 .. Len(p), i - 1 \in S PROVE i \in S
  <2>1. PICK rest \in Seq(Part) : more[i - 1] = c \o rest
      BY <1>5
  <2>2. more[i] = Push(rooted, c \o rest, p[i])
      BY <1>2, <2>1
  <2>3. more[i] = c \o rest \/ more[i] = Append(c \o rest, p[i])
      BY <1>1, <2>2 DEF Push
  <2>4. p[i] \in Part
      BY <1>1
  <2>5. /\ rest \o <<p[i]>> \in Seq(Part) /\ <<p[i]>> \in Seq(Part)
        /\ Append(c \o rest, p[i]) = (c \o rest) \o <<p[i]>>
    <3>1. <<p[i]>> \in Seq(Part) /\ c \o rest \in Seq(Part)
        BY <1>3, <2>4
    <3>2. rest \o <<p[i]>> \in Seq(Part)
        BY <3>1
    <3>3. Append(c \o rest, p[i]) = (c \o rest) \o <<p[i]>>
        BY <2>4, <3>1, AppendIsConcat
    <3>. QED
        BY <3>1, <3>2, <3>3
  <2>6. (c \o rest) \o <<p[i]>> = c \o (rest \o <<p[i]>>)
    <3>. DEFINE last == <<p[i]>>
    <3>1. last \in Seq(Part)
        BY <2>5
    <3>. HIDE DEF S, last
    <3>2. (c \o rest) \o last = c \o (rest \o last)
        BY <1>3, <3>1, Associative
    <3>. QED
        BY <3>2 DEF last
  <2>7. \E r \in Seq(Part) : more[i] = c \o r
      BY <2>3, <2>5, <2>6, Zenon
  <2>8. i \in 0 .. Len(p)
      BY <1>1
  <2>. QED
      BY <2>7, <2>8, Zenon
<1>6. 0 .. Len(p) \subseteq S
  <2>. HIDE DEF S
  <2>. QED
      BY <1>1, <1>4, <1>5, Steps
<1>7. \E rest \in Seq(Part) : end = c \o rest
  <2>1. Len(p) \in S
    <3>1. Len(p) \in 0 .. Len(p)
        BY <1>1
    <3>. HIDE DEF S
    <3>. QED
        BY <1>6, <3>1
  <2>. QED
      BY <1>2, <2>1, Zenon
<1>. QED
    BY <1>3, <1>7 DEF c, end

\* A second path of names only is kept as it is.
LEMMA CleanNames ==
    ASSUME NEW rooted, NEW b \in Seq(Part), NEW p \in Seq(Part),
           ToSet(p) \cap {Empty, Dot, DotDot} = {}
    PROVE  Clean(rooted, b \o p) = Clean(rooted, b) \o p
<1>0. PICK more : GoesOn(more, rooted, b, p)
    BY CleanBoth, Zenon
<1>. DEFINE c == Clean(rooted, b)
            end == Clean(rooted, b \o p)
<1>1. /\ Len(p) \in Nat
      /\ \A i \in 1 .. Len(p) : p[i] \notin {Empty, Dot, DotDot} /\ p[i] \in Part
  <2>1. Len(p) \in Nat /\ DOMAIN p = 1 .. Len(p) /\ \A i \in 1 .. Len(p) : p[i] \in Part
      OBVIOUS
  <2>. QED
      BY <2>1 DEF ToSet
<1>2. /\ more \in [0 .. Len(p) -> Seq(Part)]
      /\ more[0] = c
      /\ \A i \in 1 .. Len(p) : more[i] = Push(rooted, more[i - 1], p[i])
      /\ end = more[Len(p)]
    BY <1>0 DEF GoesOn
<1>. HIDE DEF c, end
<1>3. c \in Seq(Part)
    BY <1>1, <1>2
<1>4. /\ SubSeq(p, 1, 0) = << >> /\ SubSeq(p, 1, Len(p)) = p
      /\ \A i \in 1 .. Len(p) : /\ SubSeq(p, 1, i - 1) \in Seq(Part)
                               /\ SubSeq(p, 1, i) = Append(SubSeq(p, 1, i - 1), p[i])
    BY Beginnings
<1>. DEFINE S == {i \in 0 .. Len(p) : more[i] = c \o SubSeq(p, 1, i)}
<1>5. 0 \in S
  <2>1. c \o << >> = c
      BY <1>3, ConcatEmptySeq
  <2>. QED
      BY <1>1, <1>2, <1>4, <2>1
<1>6. ASSUME NEW i \in 1 .. Len(p), i - 1 \in S PROVE i \in S
  <2>. DEFINE first == SubSeq(p, 1, i - 1)
  <2>1. more[i - 1] = c \o first /\ first \in Seq(Part) /\ p[i] \in Part
      BY <1>1, <1>4, <1>6
  <2>2. SubSeq(p, 1, i) = Append(first, p[i])
      BY <1>4
  <2>. HIDE DEF first
  <2>3. more[i] = Push(rooted, c \o first, p[i])
      BY <1>2, <2>1
  <2>4. more[i] = Append(c \o first, p[i])
      BY <1>1, <2>3 DEF Push
  <2>5. /\ Append(c \o first, p[i]) = (c \o first) \o <<p[i]>>
        /\ Append(first, p[i]) = first \o <<p[i]>>
      BY <1>3, <2>1, ConcatProperties, AppendIsConcat
  <2>6. (c \o first) \o <<p[i]>> = c \o (first \o <<p[i]>>)
    <3>. DEFINE last == <<p[i]>>
    <3>1. last \in Seq(Part)
        BY <2>1
    <3>. HIDE DEF S, last
    <3>2. (c \o first) \o last = c \o (first \o last)
        BY <1>3, <2>1, <3>1, Associative
    <3>. QED
        BY <3>2 DEF last
  <2>7. more[i] = c \o SubSeq(p, 1, i)
      BY <2>2, <2>4, <2>5, <2>6, Zenon
  <2>8. i \in 0 .. Len(p)
      BY <1>1
  <2>. QED
      BY <2>7, <2>8, Zenon
<1>7. 0 .. Len(p) \subseteq S
  <2>. HIDE DEF S
  <2>. QED
      BY <1>1, <1>5, <1>6, Steps
<1>8. end = c \o p
  <2>1. Len(p) \in S
    <3>1. Len(p) \in 0 .. Len(p)
        BY <1>1
    <3>. HIDE DEF S
    <3>. QED
        BY <1>7, <3>1
  <2>2. more[Len(p)] = c \o SubSeq(p, 1, Len(p))
      BY <2>1
  <2>. HIDE DEF S
  <2>. QED
      BY <1>2, <1>4, <2>2
<1>. QED
    BY <1>8 DEF c, end

-----------------------------------------------------------------------------
(* Beginnings and ends of what is sent *)

LEMMA PrefixOfConcat ==
    ASSUME NEW s \in Seq(Part), NEW t \in Seq(Part)
    PROVE  IsPrefix(s, s \o t)
<1>. DEFINE both == s \o t
<1>1. /\ both \in Seq(Part) /\ Len(both) = Len(s) + Len(t)
      /\ Len(s) \in Nat /\ Len(t) \in Nat
      /\ \A i \in 1 .. Len(s) : both[i] = s[i]
    BY ConcatProperties, LenProperties
<1>. HIDE DEF both
<1>2. SubSeq(s, 1, Len(s)) = SubSeq(both, 1, Len(s))
    BY <1>1
<1>3. Len(s) <= Len(both)
    BY <1>1
<1>. QED
    BY <1>2, <1>3 DEF IsPrefix, both

LEMMA SuffixOfConcat ==
    ASSUME NEW s \in Seq(Part), NEW t \in Seq(Part)
    PROVE  IsSuffix(s, t \o s)
<1>. DEFINE both == t \o s
            s2 == Reverse(s)
            both2 == Reverse(both)
<1>1. /\ both \in Seq(Part) /\ Len(both) = Len(t) + Len(s)
      /\ Len(s) \in Nat /\ Len(t) \in Nat
      /\ \A i \in 1 .. Len(s) : both[Len(t) + i] = s[i]
    BY ConcatProperties, LenProperties
<1>. HIDE DEF both
<1>2. /\ s2 = [i \in 1 .. Len(s) |-> s[(Len(s) - i) + 1]]
      /\ both2 = [i \in 1 .. Len(both) |-> both[(Len(both) - i) + 1]]
    BY DEF Reverse
<1>. HIDE DEF s2, both2
<1>3. /\ s2 \in Seq(Part) /\ Len(s2) = Len(s)
      /\ both2 \in Seq(Part) /\ Len(both2) = Len(both)
    BY <1>1, <1>2
<1>4. ASSUME NEW i \in 1 .. Len(s) PROVE s2[i] = both2[i]
  <2>1. Len(s) - i + 1 \in 1 .. Len(s) /\ Len(both) - i + 1 = Len(t) + (Len(s) - i + 1)
      BY <1>1
  <2>2. both[Len(t) + (Len(s) - i + 1)] = s[Len(s) - i + 1]
      BY <1>1, <2>1
  <2>3. i \in 1 .. Len(both)
      BY <1>1
  <2>. QED
      BY <1>2, <2>1, <2>2, <2>3
<1>5. SubSeq(s2, 1, Len(s2)) = SubSeq(both2, 1, Len(s2)) /\ Len(s2) <= Len(both2)
    BY <1>1, <1>3, <1>4
<1>. QED
    BY <1>5 DEF IsSuffix, IsPrefix, s2, both2, both

LEMMA EmptySuffix ==
    ASSUME NEW t, Len(t) \in Nat
    PROVE  IsSuffix(<< >>, t)
<1>. DEFINE none == Reverse(<< >>)
            back == Reverse(t)
<1>1. none = << >> /\ Len(none) = 0
  <2>1. none = [i \in 1 .. 0 |-> << >>[(0 - i) + 1]]
      BY DEF Reverse
  <2>. QED
      BY <2>1
<1>2. back = [i \in 1 .. Len(t) |-> t[(Len(t) - i) + 1]]
    BY DEF Reverse
<1>. HIDE DEF none, back
<1>3. Len(back) = Len(t)
    BY <1>2
<1>4. SubSeq(none, 1, 0) = SubSeq(back, 1, 0)
    OBVIOUS
<1>. QED
    BY <1>1, <1>3, <1>4 DEF IsSuffix, IsPrefix, none, back

\* The parts of a URL after the slash it starts with, if it does.
LEMMA StemFacts ==
    ASSUME NEW p \in Seq(Part)
    PROVE  /\ Stem(p) \in Seq(Part)
           /\ Rooted(p) => Empty \in Part /\ p = <<Empty>> \o Stem(p)
<1>1. CASE Rooted(p)
  <2>1. Len(p) \in Nat /\ Len(p) >= 1 /\ p[1] = Empty /\ p[1] \in Part
      BY <1>1, LenProperties, EmptySeq DEF Rooted
  <2>2. /\ Tail(p) \in Seq(Part) /\ Len(Tail(p)) = Len(p) - 1
        /\ \A i \in 1 .. Len(p) - 1 : Tail(p)[i] = p[i + 1]
      BY <2>1
  <2>3. p = <<Empty>> \o Tail(p)
      BY <2>1, <2>2
  <2>. QED
      BY <1>1, <2>1, <2>2, <2>3 DEF Stem
<1>2. CASE ~Rooted(p)
    BY <1>2 DEF Stem
<1>. QED
    BY <1>1, <1>2

-----------------------------------------------------------------------------
(* The path and the query of a URL *)

\* A part before the query.
PlainPart == {p \in Part : At("?", p) = {}}

LEMMA FirstFacts ==
    ASSUME NEW T \in SUBSET Nat, T # {}
    PROVE  /\ First(T) \in T
           /\ \A n \in T : (\A m \in T : n <= m) => First(T) = n
<1>1. \E n \in T : \A m \in T : n <= m
    BY LeastNumber
<1>2. First(T) \in T /\ \A m \in T : First(T) <= m
    BY <1>1, Zenon DEF First
<1>3. PICK first : first = First(T)
    OBVIOUS
<1>4. first \in Nat /\ first \in T /\ \A m \in T : first <= m
    BY <1>2, <1>3
<1>5. ASSUME NEW n \in T, \A m \in T : n <= m PROVE first = n
    BY <1>4, <1>5
<1>. QED
    BY <1>2, <1>3, <1>5

\* The beginning and the end of two sequences in a row.
LEMMA PiecesOfConcat ==
    ASSUME NEW c \in Seq(Part), NEW s \in Seq(Part), NEW j \in 1 .. Len(s)
    PROVE  /\ SubSeq(c \o s, 1, Len(c) + (j - 1)) = c \o SubSeq(s, 1, j - 1)
           /\ SubSeq(c \o s, Len(c) + j + 1, Len(c \o s)) = SubSeq(s, j + 1, Len(s))
<1>. DEFINE both == c \o s
            first == SubSeq(both, 1, Len(c) + (j - 1))
            begin == SubSeq(s, 1, j - 1)
            rest == SubSeq(both, Len(c) + j + 1, Len(both))
            end == SubSeq(s, j + 1, Len(s))
            joined == c \o begin
<1>1. /\ both \in Seq(Part) /\ Len(both) = Len(c) + Len(s)
      /\ Len(c) \in Nat /\ Len(s) \in Nat /\ j \in Nat
      /\ \A i \in 1 .. Len(c) : both[i] = c[i]
      /\ \A i \in 1 .. Len(s) : both[Len(c) + i] = s[i]
    BY ConcatProperties, LenProperties
<1>. HIDE DEF both
<1>2. /\ first \in Seq(Part) /\ Len(first) = Len(c) + (j - 1)
      /\ \A i \in 1 .. Len(c) + (j - 1) : first[i] = both[i]
    BY <1>1
<1>3. /\ begin \in Seq(Part) /\ Len(begin) = j - 1
      /\ \A i \in 1 .. j - 1 : begin[i] = s[i]
    BY <1>1
<1>4. /\ rest \in Seq(Part) /\ Len(rest) = Len(s) - j
      /\ \A i \in 1 .. Len(s) - j : rest[i] = both[Len(c) + (j + i)]
    BY <1>1
<1>5. /\ end \in Seq(Part) /\ Len(end) = Len(s) - j
      /\ \A i \in 1 .. Len(s) - j : end[i] = s[j + i]
    BY <1>1
<1>. HIDE DEF first, begin, rest, end
<1>6. /\ joined \in Seq(Part) /\ Len(joined) = Len(c) + (j - 1)
      /\ \A i \in 1 .. Len(c) : joined[i] = c[i]
      /\ \A i \in 1 .. j - 1 : joined[Len(c) + i] = begin[i]
  <2>0. ASSUME NEW x \in Seq(Part)
        PROVE  /\ c \o x \in Seq(Part) /\ Len(c \o x) = Len(c) + Len(x)
               /\ \A i \in 1 .. Len(c) : (c \o x)[i] = c[i]
               /\ \A i \in 1 .. Len(x) : (c \o x)[Len(c) + i] = x[i]
      BY ConcatProperties
  <2>1. /\ joined \in Seq(Part) /\ Len(joined) = Len(c) + Len(begin)
        /\ \A i \in 1 .. Len(c) : joined[i] = c[i]
        /\ \A i \in 1 .. Len(begin) : joined[Len(c) + i] = begin[i]
      BY <1>3, <2>0
  <2>. HIDE DEF joined
  <2>. QED
      BY <2>1, <1>3
<1>. HIDE DEF joined
<1>7. first = joined
  <2>1. ASSUME NEW i \in 1 .. Len(c) + (j - 1) PROVE first[i] = joined[i]
    <3>1. CASE i \in 1 .. Len(c)
        BY <3>1, <1>1, <1>2, <1>6
    <3>2. CASE i - Len(c) \in 1 .. j - 1
      <4>1. PICK k \in 1 .. j - 1 : i = Len(c) + k
        <5>1. i \in Int /\ Len(c) \in Int
            BY <1>1
        <5>2. i = Len(c) + (i - Len(c))
            BY <5>1
        <5>. QED
            BY <3>2, <5>2, Zenon
      <4>2. k \in 1 .. Len(s)
          BY <1>1
      <4>3. first[i] = s[k]
          BY <4>1, <4>2, <1>1, <1>2
      <4>4. joined[i] = s[k]
          BY <4>1, <1>3, <1>6
      <4>. QED
          BY <4>3, <4>4
    <3>. QED
        BY <3>1, <3>2, <1>1
  <2>. QED
      BY <2>1, <1>2, <1>6, SeqEqual
<1>8. rest = end
  <2>1. ASSUME NEW i \in 1 .. Len(s) - j PROVE rest[i] = end[i]
    <3>1. j + i \in 1 .. Len(s)
        BY <1>1
    <3>. QED
        BY <3>1, <1>1, <1>4, <1>5
  <2>. QED
      BY <2>1, <1>4, <1>5, SeqEqual
<1>. QED
    BY <1>7, <1>8 DEF first, begin, rest, end, both, joined

LEMMA MarkedFacts ==
    ASSUME NEW t \in Seq(Part)
    PROVE  /\ Marked(t) \in SUBSET (1 .. Len(t)) /\ Marked(t) \in SUBSET Nat
           /\ \A i \in 1 .. Len(t) : i \in Marked(t) <=> At("?", t[i]) # {}
           /\ Marked(t) = {} => t \in Seq(PlainPart)
<1>1. DOMAIN t = 1 .. Len(t) /\ \A i \in 1 .. Len(t) : t[i] \in Part
    OBVIOUS
<1>2. \A i \in 1 .. Len(t) : i \in Marked(t) <=> At("?", t[i]) # {}
    BY <1>1, Zenon DEF Marked
<1>3. Marked(t) \in SUBSET (1 .. Len(t))
    BY <1>1, Zenon DEF Marked
<1>4. ASSUME Marked(t) = {} PROVE t \in Seq(PlainPart)
  <2>1. \A i \in 1 .. Len(t) : t[i] \in PlainPart
      BY <1>1, <1>2, <1>4 DEF PlainPart
  <2>. QED
      BY <1>1, <2>1
<1>5. 1 .. Len(t) \subseteq Nat
    BY <1>1
<1>. HIDE DEF Marked
<1>. QED
    BY <1>2, <1>3, <1>4, <1>5

\* The query begins where it does without what comes before it.
LEMMA PathBehind ==
    ASSUME NEW c \in Seq(PlainPart), NEW s \in Seq(Part)
    PROVE  /\ Path(s) \in Seq(Part)
           /\ Path(c \o s) = c \o Path(s) /\ Query(c \o s) = Query(s)
<1>. DEFINE both == c \o s
            marks == Marked(both)
            j == First(Marked(s))
            part == BeforeMark("?", s[j])
            begin == SubSeq(s, 1, j - 1)
<1>0. c \in Seq(Part) /\ \A i \in 1 .. Len(c) : At("?", c[i]) = {}
    BY DEF PlainPart
<1>1. /\ both \in Seq(Part) /\ Len(both) = Len(c) + Len(s)
      /\ Len(c) \in Nat /\ Len(s) \in Nat
      /\ \A i \in 1 .. Len(c) : both[i] = c[i]
      /\ \A i \in 1 .. Len(s) : both[Len(c) + i] = s[i]
    BY <1>0, ConcatProperties, LenProperties
<1>2. /\ Marked(s) \in SUBSET (1 .. Len(s)) /\ Marked(s) \in SUBSET Nat
      /\ \A i \in 1 .. Len(s) : i \in Marked(s) <=> At("?", s[i]) # {}
    BY MarkedFacts
<1>3. /\ marks \in SUBSET (1 .. Len(both)) /\ marks \in SUBSET Nat
      /\ \A i \in 1 .. Len(both) : i \in marks <=> At("?", both[i]) # {}
  <2>. HIDE DEF both
  <2>. QED
      BY <1>1, MarkedFacts
<1>4. ASSUME NEW i \in marks PROVE i - Len(c) \in Marked(s)
  <2>1. i \in 1 .. Len(both) /\ At("?", both[i]) # {}
      BY <1>3, <1>4
  <2>2. i \notin 1 .. Len(c)
      BY <1>0, <1>1, <2>1
  <2>3. i - Len(c) \in 1 .. Len(s) /\ i = Len(c) + (i - Len(c))
      BY <1>1, <2>1, <2>2
  <2>4. both[i] = s[i - Len(c)]
      BY <1>1, <2>3
  <2>. QED
      BY <1>2, <2>1, <2>3, <2>4
<1>5. ASSUME NEW i \in Marked(s) PROVE Len(c) + i \in marks
  <2>1. i \in 1 .. Len(s) /\ At("?", s[i]) # {}
      BY <1>2, <1>5
  <2>2. Len(c) + i \in 1 .. Len(both) /\ both[Len(c) + i] = s[i]
      BY <1>1, <2>1
  <2>. QED
      BY <1>3, <2>1, <2>2
<1>6. CASE Marked(s) = {}
  <2>1. marks = {}
      BY <1>4, <1>6
  <2>. QED
      BY <2>1, <1>6 DEF Path, Query
<1>7. CASE Marked(s) # {}
  <2>1. j \in Marked(s) /\ \A i \in Marked(s) : j <= i
    <3>1. \E n \in Marked(s) : \A m \in Marked(s) : n <= m
        BY <1>2, <1>7, LeastNumber
    <3>. QED
        BY <3>1, Zenon DEF First
  <2>2. j \in 1 .. Len(s) /\ j \in Nat
      BY <1>2, <2>1
  <2>. HIDE DEF j
  <2>3. First(marks) = Len(c) + j
    <3>1. Len(c) + j \in marks
        BY <1>5, <2>1
    <3>2. ASSUME NEW i \in marks PROVE Len(c) + j <= i
      <4>1. j <= i - Len(c) /\ i \in Nat
          BY <1>3, <1>4, <2>1
      <4>. QED
          BY <4>1, <1>1, <2>2
    <3>. HIDE DEF marks
    <3>. QED
        BY <1>3, <3>1, <3>2, FirstFacts
  <2>4. both[Len(c) + j] = s[j] /\ s[j] \in Part /\ marks # {}
      BY <1>1, <1>5, <2>1, <2>2
  <2>5. part \in Part
    <3>. DEFINE T == At("?", s[j])
    <3>1. T # {} /\ T \in SUBSET Nat /\ T \in SUBSET (1 .. Len(s[j]))
      <4>1. T # {}
          BY <1>2, <2>1, <2>2
      <4>2. DOMAIN s[j] = 1 .. Len(s[j]) /\ Len(s[j]) \in Nat
          BY <2>4 DEF Part
      <4>. QED
          BY <4>1, <4>2 DEF At
    <3>. HIDE DEF T
    <3>2. First(T) \in T
        BY <3>1, FirstFacts
    <3>3. First(At("?", s[j])) \in 1 .. Len(s[j])
        BY <3>1, <3>2 DEF T
    <3>. QED
        BY <3>3, <2>4 DEF BeforeMark, Part
  <2>. HIDE DEF part
  <2>6. Path(s) = begin \o <<part>> /\ Query(s) = <<AfterMark("?", s[j])>> \o SubSeq(s, j + 1, Len(s))
      BY <1>7, Zenon DEF Path, Query, part, j
  <2>7. begin \in Seq(Part) /\ <<part>> \in Seq(Part)
      BY <2>2, <2>5
  <2>8. /\ SubSeq(both, 1, Len(c) + (j - 1)) = c \o begin
        /\ SubSeq(both, Len(c) + j + 1, Len(both)) = SubSeq(s, j + 1, Len(s))
      BY <1>0, <2>2, PiecesOfConcat
  <2>. HIDE DEF begin
  <2>9. (Len(c) + j) - 1 = Len(c) + (j - 1)
      BY <1>1, <2>2
  <2>10. Path(both) = SubSeq(both, 1, (Len(c) + j) - 1) \o <<part>>
      BY <2>3, <2>4, Zenon DEF Path, part
  <2>11. Query(both) = <<AfterMark("?", s[j])>> \o SubSeq(both, Len(c) + j + 1, Len(both))
      BY <2>3, <2>4, Zenon DEF Query
  <2>12. Path(both) = c \o (begin \o <<part>>)
    <3>1. (c \o begin) \o <<part>> = c \o (begin \o <<part>>)
        BY <1>0, <2>7, Associative, Zenon
    <3>. QED
        BY <2>8, <2>9, <2>10, <3>1
  <2>13. Path(s) \in Seq(Part)
      BY <2>6, <2>7
  <2>. QED
      BY <2>6, <2>8, <2>11, <2>12, <2>13
<1>. QED
    BY <1>6, <1>7

-----------------------------------------------------------------------------
(* The URL of a request *)

LEMMA PlainFacts ==
    /\ Empty \in PlainPart /\ Empty \in Part
    /\ \A s \in Seq(PlainPart) : s \in Seq(Part)
<1>1. Empty \in Part /\ At("?", Empty) = {}
    BY DEF Empty, Part, At
<1>2. PlainPart \subseteq Part
    BY DEF PlainPart
<1>3. \A s \in Seq(PlainPart) : s \in Seq(Part)
    BY <1>2
<1>. QED
    BY <1>1, <1>3 DEF PlainPart

\* A path that does not climb stays below the one it is joined to.
LEMMA JoinBelow ==
    ASSUME NEW b \in Seq(Part), NEW p \in Seq(Part),
           DotDot \notin ToSet(p), Rooted(b \o p)
    PROVE  \E rest \in Seq(Part) : Join(b, p) = (<<Empty>> \o Clean(TRUE, b)) \o rest
<1>. DEFINE both == b \o p
            clean == Clean(TRUE, both)
            above == Clean(TRUE, b)
<1>1. above \in Seq(Part) /\ \E rest \in Seq(Part) : clean = above \o rest
    BY CleanPrefix
<1>2. Empty \in Part /\ <<Empty>> \in Seq(Part)
    BY PlainFacts
<1>3. Join(b, p) = <<Empty>> \o (IF clean = << >> THEN <<Empty>> ELSE clean)
  <2>1. Rooted(b \o p) = TRUE
      BY Zenon DEF Rooted
  <2>. QED
      BY <2>1, Zenon DEF Join
<1>. HIDE DEF above, clean
<1>4. PICK rest \in Seq(Part) : clean = above \o rest
    BY <1>1
<1>5. CASE clean = << >>
  <2>1. above = << >>
      BY <1>1, <1>4, <1>5, EmptyConcat
  <2>2. <<Empty>> \o above = <<Empty>>
      BY <1>2, <2>1, ConcatEmptySeq
  <2>3. Join(b, p) = (<<Empty>> \o above) \o <<Empty>>
      BY <1>3, <1>5, <2>2
  <2>. QED
      BY <1>2, <2>3, Zenon DEF above
<1>6. CASE clean # << >>
  <2>1. Join(b, p) = <<Empty>> \o (above \o rest)
      BY <1>3, <1>4, <1>6
  <2>2. above \in Seq(Part) /\ rest \in Seq(Part) /\ <<Empty>> \in Seq(Part)
      BY <1>1, <1>2
  <2>3. <<Empty>> \o (above \o rest) = (<<Empty>> \o above) \o rest
      BY <2>2, Associative, Zenon
  <2>. QED
      BY <2>1, <2>2, <2>3, Zenon DEF above
<1>. QED
    BY <1>5, <1>6

\* A clean path is kept whole behind the one it is joined to; if nothing is left of
\* both there is a dot.
LEMMA JoinKeeps ==
    ASSUME NEW b \in Seq(PlainPart), NEW p \in Seq(Part), IsClean(p)
    PROVE  \/ \E c \in Seq(PlainPart) : Join(b, p) = c \o Stem(p)
           \/ Join(b, p) = <<Dot>> /\ Stem(p) = << >>
<1>. DEFINE stem == Stem(p)
            rooted == Rooted(b \o p)
            clean == Clean(rooted, b \o p)
<1>0. b \in Seq(Part) /\ <<Empty>> \in Seq(PlainPart)
    BY PlainFacts
<1>1. stem \in Seq(Part) /\ ToSet(stem) \cap {Empty, Dot, DotDot} = {}
    BY StemFacts DEF IsClean
<1>2. \E c \in Seq(PlainPart) : clean = c \o stem
  <2>1. CASE Rooted(p)
    <3>1. <<Empty>> \in Seq(Part) /\ p = <<Empty>> \o stem
        BY <2>1, StemFacts
    <3>. HIDE DEF stem, rooted
    <3>2. b \o <<Empty>> \in Seq(PlainPart) /\ b \o <<Empty>> \in Seq(Part)
        BY <1>0, <3>1, ConcatProperties
    <3>3. b \o p = (b \o <<Empty>>) \o stem
        BY <1>0, <1>1, <3>1, Associative
    <3>4. Clean(rooted, (b \o <<Empty>>) \o stem) = Clean(rooted, b \o <<Empty>>) \o stem
        BY <1>1, <3>2, CleanNames
    <3>5. Clean(rooted, b \o <<Empty>>) \in Seq(PlainPart)
        BY <3>2, CleanKeeps
    <3>. QED
        BY <3>3, <3>4, <3>5, Zenon
  <2>2. CASE ~Rooted(p)
    <3>1. stem = p
        BY <2>2 DEF Stem
    <3>. HIDE DEF stem, rooted
    <3>2. Clean(rooted, b \o stem) = Clean(rooted, b) \o stem
        BY <1>0, <1>1, CleanNames
    <3>3. Clean(rooted, b) \in Seq(PlainPart)
        BY CleanKeeps
    <3>. QED
        BY <3>1, <3>2, <3>3, Zenon
  <2>. QED
      BY <2>1, <2>2
<1>3. Join(b, p) = IF rooted THEN <<Empty>> \o (IF clean = << >> THEN <<Empty>> ELSE clean)
                   ELSE IF clean = << >> /\ b \o p # << >> THEN <<Dot>>
                   ELSE clean
    BY Zenon DEF Join
<1>. HIDE DEF stem, rooted, clean
<1>4. PICK c \in Seq(PlainPart) : clean = c \o stem
    BY <1>2
<1>5. c \in Seq(Part) /\ <<Empty>> \in Seq(Part)
    BY <1>0, PlainFacts
<1>6. CASE clean # << >>
  <2>1. CASE rooted
    <3>1. Join(b, p) = <<Empty>> \o (c \o stem)
        BY <1>3, <1>4, <1>6, <2>1
    <3>2. <<Empty>> \o (c \o stem) = (<<Empty>> \o c) \o stem
        BY <1>1, <1>5, Associative, Zenon
    <3>3. <<Empty>> \o c \in Seq(PlainPart)
        BY <1>0, <1>4, ConcatProperties
    <3>. QED
        BY <3>1, <3>2, <3>3, Zenon DEF stem
  <2>2. CASE ~rooted
      BY <1>3, <1>4, <1>6, <2>2, Zenon DEF stem
  <2>. QED
      BY <2>1, <2>2
<1>7. CASE clean = << >>
  <2>1. stem = << >>
      BY <1>1, <1>4, <1>5, <1>7, EmptyConcat
  <2>2. Join(b, p) \in Seq(PlainPart) \/ Join(b, p) = <<Dot>>
    <3>1. <<Empty>> \o <<Empty>> \in Seq(PlainPart) /\ << >> \in Seq(PlainPart)
        BY <1>0, ConcatProperties, EmptySeq
    <3>. QED
        BY <1>0, <1>3, <1>7, <3>1
  <2>3. CASE Join(b, p) \in Seq(PlainPart)
    <3>1. Join(b, p) = Join(b, p) \o stem
        BY <2>1, <2>3, ConcatEmptySeq
    <3>. QED
        BY <2>3, <3>1, Zenon DEF stem
  <2>4. CASE Join(b, p) = <<Dot>>
      BY <2>1, <2>4, Zenon DEF stem
  <2>. QED
      BY <2>2, <2>3, <2>4
<1>. QED
    BY <1>6, <1>7

\* What a relative URL becomes is below the path of the host, unless it climbs.
LEMMA SentBelow ==
    ASSUME NEW b \in Seq(PlainPart), NEW p \in Seq(Part),
           DotDot \notin ToSet(p), Rooted(b \o p)
    PROVE  IsPrefix(<<Empty>> \o Clean(TRUE, b), Path(Join(b, p)))
<1>. DEFINE above == <<Empty>> \o Clean(TRUE, b)
<1>1. b \in Seq(Part) /\ <<Empty>> \in Seq(PlainPart)
    BY PlainFacts
<1>2. Clean(TRUE, b) \in Seq(PlainPart)
    BY CleanKeeps
<1>3. above \in Seq(PlainPart)
    BY <1>1, <1>2, ConcatProperties
<1>4. PICK rest \in Seq(Part) : Join(b, p) = above \o rest
    BY <1>1, JoinBelow, Zenon
<1>. HIDE DEF above
<1>5. Path(Join(b, p)) = above \o Path(rest) /\ Path(rest) \in Seq(Part)
    BY <1>3, <1>4, PathBehind
<1>6. IsPrefix(above, above \o Path(rest))
    BY <1>3, <1>5, PlainFacts, PrefixOfConcat
<1>. QED
    BY <1>5, <1>6, Zenon DEF above

\* What a clean URL becomes has all parts of its path at the end, and its query.
LEMMA SentWhole ==
    ASSUME NEW b \in Seq(PlainPart), NEW p \in Seq(Part), IsClean(p)
    PROVE  /\ IsSuffix(Path(Stem(p)), Path(Join(b, p)))
           /\ Query(Join(b, p)) = Query(p)
<1>. DEFINE stem == Stem(p)
<1>1. stem \in Seq(Part)
    BY StemFacts
<1>2. Query(p) = Query(stem)
  <2>1. CASE Rooted(p)
    <3>1. p = <<Empty>> \o stem /\ <<Empty>> \in Seq(PlainPart)
        BY <2>1, StemFacts, PlainFacts
    <3>. HIDE DEF stem
    <3>2. Query(<<Empty>> \o stem) = Query(stem)
        BY <1>1, <3>1, PathBehind
    <3>. QED
        BY <3>1, <3>2, Zenon
  <2>2. CASE ~Rooted(p)
      BY <2>2, Zenon DEF Stem
  <2>. QED
      BY <2>1, <2>2
<1>3. ASSUME NEW c \in Seq(PlainPart), Join(b, p) = c \o stem
      PROVE  IsSuffix(Path(stem), Path(Join(b, p))) /\ Query(Join(b, p)) = Query(stem)
  <2>. HIDE DEF stem
  <2>1. /\ Path(stem) \in Seq(Part)
        /\ Path(c \o stem) = c \o Path(stem) /\ Query(c \o stem) = Query(stem)
      BY <1>1, PathBehind
  <2>2. IsSuffix(Path(stem), c \o Path(stem))
      BY <2>1, PlainFacts, SuffixOfConcat
  <2>. QED
      BY <1>3, <2>1, <2>2, Zenon
<1>4. ASSUME Join(b, p) = <<Dot>>, stem = << >>
      PROVE  IsSuffix(Path(stem), Path(Join(b, p))) /\ Query(Join(b, p)) = Query(stem)
  <2>1. Marked(<<Dot>>) = {} /\ Marked(<< >>) = {}
    <3>1. At("?", Dot) = {}
      <4>1. DOMAIN Dot = {1} /\ Dot[1] = "." /\ "." # "?"
          BY DEF Dot
      <4>. QED
          BY <4>1 DEF At
    <3>. QED
        BY <3>1 DEF Marked
  <2>2. IsSuffix(<< >>, <<Dot>>)
      BY EmptySuffix
  <2>. QED
      BY <1>4, <2>1, <2>2, Zenon DEF Path, Query
<1>5. \/ \E c \in Seq(PlainPart) : Join(b, p) = c \o stem
      \/ Join(b, p) = <<Dot>> /\ stem = << >>
    BY JoinKeeps, Zenon
<1>. QED
    BY <1>2, <1>3, <1>4, <1>5, Zenon

-----------------------------------------------------------------------------
(* The call *)

\* What is kept of the inputs, of the flags and of the call.
IsTaken ==
    /\ flags \in Flags /\ on \in Ons /\ base \in Bases /\ template \in Templates
    /\ pc \notin {"start", "refused"} =>
           /\ config = HeadersOf(flags)
           /\ \A f \in ToSet(flags) : ~Unparsable(f)
IsSent ==
    request # NotSet =>
        /\ pc \notin {"start", "refused", "request"}
        /\ on.absolute \/ base # NoHost
        /\ request = SentRequest
\* What a piece may write.
Texts == STRING \cup {Error, NoValue}
\* What a template has written is what its first pieces make, without an error.
IsWritten ==
    /\ pc \in {"start", "request", "sent"} => output = << >>
    /\ pc = "rewriting" =>
           /\ location \in Locations \ {NoLocation} /\ template # NoTemplate
           /\ template.parses
           /\ output \in Seq(Texts) /\ Len(output) <= Len(template.pieces)
           /\ \A i \in 1 .. Len(output) :
                  output[i] = Output(template.pieces[i]) /\ output[i] # Error
Inv == IsTaken /\ IsSent /\ IsWritten /\ WholeLocation

LEMMA Initially == Init => Inv
BY DEF Init, Inv, IsTaken, IsSent, IsWritten, WholeLocation

LEMMA OutputType ==
    ASSUME location \in Locations \ {NoLocation}, NEW piece \in STRING
    PROVE  Output(piece) \in Texts
<1>1. location.text \in STRING /\ location.path \in STRING
    BY LocationsAssumption
<1>. QED
    BY <1>1 DEF Output, Texts

\* The next piece of a template: one more that is written, or the error.
LEMMA ExecuteSteps ==
    ASSUME Inv, Execute PROVE IsWritten' /\ WholeLocation'
<1>. DEFINE pieces == template.pieces
            next == Len(output) + 1
            written == Output(pieces[next])
<1>1. /\ location \in Locations \ {NoLocation} /\ template # NoTemplate /\ template.parses
      /\ output \in Seq(Texts) /\ Len(output) <= Len(pieces)
      /\ \A i \in 1 .. Len(output) : output[i] = Output(pieces[i]) /\ output[i] # Error
      /\ pc = "rewriting" /\ Len(output) < Len(pieces)
    BY DEF Inv, IsWritten, Execute
<1>2. pieces \in Seq(STRING)
    BY <1>1, TemplatesAssumption DEF Inv, IsTaken
<1>3. next \in DOMAIN pieces /\ pieces[next] \in STRING
    BY <1>1, <1>2
<1>4. written \in Texts
    BY <1>1, <1>3, OutputType
<1>5. location' = location /\ template' = template
    BY DEF Execute, inputs
<1>6. IsRewritten' = IsRewritten /\ Unchanged' = Unchanged
      /\ \A piece : Output(piece)' = Output(piece)
    BY <1>5, Zenon DEF IsRewritten, Unchanged, Output
<1>7. CASE written # Error /\ output' = Append(output, written) /\ pc' = pc
  <2>1. /\ output' \in Seq(Texts) /\ Len(output') = next
        /\ \A i \in 1 .. Len(output) : output'[i] = output[i]
        /\ output'[next] = written
    <3>. HIDE DEF written
    <3>. QED
        BY <1>1, <1>4, <1>7, AppendProperties
  <2>. HIDE DEF written
  <2>2. ASSUME NEW i \in 1 .. next
        PROVE  output'[i] = Output(pieces[i]) /\ output'[i] # Error
    <3>1. CASE i = next
        BY <1>7, <2>1, <3>1 DEF written
    <3>2. CASE i \in 1 .. Len(output)
        BY <1>1, <2>1, <3>2
    <3>. QED
        BY <1>1, <3>1, <3>2
  <2>3. next <= Len(pieces)
      BY <1>1, <1>2
  <2>. HIDE DEF pieces, next
  <2>4. /\ Len(output') <= Len(pieces)
        /\ \A i \in 1 .. Len(output') : output'[i] = Output(pieces[i]) /\ output'[i] # Error
      BY <2>1, <2>2, <2>3
  <2>5. /\ Len(output') <= Len(template'.pieces)
        /\ \A i \in 1 .. Len(output') :
               output'[i] = Output(template.pieces[i])' /\ output'[i] # Error'
      BY <1>5, <2>4 DEF pieces, Output, Error
  <2>. QED
      BY <1>1, <1>5, <1>7, <2>1, <2>5, Zenon DEF IsWritten, WholeLocation
<1>8. CASE written = Error /\ answer' = HeaderKept /\ pc' = "received"
  <2>1. ~IsRewritten
      BY <1>3, <1>8, Zenon DEF IsRewritten
  <2>2. answer' = Unchanged
      BY <1>8, Zenon DEF HeaderKept
  <2>. QED
      BY <1>6, <1>8, <2>1, <2>2 DEF IsWritten, WholeLocation
<1>. QED
    BY <1>7, <1>8, Zenon DEF Execute

\* All pieces are written, and none of them is an error.
LEMMA SetHeaderSteps ==
    ASSUME Inv, SetHeader PROVE IsWritten' /\ WholeLocation'
<1>1. /\ location \in Locations \ {NoLocation} /\ template # NoTemplate /\ template.parses
      /\ output \in Seq(Texts) /\ Len(output) = Len(template.pieces)
      /\ \A i \in 1 .. Len(output) : output[i] = Output(template.pieces[i]) /\ output[i] # Error
      /\ answer' = output /\ pc' = "received"
    BY DEF Inv, IsWritten, SetHeader
<1>2. template.pieces \in Seq(STRING)
    BY <1>1, TemplatesAssumption DEF Inv, IsTaken
<1>3. DOMAIN output = 1 .. Len(output) /\ DOMAIN template.pieces = 1 .. Len(output)
    BY <1>1, <1>2
<1>4. IsRewritten
    BY <1>1, <1>3 DEF IsRewritten
<1>5. output = [i \in DOMAIN template.pieces |-> Output(template.pieces[i])]
  <2>1. output = [i \in DOMAIN output |-> output[i]]
      BY <1>1
  <2>. QED
      BY <1>1, <1>3, <2>1
<1>6. location' = location /\ template' = template
    BY DEF SetHeader, inputs
<1>7. IsRewritten' = IsRewritten
      /\ [i \in DOMAIN template.pieces |-> Output(template.pieces[i])]'
             = [i \in DOMAIN template.pieces |-> Output(template.pieces[i])]
    BY <1>6 DEF IsRewritten, Output, Error, NoValue
<1>. QED
    BY <1>1, <1>4, <1>5, <1>7 DEF IsWritten, WholeLocation

LEMMA Inductive == Inv /\ [Next]_vars => Inv'
<1>. SUFFICES ASSUME Inv, [Next]_vars PROVE Inv'
    OBVIOUS
<1>1. CASE newRequestConfig
    BY <1>1 DEF Inv, IsTaken, IsSent, IsWritten, WholeLocation, newRequestConfig, inputs
<1>2. CASE populateRequest
  <2>1. IsTaken' /\ IsWritten' /\ WholeLocation'
      BY <1>2 DEF Inv, IsTaken, IsWritten, WholeLocation, populateRequest, inputs
  <2>2. SentRequest' = SentRequest
      BY <1>2, Zenon DEF populateRequest, inputs, SentRequest, SentHeaders, urlPrefix
  <2>3. IsSent'
      BY <1>2, <2>2 DEF Inv, IsSent, populateRequest, inputs
  <2>. QED
      BY <2>1, <2>3 DEF Inv
<1>3. CASE Receive \/ Execute \/ SetHeader
  <2>1. UNCHANGED <<flags, on, base, template, config, request>>
      BY <1>3 DEF Receive, Execute, SetHeader, inputs
  <2>2. /\ pc \notin {"start", "refused", "request"}
        /\ pc' \notin {"start", "refused", "request"}
      BY <1>3 DEF Receive, Execute, SetHeader
  <2>3. SentRequest' = SentRequest
      BY <2>1, Zenon DEF SentRequest, SentHeaders, urlPrefix
  <2>4. IsTaken' /\ IsSent'
      BY <2>1, <2>2, <2>3 DEF Inv, IsTaken, IsSent
  <2>5. CASE Receive
    <3>1. /\ pc' \in {"rewriting", "received"} /\ output' = << >>
          /\ location' \in Locations /\ template' = template
          /\ pc' = "rewriting" =>
                 location' # NoLocation /\ template # NoTemplate /\ template.parses
          /\ pc' = "received" =>
                 /\ location' = NoLocation \/ template = NoTemplate \/ ~template.parses
                 /\ answer' = Unchanged'
        BY <2>5 DEF Inv, IsWritten, Receive, inputs
    <3>2. IsWritten'
      <4>1. pc' = "rewriting" => Len(template.pieces) \in Nat
          BY <3>1, TemplatesAssumption DEF Inv, IsTaken
      <4>2. /\ output' \in Seq(Texts) /\ Len(output') = 0
            /\ pc' = "rewriting" => 0 <= Len(template.pieces)
            /\ \A i \in 1 .. 0 : FALSE
          BY <3>1, <4>1
      <4>. QED
          BY <3>1, <4>2 DEF IsWritten
    <3>3. WholeLocation'
      <4>1. pc' = "received" => ~IsRewritten'
          BY <3>1 DEF IsRewritten
      <4>. QED
          BY <3>1, <4>1 DEF WholeLocation
    <3>. QED
        BY <2>4, <3>2, <3>3 DEF Inv
  <2>6. CASE Execute \/ SetHeader
      BY <2>4, <2>6, ExecuteSteps, SetHeaderSteps DEF Inv
  <2>. QED
      BY <1>3, <2>5, <2>6
<1>4. CASE UNCHANGED vars
  <2>1. IsTaken' = IsTaken /\ IsSent' = IsSent /\ IsWritten' = IsWritten /\ WholeLocation' = WholeLocation
    <3>1. SentRequest' = SentRequest
        BY <1>4, Zenon DEF vars, inputs, SentRequest, SentHeaders, urlPrefix
    <3>2. IsTaken' = IsTaken /\ IsSent' = IsSent
        BY <1>4, <3>1 DEF vars, inputs, IsTaken, IsSent
    <3>3. IsWritten' = IsWritten
        BY <1>4 DEF vars, inputs, IsWritten, Output, Error, NoValue
    <3>4. WholeLocation' = WholeLocation
        BY <1>4 DEF vars, inputs, WholeLocation, IsRewritten, Unchanged, Output, Error, NoValue
    <3>. QED
        BY <3>2, <3>3, <3>4
  <2>. QED
      BY <2>1 DEF Inv
<1>. QED
    BY <1>1, <1>2, <1>3, <1>4 DEF Next, Over

LEMMA Invariance == Spec => []Inv
BY Initially, Inductive, PTL DEF Spec

\* A flag with one colon is a header as it is written, and what a flag gives is the
\* beginning of what it says.
LEMMA FlagFacts ==
    ASSUME NEW flag \in Seq(STRING) \ {<< >>}
    PROVE  /\ IsOneHeader(flag) => <<flag[2]>> = Tail(flag)
           /\ Len(flag) >= 2 => IsPrefix(<<flag[2]>>, Tail(flag))
<1>1. /\ Tail(flag) \in Seq(STRING) /\ Len(Tail(flag)) = Len(flag) - 1
      /\ \A i \in 1 .. Len(flag) - 1 : Tail(flag)[i] = flag[i + 1]
      /\ Len(flag) \in Nat
    OBVIOUS
<1>2. ASSUME IsOneHeader(flag) PROVE <<flag[2]>> = Tail(flag)
  <2>. DEFINE rest == Tail(flag)
             one == <<flag[2]>>
  <2>1. Len(flag) = 2 /\ flag[2] \in STRING
      BY <1>1, <1>2 DEF IsOneHeader
  <2>2. rest \in Seq(STRING) /\ Len(rest) = 1 /\ rest[1] = flag[2]
      BY <1>1, <2>1
  <2>3. one \in Seq(STRING) /\ Len(one) = 1 /\ one[1] = flag[2]
      BY <2>1
  <2>. HIDE DEF rest, one
  <2>4. one = rest
      BY <2>2, <2>3, SeqEqual
  <2>. QED
      BY <2>4 DEF one, rest
<1>3. ASSUME Len(flag) >= 2 PROVE IsPrefix(<<flag[2]>>, Tail(flag))
  <2>. DEFINE rest == Tail(flag)
             one == <<flag[2]>>
  <2>1. Len(one) = 1 /\ one[1] = rest[1] /\ Len(rest) >= 1 /\ rest \in Seq(STRING) /\ one \in Seq(STRING)
      BY <1>1, <1>3
  <2>. HIDE DEF rest, one
  <2>2. SubSeq(one, 1, 1) = SubSeq(rest, 1, 1)
      BY <2>1
  <2>. QED
      BY <2>1, <2>2 DEF IsPrefix, rest, one
<1>. QED
    BY <1>2, <1>3

\* What is sent is what the suite and the flags ask for: all headers of the suite,
\* the last flag of every name, no other header, and the path and the query of the URL.
LEMMA Given == Inv => RequestAsGiven
<1>. SUFFICES ASSUME Inv, request # NotSet PROVE RequestAsGiven
    BY Zenon DEF RequestAsGiven
<1>1. /\ flags \in Seq(Seq(STRING) \ {<< >>})
      /\ config = HeadersOf(flags)
      /\ \A f \in ToSet(flags) : ~Unparsable(f)
      /\ request = SentRequest /\ request.headers = on.headers \cup config
    BY FlagsAssumption DEF Inv, IsTaken, IsSent, SentRequest, SentHeaders
<1>2. ASSUME NEW i \in DOMAIN flags
      PROVE  flags[i] \in Seq(STRING) \ {<< >>} /\ ~Unparsable(flags[i])
    BY <1>1 DEF ToSet
<1>3. \A i \in DOMAIN flags : IsLast(i) => <<flags[i][1], <<flags[i][2]>>>> \in config
    BY <1>1, Zenon DEF HeadersOf, IsLast
<1>4. ASSUME NEW i \in DOMAIN flags, IsLast(i), IsOneHeader(flags[i])
      PROVE  <<flags[i][1], Tail(flags[i])>> \in request.headers
  <2>1. <<flags[i][2]>> = Tail(flags[i])
      BY <1>2, <1>4, FlagFacts
  <2>. QED
      BY <1>1, <1>3, <1>4, <2>1
<1>5. ASSUME NEW h \in request.headers \ on.headers
      PROVE  \E i \in DOMAIN flags :
                 IsLast(i) /\ h[1] = flags[i][1] /\ h[2] # <<"">> /\ IsPrefix(h[2], Tail(flags[i]))
  <2>1. h \in HeadersOf(flags)
      BY <1>1
  <2>2. PICK i \in DOMAIN flags : IsLast(i) /\ h = <<flags[i][1], <<flags[i][2]>>>>
      BY <2>1, Zenon DEF HeadersOf, IsLast
  <2>3. Len(flags[i]) >= 2 /\ flags[i][2] # ""
      BY <1>2 DEF Unparsable
  <2>4. IsPrefix(<<flags[i][2]>>, Tail(flags[i]))
      BY <1>2, <2>3, FlagFacts
  <2>5. h[1] = flags[i][1] /\ h[2] = <<flags[i][2]>> /\ <<flags[i][2]>> # <<"">>
      BY <2>2, <2>3
  <2>. QED
      BY <2>2, <2>4, <2>5, Zenon
<1>6. on.url \in Seq(Part) /\ (~on.absolute => base \in Seq(Part))
    BY OnsAssumption, BasesAssumption DEF Inv, IsTaken, IsSent
<1>7. /\ request.path = Path(urlPrefix)
      /\ request.query = Values(Query(urlPrefix)) \cup on.params
    BY <1>1, Zenon DEF SentRequest
<1>8. on.absolute => urlPrefix = on.url
    BY Zenon DEF urlPrefix
<1>9. ~on.absolute => urlPrefix = Join(base, on.url)
    BY Zenon DEF urlPrefix, concatURL
<1>10. ~on.absolute /\ Marked(base) = {} => base \in Seq(PlainPart)
    BY <1>6, MarkedFacts
<1>11. ~on.absolute /\ DotDot \notin ToSet(on.url) /\ Rooted(base \o on.url) /\ Marked(base) = {} =>
           IsPrefix(<<Empty>> \o Clean(TRUE, base), request.path)
    BY <1>6, <1>7, <1>9, <1>10, SentBelow
<1>12. ~on.absolute /\ IsClean(on.url) /\ Marked(base) = {} =>
           /\ IsSuffix(Path(Stem(on.url)), request.path)
           /\ Query(urlPrefix) = Query(on.url)
    BY <1>6, <1>7, <1>9, <1>10, SentWhole
<1>13. on.headers \subseteq request.headers
    BY <1>1
<1>14. on.absolute => request.path = Path(on.url)
    BY <1>7, <1>8
<1>15. on.absolute \/ (IsClean(on.url) /\ Marked(base) = {}) =>
           request.query = Values(Query(on.url)) \cup on.params
    BY <1>7, <1>8, <1>12
<1>. QED
    BY <1>4, <1>5, <1>11, <1>12, <1>13, <1>14, <1>15, Zenon DEF RequestAsGiven

\* Whatever the flags, the call and the host: the request is the one asked for.
THEOREM RequestIsAsGiven == Spec => []RequestAsGiven
BY Invariance, Given, PTL

\* Whatever a template says and wherever it fails, the expectations see the Location
\* of the response or what all pieces of the template make of it.
THEOREM LocationIsWhole == Spec => []WholeLocation
<1>1. Inv => WholeLocation
    BY DEF Inv
<1>. QED
    BY <1>1, Invariance, PTL

=============================================================================
