--------------------------- MODULE VariablesProofs ---------------------------
(***************************************************************************)
(* Proofs about Variables, for any test case, any names and any values:    *)
(* TypeOK, BoundedRecursion, EnvironmentKept, NoErrorLost,                 *)
(* NoPlaceholderLeft, UsedIsMentioned and ArgumentsResolved.               *)
(***************************************************************************)
EXTENDS Variables, SequenceTheorems, FiniteSetTheorems, TLAPS

Adding == pc = "add" \/ stack # << >>

-----------------------------------------------------------------------------
(* Lemmas *)

\* What the assumptions say of one step of a test case.
LEMMA StepFacts ==
    ASSUME script \in Scripts, at \in 1 .. Len(script)
    PROVE  /\ Len(script) \in Nat
           /\ Current.op \in Operation
           /\ DOMAIN args \subseteq Name
           /\ args \in [DOMAIN args -> Value]
           /\ Current.text \in SUBSET Token
<1>1. Len(script) \in Nat /\ IsStep(script[at])
    BY ScriptAssumption
<1>. QED
    BY <1>1 DEF IsStep, IsArguments, Current, args, Text

\* Putting a value into the items keeps them a set of named values.
LEMMA PutFacts ==
    ASSUME IsArguments(items), NEW n \in Name, NEW v \in Value
    PROVE  /\ IsArguments(Put(n, v))
           /\ DOMAIN Put(n, v) = DOMAIN items \cup {n}
           /\ \A m \in DOMAIN items : m # n => Put(n, v)[m] = items[m]
BY DEF IsArguments, Put

\* What is left of a stack without its last element.
LEMMA PopFacts ==
    ASSUME stack \in Seq(Name), stack # << >>, Pop
    PROVE  /\ Len(stack) \in Nat \ {0} /\ Len(stack) \in DOMAIN stack
           /\ stack' \in Seq(Name)
           /\ Len(stack') = Len(stack) - 1
           /\ \A i \in 1 .. Len(stack') : stack'[i] = stack[i]
           /\ pc' = IF Len(stack) = 1 THEN "add" ELSE "frame"
           /\ pc' = "frame" => stack' # << >>
           /\ Len(stack) = 1 => stack' = << >>
<1>1. Len(stack) \in Nat \ {0} /\ DOMAIN stack = 1 .. Len(stack)
    BY EmptySeq, LenProperties
<1>2. stack' = SubSeq(stack, 1, Len(stack) - 1)
    BY DEF Pop
<1>3. /\ stack' \in Seq(Name)
      /\ Len(stack') = Len(stack) - 1
      /\ \A i \in 1 .. Len(stack') : stack'[i] = stack[i]
    BY <1>1, <1>2
<1>4. Len(stack') = 0 <=> stack' = << >>
    BY <1>3, EmptySeq
<1>. QED
    BY <1>1, <1>3, <1>4 DEF Pop

\* Substituting an item keeps the text a text, and everything in it that is not
\* the name of an item.
LEMMA AssembledFacts ==
    ASSUME IsArguments(items), text \subseteq Token, NEW n \in DOMAIN items
    PROVE  /\ Assembled(n) \subseteq Token
           /\ \A t \in text : t \notin DOMAIN items => t \in Assembled(n)
<1>1. items[n].text \subseteq Token
    BY DEF IsArguments, Value, Text
<1>. QED
    BY <1>1 DEF Assembled

\* A template that is executed gives a text.
LEMMA ExecutedFacts ==
    ASSUME text \subseteq Token, NEW time \in Time
    PROVE  Executed(time) \subseteq Token
BY DEF Executed, Token

-----------------------------------------------------------------------------
(* Type correctness *)

LEMMA TypeInit == Init => TypeOK
<1>. SUFFICES ASSUME Init PROVE TypeOK
    OBVIOUS
<1>1. script \in Scripts /\ Len(script) \in Nat
    BY ScriptAssumption DEF Init
<1>2. at \in 1 .. Len(script) + 1
    BY <1>1 DEF Init
<1>3. IsArguments(items) /\ clock \in Time
    BY NameAssumption, ClockAssumption DEF Init, Time
<1>4. stack = << >> /\ stack \in Seq(Name)
    BY EmptySeq DEF Init
<1>. QED
    BY <1>1, <1>2, <1>3, <1>4 DEF Init, TypeOK

LEMMA TypeStep == TypeOK /\ [Next]_vars => TypeOK'
<1>. SUFFICES ASSUME TypeOK, [Next]_vars PROVE TypeOK'
    OBVIOUS
<1>0. Len(script) \in Nat /\ at \in Nat /\ at \in 1 .. Len(script) + 1
    BY ScriptAssumption DEF TypeOK
<1>a. ASSUME at <= Len(script)
      PROVE  /\ Current.op \in Operation /\ DOMAIN args \subseteq Name
             /\ args \in [DOMAIN args -> Value] /\ Current.text \in SUBSET Token
    BY <1>0, <1>a, StepFacts DEF TypeOK
<1>b. ASSUME script' = script, at' = at PROVE Current' = Current /\ args' = args
    BY <1>b DEF Current, args
<1>c. ASSUME stack # << >>, pc # "done"
      PROVE  /\ at <= Len(script) /\ Top \in DOMAIN args /\ Top \in Name /\ args[Top] \in Value
             /\ Len(stack) \in Nat \ {0}
  <2>1. at <= Len(script)
      BY <1>c DEF TypeOK
  <2>2. Len(stack) \in Nat \ {0}
      BY <1>c, EmptySeq, LenProperties DEF TypeOK
  <2>3. Top \in DOMAIN args
      BY <1>c, <2>2 DEF TypeOK, Top
  <2>. QED
      BY <1>a, <2>1, <2>2, <2>3
<1>1. CASE StartAdd
  <2>1. todo' \subseteq DOMAIN args /\ scope' \subseteq DOMAIN args
      BY <1>1 DEF StartAdd
  <2>2. Current' = Current /\ args' = args
      BY <1>1, <1>b DEF StartAdd
  <2>3. stack' = << >> /\ Len(stack') = 0
      BY <1>1, EmptySeq DEF StartAdd, TypeOK
  <2>. QED
      BY <1>1, <1>a, <2>1, <2>2, <2>3 DEF StartAdd, TypeOK, passVars, UserDefined
<1>2. CASE Visit
  <2>1. PICK n \in todo :
            /\ todo' = todo \ {n} /\ scope' = Without(n)
            /\ \/ stack' = <<n>> /\ pc' = "frame" /\ UNCHANGED failed
               \/ Fail /\ UNCHANGED stack
               \/ UNCHANGED <<pc, stack, failed>>
      BY <1>2 DEF Visit, ToVisit
  <2>2. Current' = Current /\ args' = args
      BY <1>2, <1>b DEF Visit
  <2>3. n \in DOMAIN args /\ n \in Name /\ scope' \subseteq scope
      BY <1>2, <2>1 DEF Visit, TypeOK, Without
  <2>4. CASE stack' = <<n>> /\ pc' = "frame" /\ UNCHANGED failed
    <3>1. stack' \in Seq(Name) /\ Len(stack') = 1 /\ stack'[1] = n /\ stack' # << >>
        BY <2>3, <2>4
    <3>. QED
        BY <1>2, <2>1, <2>2, <2>3, <2>4, <3>1 DEF Visit, TypeOK, passVars, UserDefined
  <2>5. CASE Fail /\ UNCHANGED stack
      BY <1>2, <2>1, <2>2, <2>3, <2>5 DEF Visit, TypeOK, passVars, UserDefined, Fail
  <2>6. CASE UNCHANGED <<pc, stack, failed>>
      BY <1>2, <2>1, <2>2, <2>3, <2>6 DEF Visit, TypeOK, passVars, UserDefined
  <2>. QED
      BY <2>1, <2>4, <2>5, <2>6
<1>3. CASE NotFound
    BY <1>3, <1>b DEF NotFound, TypeOK, passVars, loopVars, UserDefined, Fail
<1>4. CASE EndAdd
    BY <1>0, <1>4 DEF EndAdd, TypeOK, passVars, loopVars, UserDefined
<1>5. CASE Descend
  <2>1. PICK n \in RefersTo(Top) :
            /\ scope' = Without(n)
            /\ stack' = IF Overrides(n) THEN stack ELSE Append(stack, n)
      BY <1>5 DEF Descend
  <2>2. Current' = Current /\ args' = args
      BY <1>5, <1>b DEF Descend
  <2>3. n \in DOMAIN args /\ n \in Name /\ scope' \subseteq scope
      BY <1>5, <2>1 DEF Descend, TypeOK, Without, RefersTo
  <2>4. /\ stack' \in Seq(Name) /\ stack' # << >>
        /\ \A i \in 1 .. Len(stack') : stack'[i] \in DOMAIN args
    <3>1. CASE Overrides(n)
        BY <1>5, <2>1, <3>1 DEF Descend, TypeOK
    <3>2. CASE ~Overrides(n)
      <4>1. stack' = Append(stack, n) /\ stack \in Seq(Name)
          BY <2>1, <3>2 DEF TypeOK
      <4>2. /\ stack' \in Seq(Name) /\ Len(stack') = Len(stack) + 1 /\ Len(stack) \in Nat
            /\ \A i \in 1 .. Len(stack) : stack'[i] = stack[i]
            /\ stack'[Len(stack) + 1] = n
          BY <4>1, <2>3, AppendProperties
      <4>3. \A i \in 1 .. Len(stack) : stack[i] \in DOMAIN args
          BY <1>5 DEF Descend, TypeOK
      <4>4. Len(stack') # 0
          BY <4>2
      <4>. QED
          BY <4>2, <4>3, <4>4, <2>3, EmptySeq
    <3>. QED
        BY <3>1, <3>2
  <2>. QED
      BY <1>5, <2>1, <2>2, <2>3, <2>4 DEF Descend, TypeOK, passVars, UserDefined
<1>6. CASE Store
  <2>1. stack # << >> /\ Pop /\ items' = Put(Top, args[Top]) /\ pc # "done"
      BY <1>6 DEF Store, TypeOK
  <2>2. IsArguments(items') /\ DOMAIN items \subseteq DOMAIN items'
      BY <1>c, <2>1, PutFacts, ZenonT(30) DEF TypeOK
  <2>3. Current' = Current /\ args' = args
      BY <1>6, <1>b DEF Store
  <2>4. /\ stack' \in Seq(Name) /\ Len(stack) \in Nat \ {0} /\ Len(stack') = Len(stack) - 1
        /\ \A i \in 1 .. Len(stack') : stack'[i] = stack[i]
        /\ pc' \in {"add", "frame"}
        /\ pc' = "frame" => stack' # << >>
        /\ pc' = "add" => stack' = << >>
      BY <2>1, PopFacts DEF TypeOK
  <2>5. \A i \in 1 .. Len(stack') : stack'[i] \in DOMAIN args
      BY <2>1, <2>4 DEF TypeOK
  <2>6. used' \subseteq UserDefined'
      BY <1>6, <2>2 DEF Store, TypeOK, UserDefined
  <2>. QED
      BY <1>6, <1>c, <2>1, <2>2, <2>3, <2>4, <2>5, <2>6 DEF Store, TypeOK, passVars
<1>7. CASE Evaluate
  <2>1. Current' = Current /\ args' = args
      BY <1>7, <1>b DEF Evaluate
  <2>2. args[Top] \in Value /\ stack # << >>
      BY <1>7, <1>c DEF Evaluate, TypeOK
  <2>. QED
      BY <1>7, <2>1, <2>2 DEF Evaluate, TypeOK, loopVars, UserDefined, Visible, Value, Text
<1>8. CASE StartTemplate
  <2>1. Current' = Current /\ args' = args
      BY <1>8, <1>b DEF StartTemplate
  <2>. QED
      BY <1>8, <1>a, <2>1 DEF StartTemplate, TypeOK, loopVars, UserDefined, Visible
<1>9. CASE Substitute
  <2>1. PICK n \in left : /\ left' = left \ {n} /\ text' = Assembled(n)
                          /\ used' = used \cup Mark(n)
      BY <1>9 DEF Substitute
  <2>2. n \in DOMAIN items /\ text' \subseteq Token
      BY <2>1, AssembledFacts DEF TypeOK
  <2>3. used' \subseteq UserDefined
      BY <2>1 DEF Mark, TypeOK
  <2>4. Current' = Current /\ args' = args
      BY <1>9, <1>b DEF Substitute
  <2>. QED
      BY <1>9, <2>1, <2>2, <2>3, <2>4 DEF Substitute, TypeOK, loopVars, UserDefined
<1>10. CASE Again
  <2>1. Current' = Current /\ args' = args
      BY <1>10, <1>b DEF Again
  <2>. QED
      BY <1>10, <2>1 DEF Again, TypeOK, loopVars, UserDefined, Visible
<1>11. CASE ExecuteArgument
  <2>0. stack # << >> /\ pc = "apply" /\ left = {}
      BY <1>11 DEF ExecuteArgument
  <2>1. clock' \in Time
    <3>1. clock \in 0 .. MaxClock /\ MaxClock \in Nat /\ clock' \in clock .. MaxClock
        BY <1>11, ClockAssumption DEF ExecuteArgument, TypeOK, Time
    <3>. QED
        BY <3>1 DEF Time
  <2>2. PICK v \in Value : items' = Put(Top, v)
    <3>1. Executed(clock') \subseteq Token
        BY <2>1, ExecutedFacts DEF TypeOK
    <3>2. /\ [string |-> TRUE, text |-> Executed(clock')] \in Value
          /\ [string |-> TRUE, text |-> {}] \in Value
        BY <3>1 DEF Value, Text
    <3>. QED
        BY <1>11, <3>2 DEF ExecuteArgument
  <2>3. IsArguments(items') /\ DOMAIN items \subseteq DOMAIN items'
      BY <1>c, <2>0, <2>2, PutFacts, ZenonT(30) DEF TypeOK
  <2>4. used' \subseteq UserDefined' /\ left' \subseteq DOMAIN items'
      BY <1>11, <2>3 DEF ExecuteArgument, TypeOK, UserDefined, passVars
  <2>5. Current' = Current /\ args' = args
      BY <1>11, <1>b DEF ExecuteArgument
  <2>6. CASE Pop /\ UNCHANGED failed
    <3>1. /\ stack' \in Seq(Name) /\ Len(stack) \in Nat \ {0} /\ Len(stack') = Len(stack) - 1
          /\ \A i \in 1 .. Len(stack') : stack'[i] = stack[i]
          /\ pc' \in {"add", "frame"}
          /\ pc' = "frame" => stack' # << >>
          /\ pc' = "add" => stack' = << >>
        BY <2>0, <2>6, PopFacts DEF TypeOK
    <3>2. \A i \in 1 .. Len(stack') : stack'[i] \in DOMAIN args
        BY <2>0, <3>1 DEF TypeOK
    <3>. QED
        BY <1>11, <1>c, <2>0, <2>1, <2>3, <2>4, <2>5, <2>6, <3>1, <3>2
           DEF ExecuteArgument, TypeOK, passVars
  <2>7. CASE Fail /\ UNCHANGED stack
      BY <1>11, <2>0, <2>1, <2>3, <2>4, <2>5, <2>7 DEF ExecuteArgument, TypeOK, passVars, Fail
  <2>. QED
      BY <1>11, <2>6, <2>7 DEF ExecuteArgument
<1>12. CASE ExecuteTemplate
  <2>1. clock' \in Time
    <3>1. clock \in 0 .. MaxClock /\ MaxClock \in Nat /\ clock' \in clock .. MaxClock
        BY <1>12, ClockAssumption DEF ExecuteTemplate, TypeOK, Time
    <3>. QED
        BY <3>1 DEF Time
  <2>2. CASE at' = at + 1 /\ pc' = "step" /\ UNCHANGED failed
      BY <1>0, <1>12, <2>1, <2>2 DEF ExecuteTemplate, TypeOK, loopVars, passVars, UserDefined
  <2>3. CASE Fail /\ UNCHANGED <<at, out>>
      BY <1>12, <2>1, <2>3 DEF ExecuteTemplate, TypeOK, loopVars, passVars, UserDefined, Fail
  <2>. QED
      BY <1>12, <2>2, <2>3 DEF ExecuteTemplate
<1>13. CASE KeepList
    BY <1>0, <1>13 DEF KeepList, TypeOK, loopVars, passVars, UserDefined
<1>14. CASE EndScript
    BY <1>0, <1>14 DEF EndScript, TypeOK, loopVars, passVars, UserDefined
<1>15. CASE UNCHANGED vars
    BY <1>15, <1>b DEF vars, TypeOK, loopVars, passVars, UserDefined, Current, args
<1>. QED
    BY <1>1, <1>2, <1>3, <1>4, <1>5, <1>6, <1>7, <1>8, <1>9, <1>10, <1>11, <1>12, <1>13, <1>14,
       <1>15 DEF Next, Work, Over

\* Every variable of Vars and of the iterations stays in its range, for any test
\* case.
THEOREM TypeCorrect == Spec => []TypeOK
BY TypeInit, TypeStep, PTL DEF Spec

-----------------------------------------------------------------------------
(* Circles of arguments *)

LEMMA RecursionStep == TypeOK /\ BoundedRecursion /\ [Next]_vars => BoundedRecursion'
<1>. SUFFICES ASSUME TypeOK, BoundedRecursion, [Next]_vars PROVE BoundedRecursion'
    OBVIOUS
<1>1. CASE UNCHANGED <<stack, scope>>
    BY <1>1 DEF BoundedRecursion
<1>2. CASE pc = "step" /\ UNCHANGED stack
  <2>1. Len(stack') = 0
      BY <1>2, EmptySeq DEF TypeOK
  <2>. QED
      BY <2>1 DEF BoundedRecursion
<1>3. CASE Visit
  <2>1. PICK n \in todo : /\ scope' = Without(n)
                          /\ stack' = <<n>> \/ UNCHANGED stack
      BY <1>3 DEF Visit, ToVisit
  <2>2. stack = << >> /\ n \notin scope'
      BY <1>3, <2>1 DEF Visit, TypeOK, Without
  <2>. QED
      BY <2>1, <2>2, EmptySeq DEF BoundedRecursion
<1>4. CASE Descend
  <2>1. PICK n \in RefersTo(Top) :
            /\ scope' = scope \ {n}
            /\ stack' = IF Overrides(n) THEN stack ELSE Append(stack, n)
      BY <1>4 DEF Descend, Without
  <2>2. n \in scope /\ n \in Name /\ stack \in Seq(Name)
      BY <2>1 DEF RefersTo, TypeOK
  <2>3. \A i \in 1 .. Len(stack) : stack[i] # n
      BY <2>2 DEF BoundedRecursion
  <2>4. CASE Overrides(n)
      BY <2>1, <2>4 DEF BoundedRecursion
  <2>5. CASE ~Overrides(n)
    <3>1. /\ Len(stack') = Len(stack) + 1 /\ Len(stack) \in Nat
          /\ \A i \in 1 .. Len(stack) : stack'[i] = stack[i]
          /\ stack'[Len(stack) + 1] = n
        BY <2>1, <2>2, <2>5, AppendProperties
    <3>. QED
        BY <2>1, <2>3, <3>1 DEF BoundedRecursion
  <2>. QED
      BY <2>4, <2>5
<1>5. CASE Pop /\ UNCHANGED scope /\ stack # << >>
  <2>1. /\ Len(stack) \in Nat \ {0} /\ Len(stack') = Len(stack) - 1
        /\ \A i \in 1 .. Len(stack') : stack'[i] = stack[i]
      BY <1>5, PopFacts DEF TypeOK
  <2>. QED
      BY <1>5, <2>1 DEF BoundedRecursion
<1>6. CASE Store
    BY <1>5, <1>6 DEF Store, TypeOK
<1>7. CASE ExecuteArgument
  <2>1. Pop \/ UNCHANGED stack
      BY <1>7 DEF ExecuteArgument
  <2>. QED
      BY <1>1, <1>5, <1>7, <2>1 DEF ExecuteArgument
<1>8. CASE StartAdd
    BY <1>2, <1>8 DEF StartAdd
<1>9. CASE NotFound \/ EndAdd \/ Evaluate \/ StartTemplate \/ Substitute \/ Again
           \/ ExecuteTemplate \/ KeepList \/ EndScript
    BY <1>1, <1>9 DEF NotFound, EndAdd, Evaluate, StartTemplate, Substitute, Again,
                     ExecuteTemplate, KeepList, EndScript, loopVars
<1>10. CASE UNCHANGED vars
    BY <1>1, <1>10 DEF vars, loopVars
<1>. QED
    BY <1>3, <1>4, <1>6, <1>7, <1>8, <1>9, <1>10 DEF Next, Work, Over

\* addInScope never recurses into a name it is already processing.
THEOREM RecursionBounded == Spec => []BoundedRecursion
<1>1. Init => BoundedRecursion
    BY EmptySeq DEF Init, BoundedRecursion
<1>. QED
    BY <1>1, RecursionStep, TypeCorrect, PTL DEF Spec

-----------------------------------------------------------------------------
(* The environment *)

\* The names being processed are not those of the context or the environment.
NoneOverridden == \A i \in 1 .. Len(stack) : stack[i] \notin DOMAIN Environment

LEMMA EnvironmentInit == Init => EnvironmentKept /\ NoneOverridden
BY EmptySeq DEF Init, EnvironmentKept, NoneOverridden

LEMMA OverriddenStep ==
    TypeOK /\ EnvironmentKept /\ NoneOverridden /\ [Next]_vars => NoneOverridden'
<1>. SUFFICES ASSUME TypeOK, EnvironmentKept, NoneOverridden, [Next]_vars PROVE NoneOverridden'
    OBVIOUS
<1>0. \A n \in DOMAIN Environment : Overrides(n)
    BY NameAssumption DEF Overrides, EnvironmentKept
<1>1. CASE UNCHANGED stack
    BY <1>1 DEF NoneOverridden
<1>2. CASE Visit
  <2>1. PICK n \in todo : (~Overrides(n) /\ stack' = <<n>>) \/ UNCHANGED stack
      BY <1>2 DEF Visit, ToVisit
  <2>. QED
      BY <1>0, <1>1, <2>1 DEF NoneOverridden
<1>3. CASE Descend
  <2>1. PICK n \in RefersTo(Top) : stack' = IF Overrides(n) THEN stack ELSE Append(stack, n)
      BY <1>3 DEF Descend
  <2>2. n \in Name /\ stack \in Seq(Name)
      BY <2>1 DEF RefersTo, TypeOK
  <2>3. CASE ~Overrides(n)
    <3>1. /\ Len(stack') = Len(stack) + 1 /\ Len(stack) \in Nat
          /\ \A i \in 1 .. Len(stack) : stack'[i] = stack[i]
          /\ stack'[Len(stack) + 1] = n
        BY <2>1, <2>2, <2>3, AppendProperties
    <3>. QED
        BY <1>0, <2>3, <3>1 DEF NoneOverridden
  <2>. QED
      BY <1>1, <2>1, <2>3
<1>4. CASE Pop /\ stack # << >>
  <2>1. /\ Len(stack) \in Nat \ {0} /\ Len(stack') = Len(stack) - 1
        /\ \A i \in 1 .. Len(stack') : stack'[i] = stack[i]
      BY <1>4, PopFacts DEF TypeOK
  <2>. QED
      BY <2>1 DEF NoneOverridden
<1>5. CASE Store
    BY <1>4, <1>5 DEF Store, TypeOK
<1>6. CASE ExecuteArgument
    BY <1>1, <1>4, <1>6 DEF ExecuteArgument
<1>7. CASE StartAdd \/ NotFound \/ EndAdd \/ Evaluate \/ StartTemplate \/ Substitute \/ Again
           \/ ExecuteTemplate \/ KeepList \/ EndScript
    BY <1>1, <1>7 DEF StartAdd, NotFound, EndAdd, Evaluate, StartTemplate, Substitute, Again,
                     ExecuteTemplate, KeepList, EndScript, loopVars
<1>8. CASE UNCHANGED vars
    BY <1>1, <1>8 DEF vars, loopVars
<1>. QED
    BY <1>2, <1>3, <1>5, <1>6, <1>7, <1>8 DEF Next, Work, Over

LEMMA EnvironmentStep ==
    TypeOK /\ EnvironmentKept /\ NoneOverridden /\ [Next]_vars => EnvironmentKept'
<1>. SUFFICES ASSUME TypeOK, EnvironmentKept, NoneOverridden, [Next]_vars PROVE EnvironmentKept'
    OBVIOUS
<1>1. CASE UNCHANGED items
    BY <1>1 DEF EnvironmentKept
<1>2. ASSUME stack # << >>, pc # "done"
      PROVE  Top \in Name /\ Top \notin DOMAIN Environment /\ args[Top] \in Value
  <2>1. Len(stack) \in Nat \ {0} /\ Len(stack) \in 1 .. Len(stack)
      BY <1>2, EmptySeq, LenProperties DEF TypeOK
  <2>2. at \in 1 .. Len(script) /\ Top \in DOMAIN args
      BY <1>2, <2>1, ScriptAssumption DEF TypeOK, Top
  <2>. QED
      BY <2>1, <2>2, StepFacts DEF NoneOverridden, Top, TypeOK
<1>3. CASE \E v \in Value : items' = Put(Top, v) /\ stack # << >> /\ pc # "done"
  <2>1. PICK v \in Value : items' = Put(Top, v)
      BY <1>3
  <2>2. /\ DOMAIN items' = DOMAIN items \cup {Top}
        /\ \A m \in DOMAIN items : m # Top => items'[m] = items[m]
      BY <1>2, <1>3, <2>1, PutFacts DEF TypeOK
  <2>. QED
      BY <1>2, <1>3, <2>2 DEF EnvironmentKept
<1>4. CASE Store
    BY <1>2, <1>3, <1>4 DEF Store, TypeOK
<1>5. CASE ExecuteArgument
  <2>1. clock' \in Time
    <3>1. clock \in 0 .. MaxClock /\ MaxClock \in Nat /\ clock' \in clock .. MaxClock
        BY <1>5, ClockAssumption DEF ExecuteArgument, TypeOK, Time
    <3>. QED
        BY <3>1 DEF Time
  <2>2. Executed(clock') \subseteq Token
      BY <2>1, ExecutedFacts DEF TypeOK
  <2>3. /\ [string |-> TRUE, text |-> Executed(clock')] \in Value
        /\ [string |-> TRUE, text |-> {}] \in Value
      BY <2>2 DEF Value, Text
  <2>. QED
      BY <1>3, <1>5, <2>3 DEF ExecuteArgument
<1>6. CASE StartAdd \/ Visit \/ NotFound \/ EndAdd \/ Descend \/ Evaluate \/ StartTemplate
           \/ Substitute \/ Again \/ ExecuteTemplate \/ KeepList \/ EndScript
    BY <1>1, <1>6 DEF StartAdd, Visit, NotFound, EndAdd, Descend, Evaluate, StartTemplate,
                     Substitute, Again, ExecuteTemplate, KeepList, EndScript
<1>7. CASE UNCHANGED vars
    BY <1>1, <1>7 DEF vars
<1>. QED
    BY <1>4, <1>5, <1>6, <1>7 DEF Next, Work, Over

\* No argument and no response changes a variable of the context or the
\* environment.
THEOREM EnvironmentProtected == Spec => []EnvironmentKept
BY EnvironmentInit, EnvironmentStep, OverriddenStep, TypeCorrect, PTL DEF Spec

-----------------------------------------------------------------------------
(* Errors of arguments *)

Fine(n) == n \notin DOMAIN Environment /\ (args[n].string => Bad \notin args[n].text)

\* What AddAll has visited could be evaluated, but for the argument it is at; and
\* substitution does not mend a template.
ErrorsSeen ==
    /\ (pc = "add" \/ (stack # << >> /\ pc # "done")) /\ Current.op = "args" =>
           \A n \in DOMAIN args \ todo : Fine(n) \/ (stack # << >> /\ n = stack[1])
    /\ pc = "apply" /\ stack # << >> =>
           args[Top].string /\ (Bad \in args[Top].text => Bad \in text)
    /\ pc = "apply" /\ stack = << >> => Current.op = "template"

EInv == ErrorsSeen /\ NoErrorLost

LEMMA ErrorsInit == Init => EInv
BY EmptySeq DEF Init, EInv, ErrorsSeen, NoErrorLost, Done

LEMMA ErrorsStep ==
    TypeOK /\ EnvironmentKept /\ NoneOverridden /\ EInv /\ [Next]_vars => EInv'
<1>. SUFFICES ASSUME TypeOK, EnvironmentKept, NoneOverridden, EInv, [Next]_vars PROVE EInv'
    OBVIOUS
<1>0. /\ Len(script) \in Nat /\ at \in Nat
      /\ \A n \in DOMAIN Environment : Overrides(n)
    BY NameAssumption, ScriptAssumption DEF TypeOK, Overrides, EnvironmentKept
<1>a. ASSUME script' = script, at' = at
      PROVE  Current' = Current /\ args' = args /\ \A n : Fine(n)' = Fine(n)
    BY <1>a DEF Current, args, Fine
<1>b. ASSUME pc' \notin {"step"} PROVE NoErrorLost'
    BY <1>b DEF NoErrorLost, Done
<1>c. ASSUME stack # << >>, pc # "done"
      PROVE  Len(stack) \in Nat \ {0} /\ Top \notin DOMAIN Environment
  <2>1. Len(stack) \in Nat \ {0}
      BY <1>c, EmptySeq, LenProperties DEF TypeOK
  <2>. QED
      BY <2>1 DEF NoneOverridden, Top
<1>1. CASE StartAdd
    BY <1>1, <1>a, <1>b DEF StartAdd, EInv, ErrorsSeen, TypeOK
<1>2. CASE Visit
  <2>1. PICK n \in todo :
            /\ todo' = todo \ {n}
            /\ \/ stack' = <<n>> /\ pc' = "frame"
               \/ Current.op = "args" /\ pc' = "done"
               \/ Current.op # "args" /\ UNCHANGED <<pc, stack>>
      BY <1>2 DEF Visit, ToVisit, Fail
  <2>2. stack = << >> /\ pc = "add"
      BY <1>2 DEF Visit, TypeOK
  <2>3. \A m \in DOMAIN args \ todo : Current.op = "args" => Fine(m)
      BY <2>2 DEF EInv, ErrorsSeen
  <2>4. ErrorsSeen'
    <3>1. CASE stack' = <<n>> /\ pc' = "frame"
      <4>1. stack' # << >> /\ stack'[1] = n
          BY <3>1
      <4>. QED
          BY <1>2, <1>a, <2>1, <2>3, <3>1, <4>1 DEF Visit, ErrorsSeen
    <3>2. CASE Current.op = "args" /\ pc' = "done"
        BY <3>2 DEF ErrorsSeen
    <3>3. CASE Current.op # "args" /\ UNCHANGED <<pc, stack>>
        BY <1>2, <1>a, <2>2, <3>3 DEF Visit, ErrorsSeen
    <3>. QED
        BY <2>1, <3>1, <3>2, <3>3
  <2>. QED
      BY <1>b, <2>1, <2>2, <2>4 DEF EInv
<1>3. CASE NotFound
    BY <1>3, <1>b DEF NotFound, Fail, EInv, ErrorsSeen
<1>4. CASE EndAdd
  <2>1. stack = << >> /\ todo = {} /\ pc = "add" /\ at' = at + 1 /\ script' = script
      BY <1>4 DEF EndAdd, TypeOK, ToVisit
  <2>2. \A n \in DOMAIN args : Current.op = "args" => Fine(n)
      BY <2>1 DEF EInv, ErrorsSeen
  <2>3. script'[at' - 1] = Current /\ Last' = args
      BY <1>0, <2>1 DEF Current, Last, args
  <2>4. NoErrorLost'
      BY <2>2, <2>3 DEF NoErrorLost, Done, Fine
  <2>5. ErrorsSeen'
      BY <1>4, <2>1 DEF EndAdd, ErrorsSeen, loopVars
  <2>. QED
      BY <2>4, <2>5 DEF EInv
<1>5. CASE Descend
  <2>1. PICK n \in RefersTo(Top) : stack' = IF Overrides(n) THEN stack ELSE Append(stack, n)
      BY <1>5 DEF Descend
  <2>2. n \in Name /\ stack \in Seq(Name) /\ stack # << >> /\ Len(stack) \in Nat \ {0}
      BY <1>5, <1>c, <2>1 DEF RefersTo, TypeOK, Descend
  <2>3. stack' # << >> /\ stack'[1] = stack[1]
      BY <2>1, <2>2, AppendProperties
  <2>. QED
      BY <1>5, <1>a, <1>b, <2>2, <2>3 DEF Descend, EInv, ErrorsSeen
<1>6. ASSUME Pop, stack # << >>, pc # "done", UNCHANGED <<script, at, todo>>,
             Len(stack) = 1 /\ Current.op = "args" => Fine(Top)
      PROVE  EInv'
  <2>1. /\ Len(stack) \in Nat \ {0} /\ Len(stack') = Len(stack) - 1
        /\ \A i \in 1 .. Len(stack') : stack'[i] = stack[i]
        /\ pc' = IF Len(stack) = 1 THEN "add" ELSE "frame"
        /\ pc' = "frame" => stack' # << >>
      BY <1>6, PopFacts DEF TypeOK
  <2>2. \A n \in DOMAIN args \ todo : Current.op = "args" => Fine(n) \/ n = stack[1]
      BY <1>6 DEF EInv, ErrorsSeen
  <2>3. CASE Len(stack) = 1
      BY <1>6, <1>a, <1>b, <2>1, <2>2, <2>3 DEF EInv, ErrorsSeen, Top
  <2>4. CASE Len(stack) # 1
    <3>1. stack'[1] = stack[1] /\ stack' # << >> /\ pc' = "frame"
        BY <2>1, <2>4
    <3>. QED
        BY <1>6, <1>a, <1>b, <2>2, <3>1 DEF EInv, ErrorsSeen
  <2>. QED
      BY <2>3, <2>4
<1>7. CASE Store
  <2>1. stack # << >> /\ pc # "done"
      BY <1>7 DEF Store, TypeOK
  <2>. QED
      BY <1>6, <1>7, <1>c, <2>1 DEF Store, Fine
<1>8. CASE Evaluate
  <2>1. stack # << >>
      BY <1>8 DEF Evaluate, TypeOK
  <2>2. Top' = Top
      BY <1>8 DEF Evaluate, Top, loopVars
  <2>. QED
      BY <1>8, <1>a, <1>b, <2>1, <2>2 DEF Evaluate, EInv, ErrorsSeen, loopVars
<1>9. CASE StartTemplate
    BY <1>9, <1>a, <1>b DEF StartTemplate, EInv, ErrorsSeen, loopVars, TypeOK
<1>10. CASE Substitute
  <2>1. PICK n \in left : text' = Assembled(n)
      BY <1>10 DEF Substitute
  <2>2. Bad \in text => Bad \in text'
      BY <2>1, TokenAssumption, AssembledFacts DEF TypeOK, IsArguments
  <2>3. Top' = Top
      BY <1>10 DEF Substitute, Top, loopVars
  <2>. QED
      BY <1>10, <1>a, <1>b, <2>2, <2>3 DEF Substitute, EInv, ErrorsSeen, loopVars
<1>11. CASE Again
  <2>1. Top' = Top
      BY <1>11 DEF Again, Top, loopVars
  <2>. QED
      BY <1>11, <1>a, <1>b, <2>1 DEF Again, EInv, ErrorsSeen, loopVars
<1>12. CASE ExecuteArgument
  <2>1. stack # << >> /\ pc = "apply" /\ UNCHANGED <<script, at, todo>>
      BY <1>12 DEF ExecuteArgument
  <2>2. CASE Bad \notin text /\ Pop
    <3>1. Fine(Top)
        BY <1>c, <2>1, <2>2 DEF EInv, ErrorsSeen, Fine
    <3>. QED
        BY <1>6, <2>1, <2>2, <3>1
  <2>3. CASE Fail
      BY <1>b, <2>3 DEF Fail, EInv, ErrorsSeen
  <2>4. CASE (Len(stack) # 1 \/ Current.op # "args") /\ Pop
      BY <1>6, <2>1, <2>4
  <2>. QED
      BY <1>12, <2>2, <2>3, <2>4 DEF ExecuteArgument
<1>13. CASE ExecuteTemplate
  <2>1. Current.op = "template" /\ stack = << >> /\ stack' = << >>
      BY <1>13 DEF ExecuteTemplate, EInv, ErrorsSeen, loopVars
  <2>2. CASE Fail
      BY <1>b, <2>2 DEF Fail, EInv, ErrorsSeen
  <2>3. CASE at' = at + 1 /\ pc' = "step"
    <3>1. script'[at' - 1] = Current
        BY <1>0, <1>13, <2>3 DEF ExecuteTemplate, Current
    <3>. QED
        BY <2>1, <2>3, <3>1 DEF EInv, ErrorsSeen, NoErrorLost, Done
  <2>. QED
      BY <1>13, <2>2, <2>3 DEF ExecuteTemplate
<1>14. CASE KeepList
  <2>1. script'[at' - 1] = Current /\ Current.op = "list" /\ stack' = << >> /\ pc' = "step"
      BY <1>0, <1>14 DEF KeepList, Current, loopVars, TypeOK
  <2>. QED
      BY <2>1 DEF EInv, ErrorsSeen, NoErrorLost, Done
<1>15. CASE EndScript
    BY <1>15, <1>b DEF EndScript, EInv, ErrorsSeen
<1>16. CASE UNCHANGED vars
  <2>1. Top' = Top /\ Last' = Last /\ Done("args")' = Done("args")
      BY <1>16 DEF vars, loopVars, Top, Last, Done
  <2>. QED
      BY <1>16, <1>a, <2>1 DEF vars, loopVars, passVars, EInv, ErrorsSeen, NoErrorLost
<1>. QED
    BY <1>1, <1>2, <1>3, <1>4, <1>5, <1>7, <1>8, <1>9, <1>10, <1>11, <1>12, <1>13, <1>14, <1>15,
       <1>16 DEF Next, Work, Over

\* AddAll returns no error only if each of its arguments is a valid template and
\* overrides nothing, whatever order it added them in.
THEOREM ErrorsReported == Spec => []NoErrorLost
<1>1. EInv => NoErrorLost
    BY DEF EInv
<1>. QED
    BY <1>1, ErrorsInit, ErrorsStep, EnvironmentInit, EnvironmentStep, OverriddenStep, TypeCorrect,
       PTL DEF Spec

-----------------------------------------------------------------------------
(* The steps that the invariants below have in common *)

\* AddAll or remember is at work.
InStep == pc = "add" \/ (stack # << >> /\ pc # "done")
OnStack == {stack[i] : i \in 1 .. Len(stack)}

\* The argument being added, and the step it is in.
LEMMA TopFacts ==
    ASSUME TypeOK, stack # << >>, pc # "done"
    PROVE  /\ Len(stack) \in Nat \ {0} /\ at \in 1 .. Len(script) /\ Len(script) \in Nat
           /\ Current.op \in {"args", "body", "headers"}
           /\ DOMAIN args \subseteq Name /\ args \in [DOMAIN args -> Value]
           /\ Top \in DOMAIN args /\ Top \in Name /\ args[Top] \in Value
           /\ Top \in OnStack /\ OnStack \subseteq DOMAIN args
<1>1. Len(stack) \in Nat \ {0} /\ Len(stack) \in 1 .. Len(stack)
    BY EmptySeq, LenProperties DEF TypeOK
<1>2. Len(script) \in Nat /\ at \in 1 .. Len(script)
    BY ScriptAssumption DEF TypeOK
<1>3. Top \in DOMAIN args /\ Top \in OnStack /\ OnStack \subseteq DOMAIN args
    BY <1>1 DEF TypeOK, Top, OnStack
<1>4. DOMAIN args \subseteq Name /\ args \in [DOMAIN args -> Value]
    BY <1>2, StepFacts DEF TypeOK
<1>. QED
    BY <1>1, <1>2, <1>3, <1>4 DEF TypeOK

\* The end of an argument: its value is put into the items, and it leaves the stack
\* unless AddAll fails.
LEMMA ValueFacts ==
    ASSUME TypeOK, Store \/ ExecuteArgument
    PROVE  /\ stack # << >> /\ pc # "done"
           /\ IsArguments(items') /\ DOMAIN items' = DOMAIN items \cup {Top}
           /\ \A m \in DOMAIN items : m # Top => items'[m] = items[m]
           /\ Fail \/ (Pop /\ UNCHANGED failed)
           /\ UNCHANGED <<script, at, used, todo, scope, text, left, pass, out>>
           /\ Current' = Current /\ args' = args
<1>1. stack # << >> /\ pc # "done" /\ UNCHANGED <<script, at, used, todo, scope, text, left, pass, out>>
    BY DEF Store, ExecuteArgument, TypeOK, passVars
<1>2. \E v \in Value : items' = Put(Top, v)
  <2>1. CASE Store
      BY <1>1, <2>1, TopFacts DEF Store
  <2>2. CASE ExecuteArgument
    <3>1. clock' \in Time
      <4>1. clock \in 0 .. MaxClock /\ MaxClock \in Nat /\ clock' \in clock .. MaxClock
          BY <2>2, ClockAssumption DEF ExecuteArgument, TypeOK, Time
      <4>. QED
          BY <4>1 DEF Time
    <3>2. Executed(clock') \subseteq Token
        BY <3>1, ExecutedFacts DEF TypeOK
    <3>3. /\ [string |-> TRUE, text |-> Executed(clock')] \in Value
          /\ [string |-> TRUE, text |-> {}] \in Value
        BY <3>2 DEF Value, Text
    <3>. QED
        BY <2>2, <3>3 DEF ExecuteArgument
  <2>. QED
      BY <2>1, <2>2
<1>3. PICK v \in Value : items' = Put(Top, v)
    BY <1>2
<1>4. /\ IsArguments(items') /\ DOMAIN items' = DOMAIN items \cup {Top}
      /\ \A m \in DOMAIN items : m # Top => items'[m] = items[m]
    BY <1>1, <1>3, TopFacts, PutFacts DEF TypeOK
<1>5. Fail \/ (Pop /\ UNCHANGED failed)
    BY DEF Store, ExecuteArgument
<1>6. Current' = Current /\ args' = args
    BY <1>1 DEF Current, args
<1>. QED
    BY <1>1, <1>4, <1>5, <1>6

-----------------------------------------------------------------------------
(* Placeholders *)

\* A placeholder of a known variable is in the text only until the pass reaches it,
\* or because another value has it.
Substituted ==
    pc = "apply" =>
        \A n \in text \cap DOMAIN items : n \in left \/ \E m \in DOMAIN items : n \in items[m].text

\* What an evaluated text may be, with the variables of its moment.
GoodOutput ==
    {o \in [op : Operation, text : SUBSET Token, items : UNION {[names -> Value] : names \in SUBSET Name}] :
         \A n \in o.text \cap DOMAIN o.items :
             o.op = "list" \/ \E m \in DOMAIN o.items : n \in o.items[m].text}

PInv == Substituted /\ out \in Seq(GoodOutput)

LEMMA PlaceholderInit == Init => PInv
BY EmptySeq DEF Init, PInv, Substituted

LEMMA PlaceholderStep == TypeOK /\ EInv /\ PInv /\ [Next]_vars => PInv'
<1>. SUFFICES ASSUME TypeOK, EInv, PInv, [Next]_vars PROVE PInv'
    OBVIOUS
<1>1. CASE pc' # "apply" /\ UNCHANGED out
    BY <1>1 DEF PInv, Substituted
<1>2. CASE Evaluate \/ StartTemplate \/ Again
  <2>1. left' = DOMAIN items /\ UNCHANGED <<items, out>>
      BY <1>2 DEF Evaluate, StartTemplate, Again, Visible
  <2>. QED
      BY <2>1 DEF PInv, Substituted
<1>3. CASE Substitute
  <2>1. PICK n \in left : left' = left \ {n} /\ text' = Assembled(n) /\ UNCHANGED <<items, out>>
      BY <1>3 DEF Substitute
  <2>2. n \in DOMAIN items /\ pc = "apply"
      BY <1>3, <2>1 DEF TypeOK, Substitute
  <2>3. ASSUME NEW m \in text' \cap DOMAIN items
        PROVE  m \in left' \/ \E k \in DOMAIN items : m \in items[k].text
      BY <2>1, <2>2 DEF PInv, Substituted, Assembled
  <2>. QED
      BY <2>1, <2>3 DEF PInv, Substituted
<1>4. CASE Store \/ ExecuteArgument
  <2>1. pc' # "apply" /\ UNCHANGED out
      BY <1>4, ValueFacts DEF Pop, Fail
  <2>. QED
      BY <1>1, <2>1
<1>5. ASSUME NEW o, o.op \in Operation, o.text \subseteq Token, o = [op |-> o.op, text |-> o.text, items |-> items],
             \A n \in o.text \cap DOMAIN items :
                 o.op = "list" \/ \E m \in DOMAIN items : n \in items[m].text
      PROVE  o \in GoodOutput
  <2>1. items \in UNION {[names -> Value] : names \in SUBSET Name} /\ o.items = items
      BY <1>5 DEF TypeOK, IsArguments
  <2>. QED
      BY <1>5, <2>1 DEF GoodOutput
<1>6. CASE ExecuteTemplate
  <2>1. CASE out' = Append(out, Output(Executed(clock'))) /\ pc' = "step"
    <3>. DEFINE o == Output(Executed(clock'))
    <3>1. pc = "apply" /\ left = {} /\ Current.op = "template" /\ clock' \in Time
      <4>1. clock \in 0 .. MaxClock /\ MaxClock \in Nat /\ clock' \in clock .. MaxClock
          BY <1>6, ClockAssumption DEF ExecuteTemplate, TypeOK, Time
      <4>. QED
          BY <1>6, <4>1 DEF ExecuteTemplate, EInv, ErrorsSeen, Time
    <3>2. o = [op |-> Current.op, text |-> Executed(clock'), items |-> items]
        BY DEF Output
    <3>3. Executed(clock') \subseteq Token
        BY <3>1, ExecutedFacts DEF TypeOK
    <3>4. ASSUME NEW n \in Executed(clock') \cap DOMAIN items
          PROVE  \E m \in DOMAIN items : n \in items[m].text
      <4>1. n \in Name /\ n \notin Time
          BY TokenAssumption DEF TypeOK, IsArguments
      <4>2. n \in text
          BY <3>1, <4>1 DEF Executed
      <4>. QED
          BY <3>1, <4>2 DEF PInv, Substituted
    <3>. HIDE DEF o
    <3>5. o \in GoodOutput
        BY <1>5, <3>1, <3>2, <3>3, <3>4 DEF Operation
    <3>6. out' \in Seq(GoodOutput)
        BY <2>1, <3>5, AppendProperties DEF PInv, o
    <3>. QED
        BY <2>1, <3>6 DEF PInv, Substituted
  <2>2. CASE Fail /\ UNCHANGED out
      BY <1>1, <2>2 DEF Fail
  <2>. QED
      BY <1>6, <2>1, <2>2 DEF ExecuteTemplate
<1>7. CASE KeepList
  <2>. DEFINE o == Output(Current.text)
  <2>1. Current.op = "list" /\ Current.text \subseteq Token /\ pc' = "step"
    <3>1. at \in 1 .. Len(script)
        BY <1>7, ScriptAssumption DEF KeepList, TypeOK
    <3>. QED
        BY <1>7, <3>1, StepFacts DEF KeepList, TypeOK
  <2>2. o = [op |-> Current.op, text |-> Current.text, items |-> items]
      BY DEF Output
  <2>3. out' = Append(out, o)
      BY <1>7 DEF KeepList
  <2>. HIDE DEF o
  <2>4. o \in GoodOutput
      BY <1>5, <2>1, <2>2 DEF Operation
  <2>5. out' \in Seq(GoodOutput)
      BY <2>3, <2>4, AppendProperties DEF PInv
  <2>. QED
      BY <2>1, <2>5 DEF PInv, Substituted
<1>8. CASE StartAdd \/ Visit \/ NotFound \/ EndAdd \/ Descend \/ EndScript
  <2>1. pc' # "apply" /\ UNCHANGED out
      BY <1>8 DEF StartAdd, Visit, NotFound, EndAdd, Descend, EndScript, Fail
  <2>. QED
      BY <1>1, <2>1
<1>9. CASE UNCHANGED vars
    BY <1>9 DEF vars, passVars, PInv, Substituted
<1>. QED
    BY <1>2, <1>3, <1>4, <1>6, <1>7, <1>8, <1>9 DEF Next, Work, Over

\* A text that is sent or compared holds no placeholder of a variable known at that
\* time, but for those in arrays and those that the value of a variable brought.
THEOREM PlaceholdersReplaced == Spec => []NoPlaceholderLeft
<1>1. PInv => NoPlaceholderLeft
  <2>1. ASSUME out \in Seq(GoodOutput), NEW i \in 1 .. Len(out) PROVE out[i] \in GoodOutput
      BY <2>1
  <2>. QED
      BY <2>1 DEF PInv, NoPlaceholderLeft, GoodOutput
<1>. QED
    BY <1>1, PlaceholderInit, PlaceholderStep, ErrorsInit, ErrorsStep, EnvironmentInit,
       EnvironmentStep, OverriddenStep, TypeCorrect, PTL DEF Spec

-----------------------------------------------------------------------------
(* Which names exist *)

\* Every name that has been processed is in the items, or is being processed.
Placed ==
    /\ scope \subseteq todo
    /\ \A i \in 1 .. at - 1 :
           script[i].op \in {"args", "body"} => DOMAIN script[i].args \subseteq DOMAIN items
    /\ InStep /\ Current.op \in {"args", "body"} => DOMAIN args \ todo \subseteq DOMAIN items \cup OnStack
    /\ InStep /\ Current.op = "args" =>
           \A n \in DOMAIN args \ scope :
               \/ n \in OnStack
               \/ n \in DOMAIN items /\ (args[n].string \/ items[n] = args[n] \/ n \in todo)
    /\ pc = "apply" /\ stack # << >> => args[Top].string /\ args[Top].text \cap scope = {}

LEMMA PlacedInit == Init => Placed
BY EmptySeq DEF Init, Placed, InStep

\* What the end of an argument leaves on the stack.
LEMMA OnStackFacts ==
    ASSUME TypeOK, BoundedRecursion, stack # << >>, Pop
    PROVE  /\ OnStack' = OnStack \ {Top}
           /\ Top \in OnStack
           /\ InStep'
           /\ pc' # "apply" /\ pc' # "done" /\ pc' # "step"
<1>1. /\ Len(stack) \in Nat \ {0} /\ Len(stack') = Len(stack) - 1
      /\ \A i \in 1 .. Len(stack') : stack'[i] = stack[i]
      /\ pc' = IF Len(stack) = 1 THEN "add" ELSE "frame"
      /\ pc' = "frame" => stack' # << >>
    BY PopFacts DEF TypeOK
<1>2. \A i \in 1 .. Len(stack) : stack[i] = Top => i = Len(stack)
    BY <1>1 DEF BoundedRecursion, Top
<1>3. OnStack' = {stack[i] : i \in 1 .. Len(stack) - 1}
    BY <1>1 DEF OnStack
<1>4. Len(stack) \in 1 .. Len(stack)
    BY <1>1
<1>. QED
    BY <1>1, <1>2, <1>3, <1>4 DEF OnStack, Top, InStep

\* What a name that is added first puts on the stack.
LEMMA PushedFacts ==
    ASSUME TypeOK, NEW n \in Name, stack' = Append(stack, n)
    PROVE  /\ stack' # << >> /\ Len(stack') = Len(stack) + 1 /\ Len(stack) \in Nat
           /\ \A i \in 1 .. Len(stack) : stack'[i] = stack[i]
           /\ stack'[Len(stack) + 1] = n
           /\ OnStack' = OnStack \cup {n}
           /\ Top' = n
<1>1. /\ Len(stack') = Len(stack) + 1 /\ Len(stack) \in Nat
      /\ \A i \in 1 .. Len(stack) : stack'[i] = stack[i]
      /\ stack'[Len(stack) + 1] = n
      /\ stack' \in Seq(Name)
    BY AppendProperties DEF TypeOK
<1>2. stack' # << >>
    BY <1>1, EmptySeq
<1>3. OnStack' = OnStack \cup {n}
    BY <1>1 DEF OnStack
<1>4. Top' = n
    BY <1>1 DEF Top
<1>. QED
    BY <1>1, <1>2, <1>3, <1>4

LEMMA PlacedStep == TypeOK /\ BoundedRecursion /\ EInv /\ Placed /\ [Next]_vars => Placed'
<1>. SUFFICES ASSUME TypeOK, BoundedRecursion, EInv, Placed, [Next]_vars PROVE Placed'
    OBVIOUS
<1>0. Len(script) \in Nat /\ at \in Nat /\ Len(stack) \in Nat
    BY ScriptAssumption, LenProperties DEF TypeOK
<1>a. ASSUME script' = script, at' = at PROVE Current' = Current /\ args' = args
    BY <1>a DEF Current, args
<1>b. ASSUME UNCHANGED stack PROVE OnStack' = OnStack /\ Top' = Top
    BY <1>b DEF OnStack, Top
<1>1. CASE StartAdd
  <2>1. /\ UNCHANGED <<script, at, items, stack>> /\ Current' = Current /\ args' = args
        /\ pc' = "add" /\ stack' = << >> /\ OnStack' = {}
    <3>1. stack' = << >> /\ Len(stack') = 0
        BY <1>1, EmptySeq DEF StartAdd, TypeOK
    <3>. QED
        BY <1>1, <1>a, <3>1 DEF StartAdd, OnStack
  <2>2. /\ scope' \subseteq todo'
        /\ Current.op \in {"args", "body"} => todo' = DOMAIN args
        /\ Current.op = "args" => scope' = DOMAIN args
      BY <1>1 DEF StartAdd
  <2>. QED
      BY <2>1, <2>2 DEF Placed
<1>2. CASE Visit
  <2>1. PICK n \in todo :
            /\ todo' = todo \ {n} /\ scope' = scope \ {n}
            /\ \/ stack' = <<n>> /\ pc' = "frame"
               \/ Current.op = "args" /\ pc' = "done" /\ UNCHANGED stack
               \/ Overrides(n) /\ Current.op # "args" /\ UNCHANGED <<pc, stack>>
      BY <1>2 DEF Visit, ToVisit, Without, Fail
  <2>2. /\ UNCHANGED <<script, at, items>> /\ Current' = Current /\ args' = args
        /\ pc = "add" /\ stack = << >> /\ OnStack = {} /\ InStep
    <3>1. stack = << >> /\ Len(stack) = 0
        BY <1>2, EmptySeq DEF Visit, TypeOK
    <3>. QED
        BY <1>2, <1>a, <3>1 DEF Visit, OnStack, InStep
  <2>3. CASE stack' = <<n>> /\ pc' = "frame"
    <3>1. OnStack' = {n}
      <4>1. Len(stack') = 1 /\ stack'[1] = n
          BY <2>3
      <4>. QED
          BY <4>1 DEF OnStack
    <3>. QED
        BY <2>1, <2>2, <2>3, <3>1 DEF Placed
  <2>4. CASE pc' = "done" /\ UNCHANGED stack
      BY <2>1, <2>2, <2>4 DEF Placed, InStep
  <2>5. CASE Overrides(n) /\ Current.op # "args" /\ UNCHANGED <<pc, stack>>
    <3>1. OnStack' = {} /\ n \in DOMAIN items
        BY <1>b, <2>2, <2>5 DEF Overrides
    <3>. QED
        BY <2>1, <2>2, <2>5, <3>1 DEF Placed
  <2>. QED
      BY <2>1, <2>3, <2>4, <2>5
<1>3. CASE NotFound
    BY <1>3, <1>a DEF NotFound, Fail, Placed, InStep, loopVars
<1>4. CASE EndAdd
  <2>1. /\ stack = << >> /\ OnStack = {} /\ todo = {} /\ pc = "add" /\ InStep
        /\ at' = at + 1 /\ pc' = "step" /\ UNCHANGED <<script, items, scope, todo, stack>>
    <3>1. stack = << >> /\ Len(stack) = 0
        BY <1>4, EmptySeq DEF EndAdd, TypeOK
    <3>. QED
        BY <1>4, <3>1 DEF EndAdd, OnStack, InStep, ToVisit, loopVars
  <2>2. Current.op \in {"args", "body"} => DOMAIN args \subseteq DOMAIN items
      BY <2>1 DEF Placed
  <2>3. ASSUME NEW i \in 1 .. at' - 1, script[i].op \in {"args", "body"}
        PROVE  DOMAIN script[i].args \subseteq DOMAIN items
    <3>1. CASE i \in 1 .. at - 1
        BY <2>3, <3>1 DEF Placed
    <3>2. CASE i = at
        BY <2>2, <2>3, <3>2 DEF Current, args
    <3>. QED
        BY <1>0, <2>1, <3>1, <3>2
  <2>4. ~InStep'
      BY <2>1 DEF InStep
  <2>5. scope' \subseteq todo'
      BY <2>1 DEF Placed
  <2>. QED
      BY <2>1, <2>3, <2>4, <2>5 DEF Placed
<1>5. CASE Descend
  <2>1. PICK n \in RefersTo(Top) :
            /\ scope' = scope \ {n}
            /\ stack' = IF Overrides(n) THEN stack ELSE Append(stack, n)
      BY <1>5 DEF Descend, Without
  <2>2. /\ UNCHANGED <<script, at, pc, items, todo>> /\ Current' = Current /\ args' = args
        /\ pc = "frame" /\ InStep
      BY <1>5, <1>a DEF Descend, InStep, TypeOK
  <2>3. n \in scope /\ n \in Name /\ n \in todo
      BY <2>1 DEF RefersTo, TypeOK, Placed
  <2>4. /\ OnStack \subseteq OnStack'
        /\ n \in OnStack' \/ n \in DOMAIN items
    <3>1. CASE Overrides(n)
        BY <1>b, <2>1, <3>1 DEF Overrides
    <3>2. CASE ~Overrides(n)
      <4>1. stack' = Append(stack, n)
          BY <2>1, <3>2
      <4>. QED
          BY <2>3, <4>1, PushedFacts
    <3>. QED
        BY <3>1, <3>2
  <2>. QED
      BY <2>1, <2>2, <2>3, <2>4 DEF Placed
<1>6. CASE Store \/ ExecuteArgument
  <2>1. /\ stack # << >> /\ pc # "done" /\ InStep
        /\ DOMAIN items' = DOMAIN items \cup {Top}
        /\ \A m \in DOMAIN items : m # Top => items'[m] = items[m]
        /\ Fail \/ Pop
        /\ UNCHANGED <<script, at, todo, scope>>
        /\ Current' = Current /\ args' = args
      BY <1>6, ValueFacts DEF InStep
  <2>2. \A i \in 1 .. at - 1 :
           script[i].op \in {"args", "body"} => DOMAIN script[i].args \subseteq DOMAIN items'
      BY <2>1 DEF Placed
  <2>3. CASE Fail
      BY <2>1, <2>2, <2>3 DEF Placed, InStep, Fail
  <2>4. CASE Pop
    <3>1. OnStack' = OnStack \ {Top} /\ pc' # "apply"
        BY <2>1, <2>4, OnStackFacts
    <3>2. args[Top].string \/ items'[Top] = args[Top]
      <4>1. CASE Store
          BY <2>1, <4>1, TopFacts DEF Store, Put
      <4>2. CASE ExecuteArgument
          BY <2>1, <4>2 DEF ExecuteArgument, Placed
      <4>. QED
          BY <1>6, <4>1, <4>2
    <3>3. ASSUME Current.op = "args", NEW n \in DOMAIN args \ scope, n \notin OnStack'
          PROVE  n \in DOMAIN items' /\ (args[n].string \/ items'[n] = args[n] \/ n \in todo)
      <4>1. CASE n = Top
          BY <2>1, <3>2, <4>1
      <4>2. CASE n # Top
          BY <2>1, <3>1, <3>3, <4>2 DEF Placed
      <4>. QED
          BY <4>1, <4>2
    <3>4. Current.op \in {"args", "body"} => DOMAIN args \ todo \subseteq DOMAIN items' \cup OnStack'
        BY <2>1, <3>1 DEF Placed
    <3>. QED
        BY <2>1, <2>2, <3>1, <3>3, <3>4 DEF Placed
  <2>. QED
      BY <2>1, <2>3, <2>4
<1>7. CASE Evaluate
  <2>1. /\ UNCHANGED <<script, at, items, todo, scope, stack>> /\ Current' = Current /\ args' = args
        /\ OnStack' = OnStack /\ Top' = Top /\ stack # << >> /\ InStep
        /\ args[Top].string /\ args[Top].text \cap scope = {}
      BY <1>7, <1>a, <1>b DEF Evaluate, loopVars, TypeOK, InStep, RefersTo
  <2>. QED
      BY <2>1 DEF Placed
<1>8. CASE StartTemplate
  <2>1. /\ UNCHANGED <<script, at, items, todo, scope, stack>> /\ stack = << >> /\ pc' = "apply"
      BY <1>8 DEF StartTemplate, loopVars, TypeOK
  <2>. QED
      BY <2>1 DEF Placed, InStep
<1>9. CASE Substitute \/ Again
  <2>1. /\ UNCHANGED <<script, at, items, todo, scope, stack, pc>> /\ Current' = Current /\ args' = args
        /\ OnStack' = OnStack /\ Top' = Top
      BY <1>9, <1>a, <1>b DEF Substitute, Again, loopVars
  <2>. QED
      BY <2>1 DEF Placed, InStep
<1>10. ASSUME Current.op \notin {"args", "body"}, at' = at + 1, pc' = "step",
              stack = << >>, UNCHANGED <<script, items, todo, scope, stack>>
       PROVE  Placed'
  <2>1. ASSUME NEW i \in 1 .. at' - 1, script[i].op \in {"args", "body"}
        PROVE  DOMAIN script[i].args \subseteq DOMAIN items
    <3>1. i # at
        BY <1>10, <2>1 DEF Current
    <3>2. i \in 1 .. at - 1
        BY <1>0, <1>10, <3>1
    <3>. QED
        BY <2>1, <3>2 DEF Placed
  <2>2. ~InStep' /\ ~(pc' = "apply")
      BY <1>10 DEF InStep
  <2>. QED
      BY <1>10, <2>1, <2>2 DEF Placed
<1>11. CASE ExecuteTemplate
  <2>1. Current.op = "template" /\ stack = << >> /\ UNCHANGED <<script, items, todo, scope, stack>>
      BY <1>11 DEF ExecuteTemplate, EInv, ErrorsSeen, loopVars
  <2>2. CASE at' = at + 1 /\ pc' = "step"
      BY <1>10, <2>1, <2>2
  <2>3. CASE Fail /\ UNCHANGED at
      BY <2>1, <2>3 DEF Fail, Placed, InStep
  <2>. QED
      BY <1>11, <2>2, <2>3 DEF ExecuteTemplate
<1>12. CASE KeepList
  <2>1. Current.op = "list" /\ stack = << >>
      BY <1>12 DEF KeepList, TypeOK
  <2>. QED
      BY <1>10, <1>12, <2>1 DEF KeepList, loopVars
<1>13. CASE EndScript
    BY <1>13 DEF EndScript, Placed, InStep, TypeOK, loopVars
<1>14. CASE UNCHANGED vars
  <2>1. UNCHANGED <<script, at, items, todo, scope, stack, pc>> /\ Current' = Current /\ args' = args
        /\ OnStack' = OnStack /\ Top' = Top
      BY <1>14, <1>a, <1>b DEF vars, loopVars
  <2>. QED
      BY <2>1 DEF Placed, InStep
<1>. QED
    BY <1>1, <1>2, <1>3, <1>4, <1>5, <1>6, <1>7, <1>8, <1>9, <1>11, <1>12, <1>13, <1>14
       DEF Next, Work, Over

LEMMA PlacedAlways == Spec => [](TypeOK /\ BoundedRecursion /\ EInv /\ Placed)
BY PlacedInit, PlacedStep, ErrorsInit, ErrorsStep, EnvironmentInit, EnvironmentStep, OverriddenStep,
   RecursionBounded, TypeCorrect, PTL DEF Spec

-----------------------------------------------------------------------------
(* Where names come from *)

\* The number of steps of the test case that have begun.
Begun == IF pc = "step" THEN at - 1 ELSE at

LEMMA BegunFacts ==
    ASSUME TypeOK, [Next]_vars
    PROVE  /\ script' = script /\ Begun \in Nat
           /\ pc # "done" /\ pc' # "done" => Begun' = Begun \/ (pc = "step" /\ Begun' = Begun + 1)
           /\ pc = "done" => pc' = "done"
           /\ pc' \notin {"step", "done"} => Begun' = at
<1>1. at \in Nat \ {0}
    BY ScriptAssumption DEF TypeOK
<1>2. CASE StartAdd \/ StartTemplate \/ KeepList \/ EndScript
    BY <1>1, <1>2 DEF StartAdd, StartTemplate, KeepList, EndScript, Begun
<1>3. CASE Visit \/ NotFound \/ Descend \/ Evaluate \/ Substitute \/ Again
    BY <1>1, <1>3 DEF Visit, NotFound, Descend, Evaluate, Substitute, Again, Fail, Begun
<1>4. CASE Store \/ ExecuteArgument
  <2>1. /\ pc # "done" /\ pc # "step" /\ UNCHANGED <<script, at>>
        /\ pc' # "step"
      BY <1>4, ValueFacts DEF Store, ExecuteArgument, Pop, Fail
  <2>. QED
      BY <1>1, <2>1 DEF Begun
<1>5. CASE EndAdd \/ ExecuteTemplate
    BY <1>1, <1>5 DEF EndAdd, ExecuteTemplate, Fail, Begun
<1>6. CASE UNCHANGED vars
    BY <1>1, <1>6 DEF vars, Begun
<1>. QED
    BY <1>2, <1>3, <1>4, <1>5, <1>6 DEF Next, Work, Over

\* What is mentioned stays so.
LEMMA MentionedFacts ==
    ASSUME NEW k \in Nat
    PROVE  /\ MentionedBy(k) \subseteq MentionedBy(k + 1)
           /\ k > 0 => Mentions(script[k]) \subseteq MentionedBy(k)
<1>1. 1 .. k \subseteq 1 .. k + 1
    OBVIOUS
<1>2. k > 0 => k \in 1 .. k
    OBVIOUS
<1>. QED
    BY <1>1, <1>2, Zenon DEF MentionedBy

\* No name comes from nowhere: those in the values and in the text, and those that
\* are used, are in what the test case has mentioned by then, or the environment.
Traced ==
    pc # "done" =>
        /\ \A n \in DOMAIN items : items[n].text \cap Name \subseteq MentionedBy(Begun)
        /\ pc = "apply" => text \cap Name \subseteq MentionedBy(Begun)
        /\ used \subseteq MentionedBy(Begun)

LEMMA TracedInit == Init => Traced
<1>. SUFFICES ASSUME Init PROVE Traced
    OBVIOUS
<1>1. items = Environment /\ pc = "step" /\ used = {}
    BY DEF Init
<1>2. \A n \in DOMAIN items : items[n].text \subseteq MentionedBy(Begun)
    BY <1>1, Zenon DEF MentionedBy
<1>. QED
    BY <1>1, <1>2 DEF Traced

LEMMA TracedStep == TypeOK /\ Traced /\ [Next]_vars => Traced'
<1>. SUFFICES ASSUME TypeOK, Traced, [Next]_vars, pc # "done", pc' # "done" PROVE Traced'
    BY BegunFacts DEF Traced
<1>. DEFINE M == MentionedBy(Begun)
            N == M'
<1>1. /\ script' = script /\ at \in Nat \ {0} /\ Begun \in Nat
      /\ Begun' = Begun \/ (pc = "step" /\ Begun' = Begun + 1)
    BY BegunFacts, ScriptAssumption DEF TypeOK
<1>2. \A k : MentionedBy(k)' = MentionedBy(k)
    BY <1>1 DEF MentionedBy
<1>3. M \subseteq N
  <2>1. N = MentionedBy(Begun')
      BY <1>1 DEF MentionedBy
  <2>2. CASE Begun' = Begun
      BY <2>1, <2>2
  <2>3. CASE Begun' = Begun + 1
      BY <1>1, <2>1, <2>3, MentionedFacts
  <2>. QED
      BY <1>1, <2>2, <2>3
<1>4. pc' # "step" => Mentions(Current) \subseteq N
  <2>. SUFFICES ASSUME pc' # "step" PROVE Mentions(Current) \subseteq N
      OBVIOUS
  <2>1. N = MentionedBy(Begun')
      BY <1>1 DEF MentionedBy
  <2>2. Begun' = at
      BY BegunFacts
  <2>. QED
      BY <1>1, <2>1, <2>2, MentionedFacts DEF Current
<1>5. /\ \A n \in DOMAIN items : items[n].text \cap Name \subseteq N
      /\ pc = "apply" => text \cap Name \subseteq N
      /\ used \subseteq N
    BY <1>3 DEF Traced
<1>6. /\ Current.op = "template" => Current.text \subseteq Mentions(Current)
      /\ \A n \in DOMAIN args : args[n].text \subseteq Mentions(Current)
    BY Zenon DEF Mentions, args
<1>. HIDE DEF M, N
<1>7. SUFFICES ASSUME \/ \E n \in DOMAIN items' : ~(items'[n].text \cap Name \subseteq N)
                      \/ pc' = "apply" /\ ~(text' \cap Name \subseteq N)
                      \/ ~(used' \subseteq N)
               PROVE  FALSE
    BY DEF Traced, M, N
<1>8. CASE Substitute
  <2>1. PICK n \in left : text' = Assembled(n) /\ used' = used \cup Mark(n)
      BY <1>8 DEF Substitute
  <2>2. pc = "apply" /\ UNCHANGED items /\ n \in DOMAIN items /\ n \in Name
      BY <1>8, <2>1 DEF Substitute, TypeOK, IsArguments
  <2>3. text' \cap Name \subseteq N
      BY <1>5, <2>1, <2>2 DEF Assembled
  <2>4. used' \subseteq N
      BY <1>5, <2>1, <2>2 DEF Mark, Changes
  <2>. QED
      BY <1>5, <1>7, <2>2, <2>3, <2>4
<1>9. CASE Store \/ ExecuteArgument
  <2>1. /\ stack # << >> /\ pc' # "apply" /\ pc' # "step" /\ UNCHANGED used
        /\ DOMAIN items' = DOMAIN items \cup {Top}
        /\ \A m \in DOMAIN items : m # Top => items'[m] = items[m]
        /\ Top \in DOMAIN args
      BY <1>9, ValueFacts, TopFacts DEF Pop, Fail
  <2>2. items'[Top].text \cap Name \subseteq N
    <3>1. CASE Store
      <4>1. items'[Top] = args[Top]
          BY <3>1 DEF Store, Put
      <4>. QED
          BY <1>4, <1>6, <2>1, <4>1
    <3>2. CASE ExecuteArgument
      <4>1. /\ items'[Top].text = {} \/ items'[Top].text = Executed(clock')
            /\ pc = "apply"
          BY <3>2 DEF ExecuteArgument, Put
      <4>2. clock' \in Time
        <5>1. clock \in 0 .. MaxClock /\ MaxClock \in Nat /\ clock' \in clock .. MaxClock
            BY <3>2, ClockAssumption DEF ExecuteArgument, TypeOK, Time
        <5>. QED
            BY <5>1 DEF Time
      <4>3. Executed(clock') \cap Name \subseteq text
          BY <4>2, TokenAssumption DEF Executed
      <4>. QED
          BY <1>5, <4>1, <4>3
    <3>. QED
        BY <1>9, <3>1, <3>2
  <2>. QED
      BY <1>5, <1>7, <2>1, <2>2
<1>10. CASE Evaluate
  <2>1. stack # << >> /\ text' = args[Top].text /\ UNCHANGED <<items, used>> /\ pc' # "step"
      BY <1>10 DEF Evaluate, TypeOK
  <2>2. Top \in DOMAIN args
      BY <2>1, TopFacts
  <2>. QED
      BY <1>4, <1>5, <1>6, <1>7, <2>1, <2>2
<1>11. CASE StartTemplate
  <2>1. /\ Current.op = "template" /\ text' = Current.text /\ UNCHANGED <<items, used>>
        /\ pc' # "step"
      BY <1>11 DEF StartTemplate
  <2>. QED
      BY <1>4, <1>5, <1>6, <1>7, <2>1
<1>12. CASE StartAdd \/ Visit \/ NotFound \/ EndAdd \/ Descend \/ ExecuteTemplate \/ KeepList \/ EndScript
  <2>1. pc' # "apply" /\ UNCHANGED <<items, used>>
      BY <1>12 DEF StartAdd, Visit, NotFound, EndAdd, Descend, ExecuteTemplate, KeepList,
                   EndScript, Fail
  <2>. QED
      BY <1>5, <1>7, <2>1
<1>13. CASE Again
    BY <1>5, <1>7, <1>13 DEF Again
<1>14. CASE UNCHANGED vars
    BY <1>5, <1>7, <1>14 DEF vars, passVars
<1>. QED
    BY <1>8, <1>9, <1>10, <1>11, <1>12, <1>13, <1>14 DEF Next, Work, Over

-----------------------------------------------------------------------------
(* Variables without a circle *)

\* The rank of a variable is above those in each value it has been given.
Above(rank) ==
    /\ Ranked(rank, Environment)
    /\ \A i \in 1 .. Begun : Ranked(rank, script[i].args)

\* Then it is above those in the value it has; and the ranks of the arguments that
\* are being added go down, as do those in the text that is evaluated.
Descending(rank) ==
    /\ Ranked(rank, items)
    /\ \A i, j \in 1 .. Len(stack) : i < j => rank[stack[j]] < rank[stack[i]]
    /\ pc = "apply" /\ stack # << >> => \A m \in text \cap Name : rank[m] < rank[Top]

RInv == pc # "done" => \A rank \in [Name -> Int] : Above(rank) => Descending(rank)

LEMMA AboveFacts ==
    ASSUME TypeOK, [Next]_vars, pc # "done", pc' # "done", NEW rank, Above(rank)'
    PROVE  /\ Above(rank)
           /\ pc' # "step" => Ranked(rank, args)
<1>1. /\ script' = script /\ at \in Nat \ {0} /\ Begun \in Nat
      /\ Begun' = Begun \/ Begun' = Begun + 1
      /\ pc' # "step" => Begun' = at
    BY BegunFacts, ScriptAssumption DEF TypeOK
<1>2. Ranked(rank, Environment) /\ \A i \in 1 .. Begun' : Ranked(rank, script[i].args)
  <2>. DEFINE R(a) == Ranked(rank, a)
  <2>1. R(Environment) /\ \A i \in 1 .. Begun' : R(script'[i].args)
      BY DEF Above, Ranked
  <2>. QED
      BY <1>1, <2>1
<1>3. 1 .. Begun \subseteq 1 .. Begun' /\ (pc' # "step" => at \in 1 .. Begun')
    BY <1>1
<1>. QED
    BY <1>2, <1>3 DEF Above, args, Current

LEMMA RankInit == Init => RInv
<1>. SUFFICES ASSUME Init PROVE RInv
    OBVIOUS
<1>1. items = Environment /\ stack = << >> /\ Len(stack) = 0 /\ pc = "step"
    BY EmptySeq DEF Init
<1>. QED
    BY <1>1 DEF RInv, Above, Descending

LEMMA RankStep == TypeOK /\ BoundedRecursion /\ RInv /\ [Next]_vars => RInv'
<1>. SUFFICES ASSUME TypeOK, BoundedRecursion, RInv, [Next]_vars, pc # "done", pc' # "done",
                     NEW rank \in [Name -> Int], Above(rank)'
              PROVE  Descending(rank)'
    BY BegunFacts DEF RInv
<1>1. Descending(rank) /\ (pc' # "step" => Ranked(rank, args))
    BY AboveFacts DEF RInv
<1>2. /\ Ranked(rank, items)
      /\ \A i, j \in 1 .. Len(stack) : i < j => rank[stack[j]] < rank[stack[i]]
      /\ pc = "apply" /\ stack # << >> => \A m \in text \cap Name : rank[m] < rank[Top]
    BY <1>1 DEF Descending
<1>3. CASE UNCHANGED <<items, stack>> /\ pc' # "apply"
    BY <1>2, <1>3 DEF Descending, Ranked
<1>4. CASE UNCHANGED items /\ Len(stack') \in {0, 1} /\ pc' # "apply"
    BY <1>2, <1>4 DEF Descending, Ranked
<1>5. CASE Visit
  <2>1. stack = << >> /\ Len(stack) = 0
      BY <1>5, EmptySeq DEF Visit, TypeOK
  <2>2. PICK n \in todo : stack' = <<n>> \/ stack' = stack
      BY <1>5 DEF Visit, ToVisit
  <2>3. Len(stack') \in {0, 1}
      BY <2>1, <2>2
  <2>4. pc' # "apply" /\ UNCHANGED items
      BY <1>5 DEF Visit, Fail
  <2>. QED
      BY <1>4, <2>3, <2>4
<1>6. CASE Descend
  <2>1. PICK n \in RefersTo(Top) : stack' = IF Overrides(n) THEN stack ELSE Append(stack, n)
      BY <1>6 DEF Descend
  <2>2. pc' = "frame" /\ UNCHANGED items /\ stack # << >>
      BY <1>6 DEF Descend, TypeOK
  <2>3. CASE Overrides(n)
      BY <1>3, <2>1, <2>2, <2>3
  <2>4. CASE ~Overrides(n)
    <3>1. n \in Name /\ n \in args[Top].text /\ Top \in DOMAIN args
        BY <2>1, <2>2, TopFacts DEF RefersTo, TypeOK
    <3>2. rank[n] < rank[Top]
        BY <1>1, <2>2, <3>1 DEF Ranked
    <3>3. /\ Len(stack') = Len(stack) + 1 /\ Len(stack) \in Nat \ {0}
          /\ \A i \in 1 .. Len(stack) : stack'[i] = stack[i]
          /\ stack'[Len(stack) + 1] = n
      <4>1. stack' = Append(stack, n)
          BY <2>1, <2>4
      <4>. QED
          BY <2>2, <3>1, <4>1, PushedFacts, TopFacts
    <3>4. \A i \in 1 .. Len(stack) : stack[i] \in Name
        BY DEF TypeOK
    <3>5. \A i \in 1 .. Len(stack) : rank[n] < rank[stack[i]]
      <4>1. Top = stack[Len(stack)] /\ Len(stack) \in 1 .. Len(stack)
          BY <3>3 DEF Top
      <4>2. ASSUME NEW i \in 1 .. Len(stack) PROVE rank[n] < rank[stack[i]]
        <5>1. CASE i = Len(stack)
            BY <3>2, <4>1, <5>1
        <5>2. CASE i < Len(stack)
          <6>1. rank[Top] < rank[stack[i]]
              BY <1>2, <4>1, <5>2
          <6>2. rank[Top] \in Int /\ rank[n] \in Int /\ rank[stack[i]] \in Int
              BY <3>1, <3>4, <4>1
          <6>. QED
              BY <3>2, <6>1, <6>2
        <5>. QED
            BY <3>3, <5>1, <5>2
      <4>. QED
          BY <4>2
    <3>6. \A i, j \in 1 .. Len(stack') : i < j => rank[stack'[j]] < rank[stack'[i]]
        BY <1>2, <3>3, <3>5
    <3>. QED
        BY <1>2, <2>2, <3>6 DEF Descending, Ranked
  <2>. QED
      BY <2>3, <2>4
<1>7. CASE Store \/ ExecuteArgument
  <2>1. /\ stack # << >> /\ pc' # "apply" /\ pc' # "step"
        /\ IsArguments(items') /\ DOMAIN items' = DOMAIN items \cup {Top}
        /\ \A m \in DOMAIN items : m # Top => items'[m] = items[m]
        /\ Top \in DOMAIN args /\ Pop
      BY <1>7, ValueFacts, TopFacts DEF Pop, Fail
  <2>2. /\ Len(stack') = Len(stack) - 1 /\ Len(stack) \in Nat
        /\ \A i \in 1 .. Len(stack') : stack'[i] = stack[i]
      BY <2>1, PopFacts DEF TypeOK
  <2>3. \A m \in items'[Top].text \cap Name : rank[m] < rank[Top]
    <3>1. CASE Store
      <4>1. items'[Top] = args[Top]
          BY <3>1 DEF Store, Put
      <4>. QED
          BY <1>1, <2>1, <4>1 DEF Ranked
    <3>2. CASE ExecuteArgument
      <4>1. /\ items'[Top].text = {} \/ items'[Top].text = Executed(clock')
            /\ pc = "apply"
          BY <3>2 DEF ExecuteArgument, Put
      <4>2. clock' \in Time
        <5>1. clock \in 0 .. MaxClock /\ MaxClock \in Nat /\ clock' \in clock .. MaxClock
            BY <3>2, ClockAssumption DEF ExecuteArgument, TypeOK, Time
        <5>. QED
            BY <5>1 DEF Time
      <4>3. Executed(clock') \cap Name \subseteq text
          BY <4>2, TokenAssumption DEF Executed
      <4>. QED
          BY <1>2, <2>1, <4>1, <4>3
    <3>. QED
        BY <1>7, <3>1, <3>2
  <2>4. Ranked(rank, items')
      BY <1>2, <2>1, <2>3 DEF Ranked
  <2>5. \A i, j \in 1 .. Len(stack') : i < j => rank[stack'[j]] < rank[stack'[i]]
      BY <1>2, <2>2
  <2>. QED
      BY <2>1, <2>4, <2>5 DEF Descending, Ranked
<1>8. CASE Evaluate
  <2>1. /\ stack # << >> /\ text' = args[Top].text /\ UNCHANGED <<items, stack>> /\ pc' = "apply"
        /\ Top' = Top
      BY <1>8 DEF Evaluate, TypeOK, loopVars, Top
  <2>2. \A m \in text' \cap Name : rank[m] < rank[Top]
      BY <1>1, <2>1, TopFacts DEF Ranked
  <2>. QED
      BY <1>2, <2>1, <2>2 DEF Descending, Ranked
<1>9. CASE StartTemplate
  <2>1. stack' = << >> /\ Len(stack') = 0 /\ UNCHANGED items
      BY <1>9, EmptySeq DEF StartTemplate, TypeOK, loopVars
  <2>. QED
      BY <1>2, <2>1 DEF Descending, Ranked
<1>10. CASE Substitute
  <2>1. PICK n \in left : text' = Assembled(n)
      BY <1>10 DEF Substitute
  <2>2. /\ UNCHANGED <<items, stack>> /\ pc = "apply" /\ n \in DOMAIN items /\ n \in Name
        /\ Top' = Top
      BY <1>10, <2>1 DEF Substitute, TypeOK, loopVars, IsArguments, Top
  <2>3. ASSUME stack # << >>, NEW m \in text' \cap Name PROVE rank[m] < rank[Top]
    <3>1. CASE m \in text
        BY <1>2, <2>2, <2>3, <3>1
    <3>2. CASE m \in items[n].text /\ n \in text
      <4>1. rank[m] < rank[n] /\ rank[n] < rank[Top]
          BY <1>2, <2>2, <2>3, <3>2 DEF Ranked
      <4>2. rank[m] \in Int /\ rank[n] \in Int /\ rank[Top] \in Int
          BY <2>2, <2>3, TopFacts
      <4>. QED
          BY <4>1, <4>2
    <3>. QED
        BY <2>1, <2>3, <3>1, <3>2 DEF Assembled
  <2>. QED
      BY <1>2, <2>2, <2>3 DEF Descending, Ranked
<1>11. CASE StartAdd \/ NotFound \/ EndAdd \/ ExecuteTemplate \/ KeepList \/ EndScript
  <2>1. pc' # "apply" /\ UNCHANGED <<items, stack>>
      BY <1>11 DEF StartAdd, NotFound, EndAdd, ExecuteTemplate, KeepList, EndScript, Fail, loopVars
  <2>. QED
      BY <1>3, <2>1
<1>12. CASE Again
  <2>1. UNCHANGED <<items, stack, text, pc>> /\ Top' = Top
      BY <1>12 DEF Again, loopVars, Top
  <2>. QED
      BY <1>2, <2>1 DEF Descending, Ranked
<1>13. CASE UNCHANGED vars
  <2>1. UNCHANGED <<items, stack, text, pc>> /\ Top' = Top
      BY <1>13 DEF vars, loopVars, passVars, Top
  <2>. QED
      BY <1>2, <2>1 DEF Descending, Ranked
<1>. QED
    BY <1>5, <1>6, <1>7, <1>8, <1>9, <1>10, <1>11, <1>12, <1>13 DEF Next, Work, Over

-----------------------------------------------------------------------------
(* Which names are used *)

\* What a step has to mark: the names it evaluates that are known by then, unless
\* they may have been added afterwards.
DueNow(n) ==
    {x \in args[n].text : /\ x \in DOMAIN items \cup Declared(at) /\ x \notin Reserved
                          /\ x \in DOMAIN args => x \in Declared(at)}
DueBefore(i) ==
    {x \in Evaluated(script[i]) : /\ x \in DOMAIN items /\ x \notin Reserved
                                  /\ x \in Added(i, Begun) => x \in Declared(i)}

\* A name in the text as it was given is used by now, or the pass is still to come
\* to it; arguments that were added, and steps that are done, marked what they had to.
Original == IF stack = << >> THEN Current.text ELSE args[Top].text
TextMarked == pc = "apply" => Original \cap UserDefined \subseteq used \cup (text \cap left)
NowMarked ==
    InStep => \A n \in Sure(Current) \ todo :
                  (stack # << >> /\ n = stack[1]) \/ DueNow(n) \subseteq used
BeforeMarked == \A i \in 1 .. at - 1 : DueBefore(i) \subseteq used

MInv ==
    pc # "done" /\ (\E rank \in [Name -> Int] : Above(rank)) =>
        TextMarked /\ NowMarked /\ BeforeMarked

LEMMA MarkedInit == Init => MInv
<1>. SUFFICES ASSUME Init PROVE MInv
    OBVIOUS
<1>1. at = 1 /\ pc = "step" /\ stack = << >>
    BY DEF Init
<1>. QED
    BY <1>1 DEF MInv, TextMarked, NowMarked, BeforeMarked, InStep

\* What is declared by a step that is done is in the items.
LEMMA DeclaredFacts ==
    ASSUME TypeOK, Placed
    PROVE  /\ \A i \in 1 .. at - 1 : Declared(i) \subseteq DOMAIN items
           /\ \A x \in Declared(at) : x \in DOMAIN items \/ (Current.op = "args" /\ x \in DOMAIN args)
<1>1. at \in Nat \ {0}
    BY ScriptAssumption DEF TypeOK
<1>2. ASSUME NEW i \in 1 .. at, NEW x \in Declared(i)
      PROVE  x \in DOMAIN items \/ (i = at /\ Current.op = "args" /\ x \in DOMAIN args)
  <2>1. PICK j \in 1 .. i : /\ script[j].op = "args" \/ (script[j].op = "body" /\ j < i)
                            /\ x \in DOMAIN script[j].args
      BY <1>2 DEF Declared
  <2>2. CASE j = at
      BY <1>1, <2>1, <2>2 DEF Current, args
  <2>3. CASE j # at
    <3>1. j \in 1 .. at - 1
        BY <1>1, <2>1, <2>3
    <3>. QED
        BY <2>1, <3>1 DEF Placed
  <2>. QED
      BY <2>2, <2>3
<1>3. \A i \in 1 .. at - 1 : i \in 1 .. at /\ i # at
    BY <1>1
<1>4. at \in 1 .. at
    BY <1>1
<1>. QED
    BY <1>2, <1>3, <1>4

\* What is due does not grow, for only the current step adds names.
LEMMA DueFacts ==
    ASSUME TypeOK, Placed, [Next]_vars, pc # "done", pc' # "done",
           \A y \in DOMAIN items' \ DOMAIN items : pc' # "step" /\ y \in DOMAIN args
    PROVE  /\ \A i \in 1 .. at - 1 : DueBefore(i)' \subseteq DueBefore(i)
           /\ at' = at => \A n : DueNow(n)' \subseteq DueNow(n)
<1>1. /\ script' = script /\ at \in Nat \ {0} /\ Begun \in Nat
      /\ Begun' = Begun \/ Begun' = Begun + 1
      /\ pc' # "step" => Begun' = at
      /\ Begun \in {at - 1, at}
    BY BegunFacts, ScriptAssumption DEF TypeOK, Begun
<1>2. ASSUME NEW i \in 1 .. at - 1, NEW x \in DueBefore(i)' PROVE x \in DueBefore(i)
  <2>1. /\ x \in Evaluated(script[i]) /\ x \in DOMAIN items' /\ x \notin Reserved
        /\ (\E j \in i .. Begun' : x \in DOMAIN script[j].args) => x \in Declared(i)
    <3>1. Declared(i)' = Declared(i)
        BY <1>1 DEF Declared
    <3>2. (\E j \in i .. Begun' : x \in DOMAIN script[j].args) => x \in Added(i, Begun)'
        BY <1>1 DEF Added
    <3>3. script'[i] = script[i]
        BY <1>1
    <3>. QED
        BY <3>1, <3>2, <3>3 DEF DueBefore, Evaluated, Sure
  <2>2. x \in Added(i, Begun) => \E j \in i .. Begun' : x \in DOMAIN script[j].args
    <3>1. i .. Begun \subseteq i .. Begun'
        BY <1>1
    <3>. QED
        BY <3>1 DEF Added
  <2>3. x \in DOMAIN items
    <3>1. CASE x \in DOMAIN items
        BY <3>1
    <3>2. CASE x \notin DOMAIN items
      <4>1. at \in i .. Begun' /\ x \in DOMAIN script[at].args
          BY <1>1, <2>1, <3>2 DEF args, Current
      <4>2. x \in Declared(i)
          BY <2>1, <4>1
      <4>. QED
          BY <4>2, DeclaredFacts
    <3>. QED
        BY <3>1, <3>2
  <2>. QED
      BY <2>1, <2>2, <2>3 DEF DueBefore
<1>3. ASSUME at' = at, NEW n, NEW x \in DueNow(n)' PROVE x \in DueNow(n)
  <2>1. Declared(at)' = Declared(at) /\ args' = args
      BY <1>1, <1>3 DEF Declared, args, Current
  <2>. QED
      BY <2>1, <1>3 DEF DueNow
<1>. QED
    BY <1>2, <1>3

LEMMA MarkedStep ==
    TypeOK /\ BoundedRecursion /\ EInv /\ Placed /\ RInv /\ MInv /\ [Next]_vars => MInv'
<1>. SUFFICES ASSUME TypeOK, BoundedRecursion, EInv, Placed, RInv, MInv, [Next]_vars,
                     pc # "done", pc' # "done", NEW rank \in [Name -> Int], Above(rank)'
              PROVE  (TextMarked /\ NowMarked /\ BeforeMarked)'
    BY BegunFacts DEF MInv
<1>1. /\ Descending(rank) /\ (pc' # "step" => Ranked(rank, args))
      /\ TextMarked /\ NowMarked /\ BeforeMarked
    BY AboveFacts DEF RInv, MInv
<1>2. /\ script' = script /\ at \in Nat \ {0}
      /\ at' = at => Current' = Current /\ args' = args
    BY BegunFacts, ScriptAssumption DEF TypeOK, Current, args
<1>3. ASSUME UNCHANGED at, used \subseteq used',
             \A y \in DOMAIN items' \ DOMAIN items : pc' # "step" /\ y \in DOMAIN args
      PROVE  BeforeMarked' /\ \A n : DueNow(n)' \subseteq DueNow(n)
  <2>1. /\ \A i \in 1 .. at - 1 : DueBefore(i)' \subseteq DueBefore(i)
        /\ \A n : DueNow(n)' \subseteq DueNow(n)
      BY <1>3, DueFacts
  <2>. QED
      BY <1>1, <1>3, <2>1 DEF BeforeMarked
<1>4. ASSUME UNCHANGED <<script, at>>, used \subseteq used', InStep,
             \A n : DueNow(n)' \subseteq DueNow(n),
             \A n \in Sure(Current) \ todo' :
                 \/ n \notin todo /\ ~(stack # << >> /\ n = stack[1])
                 \/ stack' # << >> /\ n = stack'[1]
                 \/ DueNow(n)' \subseteq used'
      PROVE  NowMarked'
  <2>1. ASSUME NEW n \in Sure(Current) \ todo', ~(stack' # << >> /\ n = stack'[1])
        PROVE  DueNow(n)' \subseteq used'
      BY <1>1, <1>4, <2>1 DEF NowMarked
  <2>2. Sure(Current)' = Sure(Current)
      BY <1>2, <1>4 DEF Sure
  <2>. QED
      BY <2>1, <2>2 DEF NowMarked
<1>5. CASE StartAdd
  <2>1. /\ UNCHANGED <<script, at, items, used>> /\ pc' = "add" /\ Current' = Current
        /\ Current.op = "headers" \/ todo' = DOMAIN args
      BY <1>2, <1>5 DEF StartAdd
  <2>2. Sure(Current) \ todo' = {} /\ Sure(Current)' = Sure(Current)
      BY <2>1 DEF Sure, args
  <2>. QED
      BY <1>3, <2>1, <2>2 DEF TextMarked, NowMarked
<1>6. CASE StartTemplate
  <2>1. /\ UNCHANGED <<at, items, used>> /\ stack' = << >> /\ pc' = "apply" /\ Current' = Current
        /\ text' = Current.text /\ left' = DOMAIN items
      BY <1>2, <1>6 DEF StartTemplate, loopVars, TypeOK, Visible
  <2>. QED
      BY <1>3, <2>1 DEF TextMarked, NowMarked, Original, UserDefined, InStep
<1>7. CASE Evaluate
  <2>1. /\ UNCHANGED <<script, at, items, used, todo, stack>> /\ stack # << >> /\ pc' = "apply"
        /\ InStep /\ Top' = Top /\ args' = args /\ text' = args[Top].text /\ left' = DOMAIN items
      BY <1>2, <1>7 DEF Evaluate, loopVars, TypeOK, Visible, InStep, Top
  <2>2. TextMarked'
      BY <2>1 DEF TextMarked, Original, UserDefined
  <2>. QED
      BY <1>3, <1>4, <2>1, <2>2
<1>8. CASE Visit
  <2>1. PICK n \in todo :
            /\ todo' = todo \ {n}
            /\ \/ stack' = <<n>>
               \/ Overrides(n) /\ Current.op # "args" /\ UNCHANGED stack
      BY <1>8 DEF Visit, ToVisit, Fail
  <2>2. /\ UNCHANGED <<script, at, items, used>> /\ pc' # "apply" /\ InStep /\ stack = << >>
      BY <1>8 DEF Visit, Fail, InStep, TypeOK
  <2>3. stack' = <<n>> => stack' # << >> /\ stack'[1] = n
      OBVIOUS
  <2>4. Overrides(n) /\ Current.op # "args" => n \notin Sure(Current)
      BY DEF Overrides, Sure
  <2>5. NowMarked'
      BY <1>3, <1>4, <2>1, <2>2, <2>3, <2>4
  <2>. QED
      BY <1>3, <2>2, <2>5 DEF TextMarked
<1>9. CASE Descend
  <2>1. PICK n \in RefersTo(Top) : stack' = IF Overrides(n) THEN stack ELSE Append(stack, n)
      BY <1>9 DEF Descend
  <2>2. /\ UNCHANGED <<script, at, items, used, todo, pc>> /\ pc' # "apply" /\ InStep /\ stack # << >>
      BY <1>9 DEF Descend, InStep, TypeOK
  <2>3. stack' # << >> /\ stack'[1] = stack[1]
    <3>1. n \in Name
        BY <2>1 DEF RefersTo, TypeOK
    <3>2. Len(stack) \in Nat \ {0}
        BY <2>2, TopFacts
    <3>3. stack' = stack \/ stack' = Append(stack, n)
        BY <2>1
    <3>. QED
        BY <2>2, <3>1, <3>2, <3>3, PushedFacts
  <2>4. NowMarked'
      BY <1>3, <1>4, <2>2, <2>3
  <2>. QED
      BY <1>3, <2>2, <2>4 DEF TextMarked
<1>10. CASE Substitute
  <2>1. PICK n \in left : left' = left \ {n} /\ text' = Assembled(n) /\ used' = used \cup Mark(n)
      BY <1>10 DEF Substitute
  <2>2. /\ UNCHANGED <<script, at, items, todo, stack, pc>> /\ pc = "apply"
        /\ Top' = Top /\ Current' = Current /\ args' = args
      BY <1>2, <1>10 DEF Substitute, loopVars, Top
  <2>3. n \in DOMAIN items /\ n \in Name /\ n \notin items[n].text
    <3>1. n \in DOMAIN items /\ n \in Name /\ rank[n] \in Int
        BY DEF TypeOK, IsArguments
    <3>. QED
        BY <1>1, <3>1 DEF Descending, Ranked
  <2>4. n \in text /\ n \in UserDefined => n \in used'
      BY <2>1, <2>3 DEF Mark, Changes
  <2>5. \A x \in text : x # n => x \in text'
      BY <2>1 DEF Assembled
  <2>6. TextMarked'
    <3>1. Original' = Original /\ UserDefined' = UserDefined
        BY <2>2 DEF Original, UserDefined
    <3>. QED
        BY <1>1, <2>1, <2>2, <2>4, <2>5, <3>1 DEF TextMarked
  <2>7. NowMarked'
    <3>1. CASE InStep
        BY <1>3, <1>4, <2>1, <2>2, <3>1
    <3>2. CASE ~InStep
        BY <2>2, <3>2 DEF NowMarked, InStep
    <3>. QED
        BY <3>1, <3>2
  <2>. QED
      BY <1>3, <2>1, <2>2, <2>6, <2>7
<1>11. CASE Again
  <2>1. /\ UNCHANGED <<script, at, items, used, todo, stack, text, pc>> /\ pc = "apply" /\ left = {}
        /\ Top' = Top /\ Current' = Current /\ args' = args
      BY <1>2, <1>11 DEF Again, loopVars, Top
  <2>2. TextMarked'
    <3>1. Original' = Original /\ UserDefined' = UserDefined
        BY <2>1 DEF Original, UserDefined
    <3>. QED
        BY <1>1, <2>1, <3>1 DEF TextMarked
  <2>3. NowMarked'
    <3>1. CASE InStep
        BY <1>3, <1>4, <2>1, <3>1
    <3>2. CASE ~InStep
        BY <2>1, <3>2 DEF NowMarked, InStep
    <3>. QED
        BY <3>1, <3>2
  <2>. QED
      BY <1>3, <2>1, <2>2, <2>3
<1>12. CASE Store \/ ExecuteArgument
  <2>1. /\ stack # << >> /\ pc # "done" /\ DOMAIN items' = DOMAIN items \cup {Top} /\ Pop
        /\ UNCHANGED <<script, at, used, todo, text, left>> /\ Current' = Current /\ args' = args
      BY <1>12, ValueFacts DEF Fail
  <2>2. /\ Len(stack) \in Nat \ {0} /\ Top \in DOMAIN args /\ Top \in Name
        /\ InStep /\ pc' # "apply" /\ pc' # "step"
      BY <1>12, <2>1, TopFacts, OnStackFacts DEF InStep
  <2>3. BeforeMarked' /\ \A n : DueNow(n)' \subseteq DueNow(n)
      BY <1>3, <2>1, <2>2
  <2>4. CASE Len(stack) > 1
    <3>1. Len(stack') = Len(stack) - 1 /\ \A i \in 1 .. Len(stack') : stack'[i] = stack[i]
        BY <2>1, PopFacts DEF TypeOK
    <3>2. stack' # << >> /\ stack'[1] = stack[1]
      <4>1. Len(stack') # 0
          BY <2>2, <2>4, <3>1
      <4>. QED
          BY <2>2, <2>4, <3>1, <4>1, EmptySeq
    <3>. QED
        BY <1>4, <2>1, <2>2, <2>3, <3>2 DEF TextMarked
  <2>5. CASE Len(stack) = 1
    <3>1. stack[1] = Top /\ OnStack = {Top}
        BY <2>5 DEF Top, OnStack
    <3>2. ASSUME NEW n \in Sure(Current), n = Top, NEW x \in DueNow(n)' PROVE x \in used
      <4>1. /\ x \in args[Top].text /\ x \in DOMAIN items' \cup Declared(at) /\ x \notin Reserved
            /\ x \in DOMAIN args => x \in Declared(at)
        <5>1. Declared(at)' = Declared(at)
            BY <2>1 DEF Declared
        <5>. QED
            BY <2>1, <3>2, <5>1 DEF DueNow
      <4>2. x \in DOMAIN items' \/ (Current.op = "args" /\ x \in DOMAIN args)
          BY <2>1, <4>1, DeclaredFacts
      <4>3. x \in Name
          BY <2>1, <2>2, <4>2, TopFacts DEF TypeOK, IsArguments
      <4>4. x # Top
        <5>1. rank[x] < rank[Top] /\ rank[Top] \in Int
            BY <1>1, <2>2, <4>1, <4>3 DEF Ranked
        <5>. QED
            BY <5>1
      <4>5. ExecuteArgument
        <5>1. args[Top].string
            BY <3>2 DEF Sure, args
        <5>. QED
            BY <1>12, <5>1 DEF Store
      <4>6. pc = "apply" /\ left = {}
          BY <4>5 DEF ExecuteArgument
      <4>7. CASE x \in DOMAIN items
          BY <1>1, <2>1, <4>1, <4>6, <4>7 DEF TextMarked, Original, UserDefined
      <4>8. CASE x \notin DOMAIN items
        <5>1. Current.op = "args" /\ x \in DOMAIN args
            BY <2>1, <4>2, <4>4, <4>8
        <5>2. x \notin scope
            BY <2>1, <4>1, <4>6 DEF Placed
        <5>. QED
            BY <2>2, <3>1, <4>4, <4>8, <5>1, <5>2 DEF Placed
      <4>. QED
          BY <4>7, <4>8
    <3>3. \A n \in Sure(Current) \ todo' :
              \/ n \notin todo /\ ~(stack # << >> /\ n = stack[1])
              \/ DueNow(n)' \subseteq used'
        BY <2>1, <3>1, <3>2
    <3>4. NowMarked'
        BY <1>4, <2>1, <2>2, <2>3, <3>3
    <3>. QED
        BY <2>2, <2>3, <3>4 DEF TextMarked
  <2>6. Len(stack) > 1 \/ Len(stack) = 1
    <3>1. \A k \in Nat \ {0} : k > 1 \/ k = 1
        OBVIOUS
    <3>. QED
        BY <2>2, <3>1
  <2>. QED
      BY <2>4, <2>5, <2>6
<1>13. ASSUME at' = at + 1, pc' = "step", stack' = << >>, UNCHANGED <<items, used>>,
              \A x \in Evaluated(Current) \cap UserDefined :
                  (x \in DOMAIN args => x \in Declared(at)) => x \in used
       PROVE  (TextMarked /\ NowMarked /\ BeforeMarked)'
  <2>1. Begun' = at
      BY <1>2, <1>13 DEF Begun
  <2>2. ASSUME NEW i \in 1 .. at' - 1, NEW x \in DueBefore(i)' PROVE x \in used
    <3>1. CASE i = at
      <4>1. /\ x \in Evaluated(Current) /\ x \in DOMAIN items /\ x \notin Reserved
            /\ x \in Added(at, at) => x \in Declared(at)
        <5>1. /\ script'[i] = Current
              /\ Declared(i)' = Declared(at) /\ Added(i, Begun)' = Added(at, at)
            BY <1>2, <2>1, <3>1 DEF Declared, Added, Current
        <5>. QED
            BY <1>13, <2>2, <5>1 DEF DueBefore, Evaluated, Sure
      <4>2. x \in DOMAIN args => x \in Added(at, at)
          BY <1>2 DEF Added, args, Current
      <4>. QED
          BY <1>13, <4>1, <4>2 DEF UserDefined
    <3>2. CASE i # at
      <4>1. i \in 1 .. at - 1
          BY <1>2, <1>13, <3>2
      <4>2. DueBefore(i)' \subseteq DueBefore(i)
          BY <1>13, <4>1, DueFacts
      <4>. QED
          BY <1>1, <2>2, <4>1, <4>2 DEF BeforeMarked
    <3>. QED
        BY <3>1, <3>2
  <2>3. BeforeMarked'
      BY <1>13, <2>2 DEF BeforeMarked
  <2>. QED
      BY <1>13, <2>3 DEF TextMarked, NowMarked, InStep
<1>14. CASE EndAdd
  <2>1. /\ at' = at + 1 /\ pc' = "step" /\ stack' = << >> /\ UNCHANGED <<items, used>>
        /\ stack = << >> /\ todo = {} /\ InStep /\ Current.op \in {"args", "body", "headers"}
      BY <1>14 DEF EndAdd, ToVisit, TypeOK, loopVars, InStep
  <2>2. ASSUME NEW x \in Evaluated(Current) \cap UserDefined, x \in DOMAIN args => x \in Declared(at)
        PROVE  x \in used
    <3>1. PICK n \in Sure(Current) : x \in args[n].text
        BY <2>1, <2>2 DEF Evaluated, args
    <3>2. x \in DueNow(n)
        BY <2>2, <3>1 DEF DueNow, UserDefined
    <3>. QED
        BY <1>1, <2>1, <3>1, <3>2 DEF NowMarked
  <2>. QED
      BY <1>13, <2>1, <2>2
<1>15. CASE ExecuteTemplate
  <2>1. /\ at' = at + 1 /\ pc' = "step" /\ stack' = << >> /\ UNCHANGED <<items, used>>
        /\ stack = << >> /\ pc = "apply" /\ left = {}
      BY <1>15 DEF ExecuteTemplate, loopVars, Fail
  <2>2. Current.op = "template"
      BY <2>1 DEF EInv, ErrorsSeen
  <2>3. Evaluated(Current) \subseteq Current.text
      BY <2>2 DEF Evaluated, Sure
  <2>4. Evaluated(Current) \cap UserDefined \subseteq used
      BY <1>1, <2>1, <2>3 DEF TextMarked, Original
  <2>. QED
      BY <1>13, <2>1, <2>4
<1>16. CASE KeepList
  <2>1. /\ at' = at + 1 /\ pc' = "step" /\ UNCHANGED <<items, used>> /\ stack' = << >>
        /\ Current.op = "list"
      BY <1>16 DEF KeepList, loopVars, TypeOK
  <2>2. Evaluated(Current) = {}
      BY <2>1 DEF Evaluated, Sure
  <2>. QED
      BY <1>13, <2>1, <2>2
<1>17. CASE UNCHANGED vars
  <2>1. /\ UNCHANGED <<script, at, items, used, todo, stack, text, left, pc>>
        /\ Top' = Top /\ Current' = Current /\ args' = args
      BY <1>2, <1>17 DEF vars, loopVars, passVars, Top
  <2>2. TextMarked'
    <3>1. Original' = Original /\ UserDefined' = UserDefined
        BY <2>1 DEF Original, UserDefined
    <3>. QED
        BY <1>1, <2>1, <3>1 DEF TextMarked
  <2>3. NowMarked'
    <3>1. CASE InStep
        BY <1>3, <1>4, <2>1, <3>1
    <3>2. CASE ~InStep
        BY <2>1, <3>2 DEF NowMarked, InStep
    <3>. QED
        BY <3>1, <3>2
  <2>. QED
      BY <1>3, <2>1, <2>2, <2>3
<1>18. CASE NotFound \/ EndScript
    BY <1>18 DEF NotFound, EndScript, Fail
<1>. QED
    BY <1>5, <1>6, <1>7, <1>8, <1>9, <1>10, <1>11, <1>12, <1>14, <1>15, <1>16, <1>17, <1>18
       DEF Next, Work, Over

\* After steps without an error the used variables exist and are mentioned, and each
\* one that is mentioned where it is known is used, in whatever order the maps are
\* iterated.
THEOREM UsedAreMentioned == Spec => []UsedIsMentioned
<1>1. TypeOK /\ Traced /\ MInv => UsedIsMentioned
  <2>. SUFFICES ASSUME TypeOK, Traced, MInv, pc = "step" PROVE
            /\ used \subseteq MentionedBy(at - 1) \cap UserDefined
            /\ NoCircle => MentionedInScope \cap UserDefined \subseteq used
      BY DEF UsedIsMentioned
  <2>1. Begun = at - 1
      BY DEF Begun
  <2>2. used \subseteq MentionedBy(at - 1) \cap UserDefined
      BY <2>1 DEF Traced, TypeOK
  <2>3. ASSUME NoCircle, NEW x \in MentionedInScope \cap UserDefined PROVE x \in used
    <3>1. Cardinality(Name) \in Nat
        BY NameAssumption, FS_CardinalityType
    <3>2. PICK rank \in [Name -> 1 .. Cardinality(Name)] :
              Ranked(rank, Environment) /\ \A i \in 1 .. at - 1 : Ranked(rank, script[i].args)
        BY <2>3 DEF NoCircle
    <3>3. rank \in [Name -> Int] /\ Above(rank)
        BY <2>1, <3>1, <3>2 DEF Above
    <3>4. BeforeMarked
        BY <3>3 DEF MInv
    <3>5. PICK i \in 1 .. at - 1 : x \in Evaluated(script[i]) \ (Added(i, at - 1) \ Declared(i))
        BY <2>3 DEF MentionedInScope
    <3>6. x \in DueBefore(i)
        BY <2>1, <2>3, <3>5 DEF DueBefore, UserDefined
    <3>. QED
        BY <3>4, <3>5, <3>6 DEF BeforeMarked
  <2>. QED
      BY <2>2, <2>3
<1>. QED
    BY <1>1, TracedInit, TracedStep, RankInit, RankStep, MarkedInit, MarkedStep, PlacedAlways, PTL DEF Spec

-----------------------------------------------------------------------------
(* The values of arguments *)

\* Without a circle among the arguments, the one being added is below those that it
\* is added for.
RankedArguments(rank) == \A n, m \in DOMAIN args : m \in args[n].text => rank[m] < rank[n]
Downwards ==
    InStep => \A rank \in [DOMAIN args -> Int] :
        RankedArguments(rank) =>
            \A i, j \in 1 .. Len(stack) : i < j => rank[stack[j]] < rank[stack[i]]

LEMMA DownInit == Init => Downwards
BY DEF Init, Downwards, InStep

LEMMA DownStep == TypeOK /\ Downwards /\ [Next]_vars => Downwards'
<1>. SUFFICES ASSUME TypeOK, Downwards, [Next]_vars, InStep' PROVE Downwards'
    BY DEF Downwards
<1>1. script' = script /\ (at' = at => Current' = Current /\ args' = args)
    BY BegunFacts DEF Current, args
<1>2. CASE Len(stack') \in {0, 1}
    BY <1>2 DEF Downwards
<1>3. CASE UNCHANGED <<at, stack>> /\ InStep
    BY <1>1, <1>3 DEF Downwards, RankedArguments
<1>4. CASE pc' = "add"
  <2>1. Len(stack') = 0
      BY <1>4, TypeStep, EmptySeq DEF TypeOK
  <2>. QED
      BY <1>2, <2>1
<1>5. CASE Visit
  <2>1. stack = << >> /\ Len(stack) = 0
      BY <1>5, EmptySeq DEF Visit, TypeOK
  <2>2. PICK n \in todo : stack' = <<n>> \/ stack' = stack
      BY <1>5 DEF Visit, ToVisit
  <2>3. Len(stack') \in {0, 1}
      BY <2>1, <2>2
  <2>. QED
      BY <1>2, <2>3
<1>6. CASE Descend
  <2>1. PICK n \in RefersTo(Top) : stack' = IF Overrides(n) THEN stack ELSE Append(stack, n)
      BY <1>6 DEF Descend
  <2>2. UNCHANGED at /\ stack # << >> /\ InStep /\ pc # "done"
      BY <1>6 DEF Descend, TypeOK, InStep
  <2>3. CASE Overrides(n)
      BY <1>3, <2>1, <2>2, <2>3
  <2>4. CASE ~Overrides(n)
    <3>1. n \in Name /\ n \in args[Top].text /\ Top \in DOMAIN args /\ n \in DOMAIN args
        BY <2>1, <2>2, TopFacts DEF RefersTo, TypeOK
    <3>2. /\ Len(stack') = Len(stack) + 1 /\ Len(stack) \in Nat \ {0}
          /\ \A i \in 1 .. Len(stack) : stack'[i] = stack[i]
          /\ stack'[Len(stack) + 1] = n
      <4>1. stack' = Append(stack, n)
          BY <2>1, <2>4
      <4>. QED
          BY <2>2, <3>1, <4>1, PushedFacts, TopFacts
    <3>3. ASSUME NEW rank \in [DOMAIN args -> Int], RankedArguments(rank)
          PROVE  \A i, j \in 1 .. Len(stack') : i < j => rank[stack'[j]] < rank[stack'[i]]
      <4>1. \A i, j \in 1 .. Len(stack) : i < j => rank[stack[j]] < rank[stack[i]]
          BY <2>2, <3>3 DEF Downwards
      <4>2. ASSUME NEW i \in 1 .. Len(stack) PROVE rank[n] < rank[stack[i]]
        <5>1. /\ rank[n] < rank[Top] /\ Top = stack[Len(stack)] /\ Len(stack) \in 1 .. Len(stack)
            BY <3>1, <3>2, <3>3 DEF RankedArguments, Top
        <5>2. rank[n] \in Int /\ rank[Top] \in Int /\ rank[stack[i]] \in Int
          <6>1. stack[i] \in DOMAIN args
              BY <2>2, TopFacts DEF OnStack
          <6>. QED
              BY <3>1, <6>1
        <5>3. i = Len(stack) \/ i < Len(stack)
            BY <3>2
        <5>. QED
            BY <4>1, <5>1, <5>2, <5>3
      <4>. QED
          BY <3>2, <4>1, <4>2
    <3>. QED
        BY <1>1, <2>2, <3>3 DEF Downwards, RankedArguments
  <2>. QED
      BY <2>3, <2>4
<1>7. CASE Store \/ ExecuteArgument
  <2>1. /\ stack # << >> /\ pc # "done" /\ UNCHANGED at /\ Pop /\ InStep
      BY <1>7, ValueFacts DEF Fail, InStep
  <2>2. /\ Len(stack') = Len(stack) - 1 /\ Len(stack) \in Nat
        /\ \A i \in 1 .. Len(stack') : stack'[i] = stack[i]
      BY <2>1, PopFacts DEF TypeOK
  <2>3. ASSUME NEW rank \in [DOMAIN args -> Int], RankedArguments(rank)
        PROVE  \A i, j \in 1 .. Len(stack') : i < j => rank[stack'[j]] < rank[stack'[i]]
    <3>1. \A i, j \in 1 .. Len(stack) : i < j => rank[stack[j]] < rank[stack[i]]
        BY <2>1, <2>3 DEF Downwards
    <3>. QED
        BY <2>2, <3>1
  <2>. QED
      BY <1>1, <2>1, <2>3 DEF Downwards, RankedArguments
<1>8. CASE Evaluate \/ Substitute \/ Again
  <2>1. UNCHANGED <<at, stack>> /\ pc # "done" /\ pc' # "add"
      BY <1>8 DEF Evaluate, Substitute, Again, loopVars
  <2>. QED
      BY <1>3, <2>1 DEF InStep
<1>9. CASE StartTemplate \/ ExecuteTemplate \/ EndAdd \/ KeepList
  <2>1. stack' = << >> /\ Len(stack') = 0
      BY <1>9, EmptySeq DEF StartTemplate, ExecuteTemplate, EndAdd, KeepList, TypeOK, loopVars
  <2>. QED
      BY <1>2, <2>1
<1>10. CASE NotFound \/ EndScript
    BY <1>10 DEF NotFound, EndScript, Fail, InStep
<1>11. CASE UNCHANGED vars
  <2>1. UNCHANGED <<at, stack, pc>>
      BY <1>11 DEF vars, loopVars
  <2>. QED
      BY <1>3, <2>1 DEF InStep
<1>12. CASE StartAdd
    BY <1>4, <1>12 DEF StartAdd
<1>. QED
    BY <1>5, <1>6, <1>7, <1>8, <1>9, <1>10, <1>11, <1>12 DEF Next, Work, Over

LEMMA AcyclicFacts ==
    ASSUME DOMAIN args \subseteq Name, Acyclic(args)
    PROVE  \E rank \in [DOMAIN args -> Int] : RankedArguments(rank)
<1>1. Cardinality(DOMAIN args) \in Nat
    BY NameAssumption, FS_Subset, FS_CardinalityType
<1>. QED
    BY <1>1 DEF Acyclic, RankedArguments

\* The values that the arguments get from elsewhere are literal.
Plain(t) == t \cap (DOMAIN items \cup DOMAIN args \cup {Now}) = {}
OthersPlain ==
    /\ \A m \in DOMAIN args : args[m].string \/ Plain(args[m].text)
    /\ \A m \in DOMAIN items \ DOMAIN args : Plain(items[m].text)

\* What an argument comes to, given what the names in its text have come to; and
\* what a name in the text under evaluation has been replaced by so far.
Failing(n) == args[n].string /\ Bad \in Denotes(args[n].text)
Result(n) ==
    IF Failing(n) THEN {} ELSE IF args[n].string THEN Denotes(args[n].text) ELSE args[n].text
Halfway(x) == IF x \in DOMAIN items /\ ~(pass = 1 /\ x \in left) THEN items[x].text ELSE {x}

\* The arguments in D have their value, and so have those they refer to; the others
\* that have been reached are being added.  One that fails is still to be added by
\* AddAll itself, or is just being added by it.
Resolved(D) ==
    /\ DOMAIN args \ scope \subseteq D \cup OnStack
    /\ \A n \in D : /\ n \in DOMAIN items /\ Plain(items[n].text)
                    /\ args[n].string => args[n].text \cap DOMAIN args \subseteq D
                    /\ items[n].text = Result(n)
                    /\ Failing(n) => n \in todo \/ (stack # << >> /\ n = stack[1])
    /\ \A i \in 2 .. Len(stack) : stack[i] \in todo
    /\ pc = "apply" => /\ text = UNION {Halfway(x) : x \in args[Top].text}
                       /\ args[Top].text \cap DOMAIN args \subseteq D

Resolvable ==
    /\ Current.op = "args" /\ Acyclic(args) /\ Constant(args) /\ OthersPlain
    /\ \A n \in todo : ~Overrides(n)
AInv == InStep /\ Resolvable => \E D \in SUBSET DOMAIN args : Resolved(D)

\* At the end of the second pass the text is the one it stands for, and literal.
LEMMA TextFacts ==
    ASSUME TypeOK, stack # << >>, pc = "apply", Resolvable,
           NEW D \in SUBSET DOMAIN args, Resolved(D)
    PROVE  /\ left = {} /\ pass = 2 => text = Denotes(args[Top].text) /\ Plain(text)
           /\ \A x \in args[Top].text :
                  x \in DOMAIN items => items[x].text \cap DOMAIN items = {}
<1>1. \A x \in args[Top].text : x \in DOMAIN args => x \in D
    BY DEF Resolved
<1>2. \A x \in args[Top].text : x \in DOMAIN items => Plain(items[x].text)
    BY <1>1 DEF Resolved, Resolvable, OthersPlain
<1>3. \A x \in args[Top].text : x \notin DOMAIN items => x \notin DOMAIN args /\ x # Now
    BY <1>1, TopFacts DEF Resolved, Resolvable, Constant
<1>4. ASSUME left = {}, pass = 2 PROVE text = Denotes(args[Top].text)
  <2>1. \A x : Halfway(x) = IF x \in DOMAIN items THEN items[x].text ELSE {x}
      BY <1>4 DEF Halfway
  <2>. QED
      BY <2>1 DEF Resolved, Denotes
<1>5. Plain(Denotes(args[Top].text))
    BY <1>2, <1>3 DEF Plain, Denotes
<1>. QED
    BY <1>2, <1>4, <1>5 DEF Plain

\* A pass over one more item.
LEMMA HalfwayStep ==
    ASSUME TypeOK, stack # << >>, pc = "apply", Resolvable,
           NEW D \in SUBSET DOMAIN args, Resolved(D),
           NEW n \in left, left' = left \ {n}, text' = Assembled(n),
           UNCHANGED <<items, pass>>
    PROVE  text' = UNION {Halfway(x)' : x \in args[Top].text}
<1>1. \A x \in args[Top].text : x \in DOMAIN items => items[x].text \cap DOMAIN items = {}
    BY TextFacts
<1>2. n \in DOMAIN items
    BY DEF TypeOK
<1>3. \A x \in args[Top].text : n \in Halfway(x) <=> x = n /\ pass = 1
    BY <1>1, <1>2 DEF Halfway, TypeOK
<1>4. \A y : y \in text <=> \E x \in args[Top].text : y \in Halfway(x)
    BY DEF Resolved
<1>5. \A x : Halfway(x)' = IF x = n THEN items[n].text ELSE Halfway(x)
    BY <1>2 DEF Halfway
<1>6. n \in text <=> n \in args[Top].text /\ pass = 1
    BY <1>3, <1>4
<1>7. pass = 2 => Halfway(n) = items[n].text
    BY <1>2 DEF Halfway
<1>8. \A y : y \in text' <=> \E x \in args[Top].text : y \in Halfway(x)'
  <2>1. CASE n \in text
    <3>1. text' = (text \ {n}) \cup items[n].text /\ n \in args[Top].text
        BY <1>6, <2>1 DEF Assembled
    <3>2. n \notin items[n].text
        BY <1>1, <1>2, <3>1
    <3>3. ASSUME NEW y PROVE y \in text' <=> \E x \in args[Top].text : y \in Halfway(x)'
      <4>1. CASE y \in items[n].text
          BY <1>5, <3>1, <4>1
      <4>2. CASE y = n
          BY <1>3, <1>5, <3>1, <3>2, <4>2
      <4>3. CASE y \notin items[n].text /\ y # n
        <5>1. y \notin Halfway(n)
            BY <4>3, <1>2 DEF Halfway
        <5>. QED
            BY <1>4, <1>5, <3>1, <4>3, <5>1
      <4>. QED
          BY <4>1, <4>2, <4>3
    <3>. QED
        BY <3>3
  <2>2. CASE n \notin text
    <3>1. text' = text /\ (n \in args[Top].text => Halfway(n) = items[n].text)
        BY <1>6, <1>7, <2>2 DEF Assembled, TypeOK
    <3>2. \A x \in args[Top].text : Halfway(x)' = Halfway(x)
        BY <1>5, <3>1
    <3>. QED
        BY <1>4, <3>1, <3>2
  <2>. QED
      BY <2>1, <2>2
<1>. QED
    BY <1>8

\* The argument that has been evaluated joins those that have their value, and does
\* not change the value of any of them, whether it had a value before or not.
LEMMA ValueStep ==
    ASSUME TypeOK, BoundedRecursion, Placed, Resolvable, Store \/ ExecuteArgument, InStep',
           NEW D \in SUBSET DOMAIN args, Resolved(D), NEW E, E = D \cup {Top}
    PROVE  Resolved(E)'
<1>1. /\ stack # << >> /\ pc # "done" /\ IsArguments(items')
      /\ DOMAIN items' = DOMAIN items \cup {Top}
      /\ \A m \in DOMAIN items : m # Top => items'[m] = items[m]
      /\ Pop /\ UNCHANGED <<script, at, todo, scope>>
      /\ Current' = Current /\ args' = args
    BY ValueFacts DEF Fail, InStep
<1>2. /\ Len(stack) \in Nat \ {0} /\ Top \in DOMAIN args /\ Current.op = "args"
      /\ OnStack' = OnStack \ {Top} /\ pc' # "apply"
      /\ Len(stack') = Len(stack) - 1 /\ \A i \in 1 .. Len(stack') : stack'[i] = stack[i]
    BY <1>1, TopFacts, OnStackFacts, PopFacts DEF TypeOK, Resolvable
<1>3. /\ args[Top].string => args[Top].text \cap DOMAIN args \subseteq D
      /\ items'[Top].text = Result(Top) /\ Plain(items'[Top].text)
      /\ Failing(Top) => Top \in todo
  <2>1. CASE Store
    <3>1. ~args[Top].string /\ items'[Top] = args[Top]
        BY <1>1, <2>1 DEF Store, Put
    <3>. QED
        BY <1>2, <3>1 DEF Failing, Result, Resolvable, OthersPlain
  <2>2. CASE ExecuteArgument
    <3>1. pc = "apply" /\ left = {} /\ pass = 2 /\ args[Top].string
        BY <1>1, <2>2 DEF ExecuteArgument, AnotherPass, TypeOK, Placed
    <3>2. text = Denotes(args[Top].text) /\ Plain(text)
        BY <1>1, <3>1, TextFacts
    <3>3. Executed(clock') = text
        BY <3>2 DEF Executed, Plain
    <3>4. items'[Top].text = IF Bad \in text THEN {} ELSE text
      <4>1. items'[Top].text = IF Bad \in text THEN {} ELSE Executed(clock')
        <5>1. CASE Bad \in text
            BY <2>2, <5>1 DEF ExecuteArgument, Put
        <5>2. CASE Bad \notin text
            BY <2>2, <5>2 DEF ExecuteArgument, Put
        <5>. QED
            BY <5>1, <5>2
      <4>. QED
          BY <3>3, <4>1
    <3>5. Bad \in text => Top \in todo
      <4>1. Bad \in text => Len(stack) # 1
          BY <1>2, <2>2, InStep' DEF ExecuteArgument, Fail, InStep
      <4>2. Len(stack) # 1 => Len(stack) \in 2 .. Len(stack)
          BY <1>2
      <4>. QED
          BY <4>1, <4>2 DEF Resolved, Top
    <3>. QED
        BY <3>1, <3>2, <3>4, <3>5 DEF Failing, Result, Resolved, Plain
  <2>. QED
      BY <2>1, <2>2
<1>4. ASSUME Top \in D
      PROVE  DOMAIN items' = DOMAIN items /\ \A m \in DOMAIN items : items'[m].text = items[m].text
    BY <1>1, <1>3, <1>4 DEF Resolved
<1>5. ASSUME NEW n \in DOMAIN args, args[n].text \cap DOMAIN args \subseteq D
      PROVE  Denotes(args[n].text)' = Denotes(args[n].text)
  <2>. DEFINE Before(x) == IF x \in DOMAIN items THEN items[x].text ELSE {x}
              After(x) == IF x \in DOMAIN items' THEN items'[x].text ELSE {x}
  <2>1. \A x \in args[n].text : After(x) = Before(x)
      BY <1>1, <1>2, <1>4, <1>5
  <2>2. \A y : y \in Denotes(args[n].text)' <=> \E x \in args[n].text : y \in After(x)
      BY <1>1 DEF Denotes
  <2>3. \A y : y \in Denotes(args[n].text) <=> \E x \in args[n].text : y \in Before(x)
      BY DEF Denotes
  <2>. HIDE DEF Before, After
  <2>4. \A y : y \in Denotes(args[n].text)' <=> y \in Denotes(args[n].text)
      BY <2>1, <2>2, <2>3
  <2>. QED
      BY <2>4, Zenon
<1>6. \A s : Plain(s)' <=> Plain(s)
    BY <1>1, <1>2 DEF Plain
<1>7. ASSUME NEW n \in E
      PROVE  /\ n \in DOMAIN items' /\ Plain(items'[n].text)
             /\ args[n].string => args[n].text \cap DOMAIN args \subseteq E
             /\ items'[n].text = Result(n)
             /\ Failing(n) => n \in todo \/ (stack' # << >> /\ n = stack'[1])
  <2>1. CASE n = Top
      BY <1>1, <1>3, <2>1
  <2>2. CASE n # Top
    <3>1. n \in D
        BY <1>7, <2>2
    <3>2. stack # << >> /\ n = stack[1] => stack' # << >> /\ n = stack'[1]
      <4>1. n = stack[1] => Len(stack) # 1
          BY <2>2 DEF Top
      <4>2. \A k \in Nat \ {0} : k = 1 \/ k > 1
          OBVIOUS
      <4>3. ASSUME Len(stack) > 1 PROVE stack' # << >> /\ stack'[1] = stack[1]
        <5>1. Len(stack') # 0
            BY <1>2, <4>3
        <5>. QED
            BY <1>2, <4>3, <5>1, EmptySeq
      <4>. QED
          BY <1>2, <4>1, <4>2, <4>3
    <3>. QED
        BY <1>1, <2>2, <3>1, <3>2 DEF Resolved
  <2>. QED
      BY <2>1, <2>2
<1>8. \A n \in E : Failing(n)' = Failing(n) /\ Result(n)' = Result(n)
    BY <1>1, <1>2, <1>3, <1>5 DEF Failing, Result, Resolved
<1>9. /\ DOMAIN args \ scope \subseteq E \cup OnStack'
      /\ \A i \in 2 .. Len(stack') : stack'[i] \in todo
  <2>1. \A i \in 2 .. Len(stack') : i \in 2 .. Len(stack) /\ stack'[i] = stack[i]
      BY <1>2
  <2>. QED
      BY <1>2, <2>1 DEF Resolved
<1>. QED
    BY <1>1, <1>2, <1>6, <1>7, <1>8, <1>9 DEF Resolved

LEMMA ResolvedInit == Init => AInv
BY DEF Init, AInv, InStep

LEMMA ResolvedStep ==
    TypeOK /\ BoundedRecursion /\ Placed /\ Downwards /\ AInv /\ [Next]_vars => AInv'
<1>. SUFFICES ASSUME TypeOK, BoundedRecursion, Placed, Downwards, AInv, [Next]_vars,
                     InStep', Resolvable'
              PROVE  (\E D \in SUBSET DOMAIN args : Resolved(D))'
    BY DEF AInv
<1>1. ASSUME at' = at
      PROVE  script' = script /\ Current' = Current /\ args' = args
    BY <1>1, BegunFacts DEF Current, args
<1>2. ASSUME UNCHANGED <<at, items>>, InStep, \A n \in todo : n \in todo' \/ ~Overrides(n)
      PROVE  Resolvable /\ \E D \in SUBSET DOMAIN args : Resolved(D)
  <2>1. \A n : Overrides(n)' <=> Overrides(n)
      BY <1>2 DEF Overrides
  <2>2. Resolvable
      BY <1>1, <1>2, <2>1 DEF Resolvable, OthersPlain, Plain
  <2>. QED
      BY <1>2, <2>2 DEF AInv
<1>3. ASSUME UNCHANGED <<at, items>>
      PROVE  \A n : /\ Plain(items[n].text)' <=> Plain(items[n].text)
                    /\ Failing(n)' <=> Failing(n)
                    /\ Result(n)' = Result(n)
    BY <1>1, <1>3 DEF Plain, Failing, Result, Denotes
<1>4. CASE StartAdd
  <2>1. /\ UNCHANGED at /\ scope' = DOMAIN args /\ pc' = "add" /\ stack' = << >> /\ Len(stack') = 0
      BY <1>1, <1>4, EmptySeq DEF StartAdd, TypeOK, Resolvable
  <2>2. Resolved({})'
      BY <1>1, <2>1 DEF Resolved
  <2>. QED
      BY <2>2
<1>5. CASE Visit
  <2>1. PICK n \in todo : /\ todo' = todo \ {n} /\ scope' = scope \ {n}
                          /\ Overrides(n) => Current.op # "args" \/ pc' = "done"
                          /\ ~Overrides(n) => stack' = <<n>> /\ pc' = "frame"
      BY <1>5 DEF Visit, ToVisit, Without, Fail
  <2>2. UNCHANGED <<at, items>> /\ pc = "add" /\ stack = << >> /\ InStep /\ Len(stack) = 0
      BY <1>5, EmptySeq DEF Visit, TypeOK, InStep
  <2>3. ~Overrides(n)
    <3>1. Current.op = "args" /\ pc' # "done"
      <4>1. pc' = "done" => stack' = stack
          BY <1>5 DEF Visit
      <4>. QED
          BY <1>1, <2>2, <4>1 DEF InStep, Resolvable
    <3>. QED
        BY <2>1, <3>1
  <2>4. PICK D \in SUBSET DOMAIN args : Resolved(D)
      BY <1>2, <2>1, <2>2, <2>3
  <2>5. stack' # << >> /\ Len(stack') = 1 /\ stack'[1] = n /\ pc' = "frame" /\ n \in OnStack'
    <3>1. stack' # << >> /\ Len(stack') = 1 /\ stack'[1] = n /\ pc' = "frame"
        BY <2>1, <2>3
    <3>. QED
        BY <3>1 DEF OnStack
  <2>6. OnStack = {}
      BY <2>2 DEF OnStack
  <2>7. Resolved(D)'
      BY <1>1, <1>3, <2>1, <2>2, <2>4, <2>5, <2>6 DEF Resolved
  <2>. QED
      BY <1>1, <2>2, <2>7
<1>6. CASE Descend
  <2>1. PICK n \in RefersTo(Top) :
            scope' = scope \ {n} /\ stack' = IF Overrides(n) THEN stack ELSE Append(stack, n)
      BY <1>6 DEF Descend, Without
  <2>2. UNCHANGED <<at, items, todo, pc>> /\ pc = "frame" /\ stack # << >> /\ InStep
      BY <1>6 DEF Descend, TypeOK, InStep
  <2>3. PICK D \in SUBSET DOMAIN args : Resolvable /\ Resolved(D)
      BY <1>2, <2>2
  <2>4. n \in todo /\ n \in Name
      BY <2>1 DEF RefersTo, Placed, TypeOK
  <2>5. stack' = Append(stack, n)
      BY <2>1, <2>3, <2>4 DEF Resolvable
  <2>6. /\ stack' # << >> /\ Len(stack') = Len(stack) + 1 /\ Len(stack) \in Nat \ {0}
        /\ \A i \in 1 .. Len(stack) : stack'[i] = stack[i]
        /\ stack'[Len(stack) + 1] = n
        /\ OnStack' = OnStack \cup {n}
      BY <2>2, <2>4, <2>5, PushedFacts, TopFacts
  <2>7. stack'[1] = stack[1] /\ \A i \in 2 .. Len(stack') : stack'[i] \in todo
      BY <2>3, <2>4, <2>6 DEF Resolved
  <2>8. Resolved(D)'
      BY <1>1, <1>3, <2>1, <2>2, <2>3, <2>6, <2>7 DEF Resolved
  <2>. QED
      BY <1>1, <2>2, <2>8
<1>7. CASE Store \/ ExecuteArgument
  <2>1. /\ UNCHANGED <<at, todo>> /\ InStep /\ stack # << >> /\ pc # "done"
        /\ DOMAIN items' = DOMAIN items \cup {Top}
        /\ \A m \in DOMAIN items : m # Top => items'[m] = items[m]
      BY <1>7, ValueFacts DEF InStep
  <2>2. Top \in DOMAIN args
      BY <2>1, TopFacts
  <2>3. Resolvable
    <3>1. OthersPlain
        BY <1>1, <2>1, <2>2 DEF Resolvable, OthersPlain, Plain
    <3>2. \A n \in todo : ~Overrides(n)
        BY <2>1 DEF Resolvable, Overrides
    <3>. QED
        BY <1>1, <2>1, <3>1, <3>2 DEF Resolvable
  <2>4. PICK D \in SUBSET DOMAIN args : Resolved(D)
      BY <2>1, <2>3 DEF AInv
  <2>5. PICK E : E = D \cup {Top}
      OBVIOUS
  <2>6. Resolved(E)'
      BY <1>7, <2>3, <2>4, <2>5, ValueStep
  <2>. QED
      BY <1>1, <2>1, <2>2, <2>5, <2>6
<1>8. CASE Evaluate
  <2>1. /\ UNCHANGED <<at, items, todo, scope, stack>> /\ pc = "frame" /\ pc' = "apply"
        /\ stack # << >> /\ InStep /\ Top' = Top
        /\ text' = args[Top].text /\ left' = DOMAIN items /\ pass' = 1
        /\ args[Top].string /\ args[Top].text \cap scope = {}
      BY <1>8 DEF Evaluate, loopVars, TypeOK, InStep, Top, Visible, RefersTo
  <2>2. PICK D \in SUBSET DOMAIN args : Resolvable /\ Resolved(D)
      BY <1>2, <2>1
  <2>3. \A x : Halfway(x)' = {x}
      BY <2>1 DEF Halfway
  <2>4. text' = UNION {Halfway(x)' : x \in args[Top].text}
      BY <2>1, <2>3
  <2>5. args[Top].text \cap OnStack = {}
    <3>1. PICK rank \in [DOMAIN args -> Int] : RankedArguments(rank)
        BY <2>1, <2>2, TopFacts, AcyclicFacts DEF Resolvable
    <3>2. \A i, j \in 1 .. Len(stack) : i < j => rank[stack[j]] < rank[stack[i]]
        BY <2>1, <3>1 DEF Downwards
    <3>3. ASSUME NEW i \in 1 .. Len(stack), stack[i] \in args[Top].text PROVE FALSE
      <4>1. /\ Len(stack) \in Nat \ {0} /\ Len(stack) \in 1 .. Len(stack)
            /\ Top = stack[Len(stack)] /\ Top \in DOMAIN args /\ stack[i] \in DOMAIN args
          BY <2>1, TopFacts DEF Top, OnStack
      <4>2. rank[stack[i]] < rank[Top]
          BY <3>1, <3>3, <4>1 DEF RankedArguments
      <4>3. rank[stack[i]] \in Int /\ rank[Top] \in Int
          BY <4>1
      <4>4. i = Len(stack) \/ i < Len(stack)
          BY <4>1
      <4>. QED
          BY <3>2, <4>1, <4>2, <4>3, <4>4
    <3>. QED
        BY <3>3 DEF OnStack
  <2>6. args[Top].text \cap DOMAIN args \subseteq D
      BY <2>1, <2>2, <2>5 DEF Resolved
  <2>7. OnStack' = OnStack
      BY <2>1 DEF OnStack
  <2>8. Resolved(D)'
      BY <1>1, <1>3, <2>1, <2>2, <2>4, <2>6, <2>7 DEF Resolved
  <2>. QED
      BY <1>1, <2>1, <2>8
<1>9. ASSUME UNCHANGED <<at, items, todo, scope, stack, pc>>, InStep,
             NEW D \in SUBSET DOMAIN args, Resolved(D),
             pc = "apply" => text' = UNION {Halfway(x)' : x \in args[Top].text}
      PROVE  (\E S \in SUBSET DOMAIN args : Resolved(S))'
  <2>1. OnStack' = OnStack /\ Top' = Top
      BY <1>9 DEF OnStack, Top
  <2>2. Resolved(D)'
      BY <1>1, <1>3, <1>9, <2>1 DEF Resolved
  <2>. QED
      BY <1>1, <1>9, <2>2
<1>10. CASE Substitute
  <2>1. PICK n \in left : left' = left \ {n} /\ text' = Assembled(n)
      BY <1>10 DEF Substitute
  <2>2. UNCHANGED <<at, items, todo, scope, stack, pc, pass>> /\ InStep /\ pc = "apply" /\ stack # << >>
      BY <1>10 DEF Substitute, loopVars, InStep
  <2>3. PICK D \in SUBSET DOMAIN args : Resolvable /\ Resolved(D)
      BY <1>2, <2>2
  <2>4. text' = UNION {Halfway(x)' : x \in args[Top].text}
      BY <2>1, <2>2, <2>3, HalfwayStep
  <2>. QED
      BY <1>9, <2>2, <2>3, <2>4
<1>11. CASE Again
  <2>1. /\ UNCHANGED <<at, items, todo, scope, stack, pc, text>> /\ InStep /\ pc = "apply"
        /\ left = {} /\ pass' = 2 /\ pass = 1
      BY <1>11 DEF Again, AnotherPass, loopVars, InStep
  <2>2. PICK D \in SUBSET DOMAIN args : Resolved(D)
      BY <1>2, <2>1
  <2>3. \A x : Halfway(x)' = Halfway(x)
      BY <2>1 DEF Halfway
  <2>4. text' = UNION {Halfway(x)' : x \in args[Top].text}
      BY <2>1, <2>2, <2>3 DEF Resolved
  <2>. QED
      BY <1>9, <2>1, <2>2, <2>4
<1>12. CASE UNCHANGED vars
  <2>1. UNCHANGED <<at, items, todo, scope, stack, pc, text, left, pass>> /\ InStep
      BY <1>12 DEF vars, loopVars, passVars, InStep
  <2>2. PICK D \in SUBSET DOMAIN args : Resolved(D)
      BY <1>2, <2>1
  <2>3. \A x : Halfway(x)' = Halfway(x)
      BY <2>1 DEF Halfway
  <2>4. pc = "apply" => text' = UNION {Halfway(x)' : x \in args[Top].text}
      BY <2>1, <2>2, <2>3 DEF Resolved
  <2>. QED
      BY <1>9, <2>1, <2>2, <2>4
<1>13. CASE StartTemplate \/ NotFound \/ EndAdd \/ ExecuteTemplate \/ KeepList \/ EndScript
  <2>1. pc' # "add" /\ (stack' = << >> \/ pc' = "done")
      BY <1>13 DEF StartTemplate, NotFound, EndAdd, ExecuteTemplate, KeepList, EndScript, Fail,
                   loopVars, TypeOK
  <2>. QED
      BY <2>1 DEF InStep
<1>. QED
    BY <1>4, <1>5, <1>6, <1>7, <1>8, <1>10, <1>11, <1>12, <1>13 DEF Next, Work, Over

\* At the end of AddAll no name is left, so every argument has its value.
LEMMA ResolvedEnd ==
    TypeOK /\ Placed /\ EInv /\ AInv /\ ArgumentsResolved /\ [Next]_vars => ArgumentsResolved'
<1>. SUFFICES ASSUME TypeOK, Placed, EInv, AInv, ArgumentsResolved, [Next]_vars, Done("args")'
              PROVE  ArgumentsResolved'
    BY DEF ArgumentsResolved
<1>1. script' = script /\ at \in Nat \ {0}
    BY BegunFacts, ScriptAssumption DEF TypeOK
<1>2. ASSUME at' = at + 1, Current.op # "args" PROVE FALSE
  <2>1. script'[at' - 1] = Current
      BY <1>1, <1>2 DEF Current
  <2>. QED
      BY <1>2, <2>1 DEF Done
<1>3. CASE KeepList \/ ExecuteTemplate
  <2>1. at' = at + 1 /\ Current.op # "args"
    <3>1. CASE KeepList
        BY <3>1 DEF KeepList
    <3>2. CASE ExecuteTemplate
        BY <3>2 DEF ExecuteTemplate, Fail, Done, EInv, ErrorsSeen
    <3>. QED
        BY <1>3, <3>1, <3>2
  <2>. QED
      BY <1>2, <2>1
<1>4. CASE EndAdd
  <2>1. /\ at' = at + 1 /\ UNCHANGED items /\ todo = {} /\ InStep /\ stack = << >> /\ OnStack = {}
    <3>1. stack = << >> /\ Len(stack) = 0
        BY <1>4, EmptySeq DEF EndAdd, TypeOK
    <3>. QED
        BY <1>4, <3>1 DEF EndAdd, ToVisit, InStep, OnStack
  <2>2. Current.op = "args" /\ Last' = args
    <3>1. script'[at' - 1] = Current
        BY <1>1, <2>1 DEF Current
    <3>. QED
        BY <1>2, <2>1, <3>1 DEF Last, args
  <2>. SUFFICES ASSUME Acyclic(args), Constant(args), OthersLiteral'
                PROVE  \A n \in DOMAIN args :
                           items[n].text = IF args[n].string THEN Denotes(args[n].text)
                                                             ELSE args[n].text
    <3>1. \A t : Denotes(t)' = Denotes(t)
        BY <2>1 DEF Denotes
    <3>. QED
        BY <2>1, <2>2, <3>1 DEF ArgumentsResolved
  <2>3. \A m \in DOMAIN args : m \in DOMAIN items /\ (args[m].string \/ items[m] = args[m])
      BY <2>1, <2>2 DEF Placed
  <2>4. \A m \in DOMAIN items :
            \/ m \in DOMAIN args /\ args[m].string
            \/ items[m].text \cap (DOMAIN items \cup {Now}) = {}
      BY <2>1, <2>2 DEF OthersLiteral
  <2>5. OthersPlain
    <3>1. DOMAIN items \cup DOMAIN args = DOMAIN items
        BY <2>3
    <3>2. \A s : Plain(s) <=> s \cap (DOMAIN items \cup {Now}) = {}
        BY <3>1 DEF Plain
    <3>. QED
        BY <2>3, <2>4, <3>2 DEF OthersPlain
  <2>6. PICK D \in SUBSET DOMAIN args : Resolved(D)
      BY <2>1, <2>2, <2>5 DEF AInv, Resolvable
  <2>7. DOMAIN args \subseteq D /\ \A n \in D : items[n].text = Result(n) /\ ~Failing(n)
      BY <2>1, <2>6 DEF Resolved, Placed
  <2>. QED
      BY <2>7 DEF Result
<1>5. CASE UNCHANGED vars
  <2>1. UNCHANGED <<script, at, pc, items>> /\ Last' = Last
      BY <1>5 DEF vars, Last
  <2>2. Done("args") /\ \A t : Denotes(t)' = Denotes(t)
      BY <2>1 DEF Done, Denotes
  <2>. QED
      BY <2>1, <2>2 DEF ArgumentsResolved, OthersLiteral
<1>6. CASE Store \/ ExecuteArgument
    BY <1>6, ValueFacts DEF Done, Pop, Fail
<1>7. CASE \/ StartAdd \/ Visit \/ NotFound \/ Descend \/ Evaluate \/ StartTemplate
           \/ Substitute \/ Again \/ EndScript
    BY <1>7 DEF StartAdd, Visit, NotFound, Descend, Evaluate, StartTemplate, Substitute, Again,
                EndScript, Fail, Done
<1>. QED
    BY <1>3, <1>4, <1>5, <1>6, <1>7 DEF Next, Work, Over

\* In whatever order the maps are iterated, AddAll gives each argument its text with
\* the value of each variable in the place of its placeholder: if no argument leads
\* back to itself or calls the clock, and the values they get from elsewhere are
\* literal.
THEOREM ArgumentsHaveTheirValues == Spec => []ArgumentsResolved
<1>1. Init => ArgumentsResolved
    BY DEF Init, ArgumentsResolved, Done
<1>. QED
    BY <1>1, DownInit, DownStep, ResolvedInit, ResolvedStep, ResolvedEnd, PlacedAlways, PTL DEF Spec

=============================================================================
