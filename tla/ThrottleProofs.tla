--------------------------- MODULE ThrottleProofs ---------------------------
(***************************************************************************)
(* The throttle keeps its sliding window for every limit, every frame and  *)
(* every way the clock advances.                                           *)
(***************************************************************************)
EXTENDS Throttle, SequenceTheorems, TLAPS

\* The times recorded are in order and in the past.
Chronicle ==
    /\ \A i \in 1 .. Len(calls) : calls[i] <= clock
    /\ \A i, j \in 1 .. Len(calls) : i <= j => calls[i] <= calls[j]

\* A call that has left the queue is at least a frame old.
DroppedAreOld ==
    \A i \in 1 .. Len(calls) - Len(queue) : Since(calls[i]) >= Frame

\* What RunOrPause knows at each of its steps.
Steps ==
    /\ pc \in {"clean", "pause", "sleep", "record"} => limit # InfiniteLimit
    /\ pc \in {"pause", "sleep"} => Len(queue) = limit
    /\ pc = "sleep" => wake - Head(queue) >= Frame
    /\ pc = "sleep" /\ clock < wake => wake - Head(queue) = Frame
    /\ pc = "record" /\ limit > 0 => Len(queue) < limit

IInv == TypeOK /\ QueueWithinLimit /\ Chronicle /\ DroppedAreOld /\ Steps /\ SlidingWindow

\* The facts about lengths every step needs.
LEMMA Lengths ==
    ASSUME TypeOK
    PROVE  /\ Len(queue) \in Nat /\ Len(calls) \in Nat
           /\ limit \in Int /\ clock \in Nat /\ Frame \in Nat
           /\ \A i \in 1 .. Len(calls) : calls[i] \in Nat
           /\ \A i \in 1 .. Len(queue) : queue[i] \in Nat
           /\ Len(queue) = 0 <=> queue = << >>
           /\ queue # << >> => Head(queue) = queue[1]
  BY LenProperties, EmptySeq, LimitsAssumption, FrameAssumption DEF TypeOK

\* Dropping the head of the queue is right once the head is a frame old.
LEMMA DropHead ==
    ASSUME TypeOK, QueueWithinLimit, DroppedAreOld,
           queue # << >>, Since(Head(queue)) >= Frame,
           queue' = Tail(queue), UNCHANGED <<limit, clock, calls>>
    PROVE  /\ queue' \in Seq(Nat)
           /\ Len(queue') = Len(queue) - 1
           /\ QueueWithinLimit'
           /\ DroppedAreOld'
<1> USE Lengths
<1>1. /\ queue' \in Seq(Nat)
      /\ Len(queue') = Len(queue) - 1
      /\ \A i \in 1 .. Len(queue') : queue'[i] = queue[i + 1]
    BY HeadTailProperties DEF TypeOK
<1>2. QueueWithinLimit'
    BY <1>1 DEF QueueWithinLimit
<1>3. calls[Len(calls) - Len(queue) + 1] = Head(queue)
    BY DEF QueueWithinLimit
<1>4. DroppedAreOld'
    BY <1>1, <1>3, SMTT(20) DEF DroppedAreOld, Since, QueueWithinLimit
<1> QED
    BY <1>1, <1>2, <1>4

\* The invariant holds at the start.
LEMMA InitInv == Init => IInv
<1> SUFFICES ASSUME Init PROVE IInv
    OBVIOUS
<1>1. Len(calls) = 0 /\ Len(queue) = 0
    BY DEF Init
<1>2. TypeOK
    BY BoundAssumption DEF Init, TypeOK
<1>3. limit \in Int
    BY LimitsAssumption DEF Init
<1> QED
    BY <1>1, <1>2, <1>3
       DEF Init, IInv, QueueWithinLimit, Chronicle, DroppedAreOld, Steps, SlidingWindow

\* Every step of RunOrPause, of the call and of the clock keeps the invariant.
LEMMA StepInv == IInv /\ [Next]_vars => IInv'
<1> SUFFICES ASSUME IInv, [Next]_vars PROVE IInv'
    OBVIOUS
<1> USE DEF vars
<1>1. TypeOK /\ QueueWithinLimit /\ Chronicle /\ DroppedAreOld /\ Steps /\ SlidingWindow
    BY DEF IInv
<1>len. /\ Len(queue) \in Nat /\ Len(calls) \in Nat
        /\ limit \in Int /\ clock \in Nat /\ Frame \in Nat
        /\ \A i \in 1 .. Len(calls) : calls[i] \in Nat
        /\ \A i \in 1 .. Len(queue) : queue[i] \in Nat
        /\ Len(queue) = 0 <=> queue = << >>
        /\ queue # << >> => Head(queue) = queue[1]
    BY <1>1, Lengths
<1> USE <1>len
<1>2. CASE RunOrPause
  <2>1. TypeOK'
    BY <1>1, <1>2, BoundAssumption DEF RunOrPause, TypeOK
  <2> QED
    BY <1>1, <1>2, <2>1 DEF RunOrPause, IInv, QueueWithinLimit, Chronicle, DroppedAreOld,
                            Since, Steps, SlidingWindow
<1>3. CASE CleanOne
  <2>1. Since(Head(queue)) >= Frame
    BY <1>1, <1>3 DEF CleanOne, Free, TooOld, Since
  <2>2. /\ queue' \in Seq(Nat) /\ Len(queue') = Len(queue) - 1
        /\ QueueWithinLimit' /\ DroppedAreOld'
    BY <1>1, <1>3, <2>1, DropHead DEF CleanOne, Free
  <2> QED
    BY <1>1, <1>3, <2>2 DEF CleanOne, Free, IInv, TypeOK, Chronicle, Steps, SlidingWindow
<1>4. CASE CleanDone
  <2>1. pc' = "record" /\ limit > 0 => Len(queue) < limit
    BY <1>1, <1>4 DEF CleanDone, LimitExceeded, QueueWithinLimit
  <2>2. Steps'
    BY <1>1, <1>4, <2>1 DEF CleanDone, LimitExceeded, Steps
  <2> QED
    BY <1>1, <1>4, <2>2 DEF CleanDone, IInv, TypeOK, QueueWithinLimit, Chronicle,
                            DroppedAreOld, Since, SlidingWindow
<1>5. CASE Pause
  <2>1. queue # << >> /\ Head(queue) \in Nat
    BY <1>1, <1>5 DEF Pause, Steps, InfiniteLimit
  <2>2. /\ wake' \in Nat /\ wake' - Head(queue) >= Frame
        /\ clock < wake' => wake' - Head(queue) = Frame
    BY <1>1, <1>5, <2>1 DEF Pause, Remaining, Since
  <2> QED
    BY <1>1, <1>5, <2>2 DEF Pause, IInv, TypeOK, QueueWithinLimit, Chronicle, DroppedAreOld,
                            Since, Steps, SlidingWindow
<1>6. CASE Wake
  <2>1. queue # << >> /\ Head(queue) \in Nat
    BY <1>1, <1>6 DEF Wake, Steps, InfiniteLimit
  <2>2. Since(Head(queue)) >= Frame
    BY <1>1, <1>6, <2>1 DEF Wake, Since, Steps, TypeOK
  <2>3. /\ queue' \in Seq(Nat) /\ Len(queue') = Len(queue) - 1
        /\ QueueWithinLimit' /\ DroppedAreOld'
    BY <1>1, <1>6, <2>1, <2>2, DropHead DEF Wake, Free
  <2> QED
    BY <1>1, <1>6, <2>3 DEF Wake, IInv, TypeOK, Chronicle, Steps, SlidingWindow
<1>7. CASE Record
  <2>1. /\ queue' \in Seq(Nat) /\ Len(queue') = Len(queue) + 1
        /\ \A i \in 1 .. Len(queue) : queue'[i] = queue[i]
        /\ queue'[Len(queue) + 1] = clock
    BY <1>1, <1>7, AppendProperties DEF Record, TypeOK
  <2>2. /\ calls' \in Seq(Nat) /\ Len(calls') = Len(calls) + 1
        /\ \A i \in 1 .. Len(calls) : calls'[i] = calls[i]
        /\ calls'[Len(calls) + 1] = clock
    BY <1>1, <1>7, AppendProperties DEF Record, TypeOK
  <2>3. UNCHANGED <<limit, clock, wake, started, sends>> /\ pc' = "run"
        /\ (limit > 0 => Len(queue) < limit)
    BY <1>1, <1>7 DEF Record, Steps
  <2>4. TypeOK'
    BY <1>1, <2>1, <2>2, <2>3 DEF TypeOK
  <2>5. QueueWithinLimit'
    <3>1. Len(queue) <= Len(calls)
        BY <1>1 DEF QueueWithinLimit
    <3>2. ASSUME NEW i \in 1 .. Len(queue) + 1
          PROVE  queue'[i] = calls'[Len(calls) - Len(queue) + i]
      <4>1. CASE i \in 1 .. Len(queue)
        <5>1. Len(calls) - Len(queue) + i \in 1 .. Len(calls)
            BY <3>1, <4>1
        <5>2. queue[i] = calls[Len(calls) - Len(queue) + i]
            BY <1>1, <4>1 DEF QueueWithinLimit
        <5> QED
            BY <2>1, <2>2, <4>1, <5>1, <5>2
      <4>2. CASE i = Len(queue) + 1
        <5>1. Len(calls) - Len(queue) + i = Len(calls) + 1
            BY <4>2
        <5> QED
            BY <2>1, <2>2, <4>2, <5>1
      <4> QED
        BY <4>1, <4>2, SMTT(20)
    <3>3. Len(calls') - Len(queue') = Len(calls) - Len(queue)
        BY <2>1, <2>2
    <3>4. limit' > 0 => Len(queue') <= limit'
        BY <2>1, <2>3
    <3>5. Len(queue') <= Len(calls')
        BY <2>1, <2>2, <3>1
    <3> QED
        BY <2>1, <3>2, <3>3, <3>4, <3>5 DEF QueueWithinLimit
  <2>6. Chronicle'
    <3>1. \A i \in 1 .. Len(calls) + 1 : i \in 1 .. Len(calls) \/ i = Len(calls) + 1
        OBVIOUS
    <3>2. \A i \in 1 .. Len(calls) + 1 : calls'[i] <= clock
        BY <1>1, <2>2, <3>1 DEF Chronicle
    <3>3. ASSUME NEW i \in 1 .. Len(calls) + 1, NEW j \in 1 .. Len(calls) + 1, i <= j
          PROVE  calls'[i] <= calls'[j]
      <4>1. CASE j \in 1 .. Len(calls)
        <5>1. i \in 1 .. Len(calls)
            BY <3>3, <4>1
        <5> QED
            BY <1>1, <2>2, <3>3, <4>1, <5>1 DEF Chronicle
      <4>2. CASE j = Len(calls) + 1
        BY <2>2, <3>2, <4>2
      <4> QED
        BY <3>1, <4>1, <4>2
    <3> QED
        BY <2>2, <2>3, <3>2, <3>3 DEF Chronicle
  <2>7. DroppedAreOld'
    <3>1. Len(calls') - Len(queue') = Len(calls) - Len(queue)
        BY <2>1, <2>2
    <3>2. ASSUME NEW i \in 1 .. Len(calls) - Len(queue) PROVE clock - calls'[i] >= Frame
      <4>1. i \in 1 .. Len(calls)
        OBVIOUS
      <4> QED
        BY <1>1, <2>2, <4>1 DEF DroppedAreOld, Since
    <3> QED
        BY <2>3, <3>1, <3>2 DEF DroppedAreOld, Since
  <2>8. Steps'
    BY <2>3 DEF Steps
  <2>9. SlidingWindow'
    <3> SUFFICES ASSUME limit > 0, NEW i \in 1 .. Len(calls) + 1 - limit
                 PROVE  calls'[i + limit] - calls'[i] >= Frame
        BY <2>2, <2>3 DEF SlidingWindow
    <3>1. i \in 1 .. Len(calls) /\ i \in Int
        BY <1>1
    <3>2. CASE i + limit <= Len(calls)
      <4>1. i \in 1 .. Len(calls) - limit /\ i + limit \in 1 .. Len(calls)
        BY <3>1, <3>2
      <4>2. calls[i + limit] - calls[i] >= Frame
        BY <1>1, <4>1 DEF SlidingWindow
      <4> QED
        BY <2>2, <3>1, <4>1, <4>2
    <3>3. CASE i + limit = Len(calls) + 1
      <4>1. i <= Len(calls) - Len(queue)
        BY <1>1, <2>3, <3>1, <3>3
      <4>2. clock - calls[i] >= Frame
        BY <1>1, <3>1, <4>1 DEF DroppedAreOld, Since
      <4> QED
        BY <2>2, <3>1, <3>3, <4>2
    <3> QED
        BY <1>1, <3>1, <3>2, <3>3
  <2> QED
    BY <2>4, <2>5, <2>6, <2>7, <2>8, <2>9 DEF IInv
<1>8. CASE Send
  <2>1. sends' \in Seq(Nat)
    BY <1>1, <1>8, AppendProperties DEF Send, TypeOK
  <2> QED
    BY <1>1, <1>8, <2>1 DEF Send, IInv, TypeOK, QueueWithinLimit, Chronicle, DroppedAreOld,
                            Since, Steps, SlidingWindow
<1>9. CASE FailBeforeSend
    BY <1>1, <1>9 DEF FailBeforeSend, IInv, TypeOK, QueueWithinLimit, Chronicle,
                      DroppedAreOld, Since, Steps, SlidingWindow
<1>10. CASE Tick
  <2>1. clock' = clock + 1 /\ UNCHANGED <<limit, queue, pc, wake, started, calls, sends>>
    BY <1>10 DEF Tick
  <2>2. TypeOK'
    BY <1>1, <2>1 DEF TypeOK
  <2>3. Chronicle'
    BY <1>1, <2>1 DEF Chronicle
  <2>4. DroppedAreOld'
    <3>1. ASSUME NEW i \in 1 .. Len(calls) - Len(queue) PROVE clock + 1 - calls[i] >= Frame
      <4>1. i \in 1 .. Len(calls)
        OBVIOUS
      <4> QED
        BY <1>1, <4>1 DEF DroppedAreOld, Since
    <3> QED
        BY <2>1, <3>1, SMTT(20) DEF DroppedAreOld, Since
  <2>5. Steps'
    <3>1. wake \in Nat
        BY <1>1 DEF TypeOK
    <3> QED
        BY <1>1, <2>1, <3>1 DEF Steps
  <2> QED
    BY <1>1, <2>1, <2>2, <2>3, <2>4, <2>5 DEF IInv, QueueWithinLimit, SlidingWindow
<1>11. CASE SuiteEnd \/ UNCHANGED vars
    BY <1>1, <1>11 DEF SuiteEnd, IInv, TypeOK, QueueWithinLimit, Chronicle, DroppedAreOld,
                       Since, Steps, SlidingWindow
<1> QED
    BY <1>2, <1>3, <1>4, <1>5, <1>6, <1>7, <1>8, <1>9, <1>10, <1>11 DEF Next

\* The invariant holds in every state.
THEOREM Invariance == Spec => []IInv
    BY InitInv, StepInv, PTL DEF Spec

\* The queue is the tail of the recorded calls and never longer than the limit.
THEOREM QueueBounded == Spec => []QueueWithinLimit
<1>1. IInv => QueueWithinLimit
    BY DEF IInv
<1> QED
    BY Invariance, <1>1, PTL

\* A recorded call and the limit-th one after it are a frame apart, for every
\* limit above zero, every frame and every clock.
THEOREM WindowKept == Spec => []SlidingWindow
<1>1. IInv => SlidingWindow
    BY DEF IInv
<1> QED
    BY Invariance, <1>1, PTL

\* The throttle sleeps for a time only when as many calls as the limit were
\* recorded less than a frame ago, and never without a limit above zero.
THEOREM DelaysAreNeeded == Spec => []PausesOnlyWhenFull
<1>1. IInv => PausesOnlyWhenFull
  <2> SUFFICES ASSUME IInv, pc = "sleep"
               PROVE  /\ limit > 0
                      /\ clock < wake => \A i \in Len(calls) - limit + 1 .. Len(calls) :
                                             Since(calls[i]) < Frame
      BY DEF PausesOnlyWhenFull
  <2> USE Lengths
  <2>1. TypeOK
      BY DEF IInv
  <2>2. Len(queue) = limit /\ limit > 0
      BY <2>1 DEF IInv, Steps, InfiniteLimit
  <2>3. Head(queue) = calls[Len(calls) - limit + 1] /\ limit <= Len(calls)
      BY <2>1, <2>2 DEF IInv, QueueWithinLimit
  <2>4. ASSUME clock < wake, NEW i \in Len(calls) - limit + 1 .. Len(calls)
        PROVE  Since(calls[i]) < Frame
    <3>1. Len(calls) - limit + 1 \in 1 .. Len(calls) /\ i \in 1 .. Len(calls)
        BY <2>1, <2>2, <2>3
    <3>2. calls[i] >= Head(queue)
        BY <2>1, <2>3, <3>1 DEF IInv, Chronicle
    <3>3. wake - Head(queue) = Frame /\ wake \in Nat
        BY <2>4 DEF IInv, Steps, TypeOK
    <3>. QED
        BY <2>1, <2>2, <2>4, <3>1, <3>2, <3>3 DEF Since
  <2>. QED
      BY <2>2, <2>4
<1> QED
    BY Invariance, <1>1, PTL

=============================================================================
