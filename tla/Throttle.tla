------------------------------ MODULE Throttle ------------------------------
(***************************************************************************)
(* The rate limiter of a suite (Throttle, types.go), as the loop of        *)
(* runSuite uses it: RunOrPause before every call, then the call's         *)
(* request.  The clock is read at several places of RunOrPause and may     *)
(* advance between any two of them, while the call's request is being      *)
(* prepared, and while the response is awaited.                            *)
(***************************************************************************)
EXTENDS Integers, Sequences

CONSTANTS
    Frame,          \* Throttle.timeFrame, in ticks
    Limits,         \* the values the -throttle flag is given
    MaxCalls,       \* bound: calls of the suite
    MaxClock        \* bound: time passes beyond it only in a pause

ASSUME FrameAssumption == Frame \in Nat
ASSUME LimitsAssumption == Limits \subseteq Int
ASSUME BoundAssumption == MaxCalls \in Nat /\ MaxClock \in Nat

VARIABLES
    limit,      \* Throttle.limit
    queue,      \* Throttle.queue: the times of the calls of the current frame
    clock,      \* time.Now()
    pc,         \* "idle", "clean", "pause", "sleep", "record" or "run"
    wake,       \* when the sleep ends
    started,    \* calls that entered RunOrPause
    calls,      \* the times RunOrPause recorded, in order
    sends       \* the times requests were sent, in order

vars == <<limit, queue, clock, pc, wake, started, calls, sends>>

InfiniteLimit == 0

Since(time) == clock - time

Init ==
    /\ limit \in Limits
    /\ queue = << >>
    /\ clock = 0
    /\ pc = "idle" /\ wake = 0 /\ started = 0
    /\ calls = << >> /\ sends = << >>

\* RunOrPause is called; without a limit it returns at once.
RunOrPause ==
    /\ pc = "idle" /\ started < MaxCalls
    /\ started' = started + 1
    /\ pc' = IF limit = InfiniteLimit THEN "run" ELSE "clean"
    /\ UNCHANGED <<limit, queue, clock, wake, calls, sends>>

\* cleanOld keeps a call that is exactly one frame old.
TooOld(time) == Since(time) > Frame

\* t.queue = t.queue[1:]: the eldest call makes room.
FreeNothing == queue
Free == Tail(queue)

CleanOne ==
    /\ pc = "clean" /\ queue # << >> /\ TooOld(Head(queue))
    /\ queue' = Free
    /\ UNCHANGED <<limit, clock, pc, wake, started, calls, sends>>

LimitExceeded == Len(queue) = limit

CleanDone ==
    /\ pc = "clean"
    /\ queue # << >> => ~TooOld(Head(queue))
    /\ pc' = IF LimitExceeded THEN "pause" ELSE "record"
    /\ UNCHANGED <<limit, queue, clock, wake, started, calls, sends>>

\* How long to sleep: until the eldest call of the frame is a frame old.
RemainingSwapped == Since(Head(queue))
RemainingWholeFrame == Frame
Remaining == Frame - Since(Head(queue))

\* The clock may have passed the end of the frame since cleanOld looked at it:
\* time.Sleep of a negative duration returns at once.
Pause ==
    /\ pc = "pause"
    /\ wake' = IF Remaining > 0 THEN clock + Remaining ELSE clock
    /\ pc' = "sleep"
    /\ UNCHANGED <<limit, queue, clock, started, calls, sends>>

Wake ==
    /\ pc = "sleep" /\ clock >= wake
    /\ queue' = Free
    /\ pc' = "record"
    /\ UNCHANGED <<limit, clock, wake, started, calls, sends>>

Record ==
    /\ pc = "record"
    /\ queue' = Append(queue, clock)
    /\ calls' = Append(calls, clock)
    /\ pc' = "run"
    /\ UNCHANGED <<limit, clock, wake, started, sends>>

\* call: the request goes out, or its preparation fails and none does.
Send ==
    /\ pc = "run"
    /\ sends' = Append(sends, clock)
    /\ pc' = "idle"
    /\ UNCHANGED <<limit, queue, clock, wake, started, calls>>

FailBeforeSend ==
    /\ pc = "run"
    /\ pc' = "idle"
    /\ UNCHANGED <<limit, queue, clock, wake, started, calls, sends>>

Tick ==
    /\ clock < MaxClock \/ (pc = "sleep" /\ clock < wake)
    /\ clock' = clock + 1
    /\ UNCHANGED <<limit, queue, pc, wake, started, calls, sends>>

\* The suite has no further call.
SuiteEnd == pc = "idle" /\ started = MaxCalls /\ UNCHANGED vars

Next == \/ RunOrPause \/ CleanOne \/ CleanDone \/ Pause \/ Wake \/ Record
        \/ Send \/ FailBeforeSend \/ Tick \/ SuiteEnd

\* RunOrPause runs when it can and time passes; a call may wait for ever for
\* its response.
Throttling == CleanOne \/ CleanDone \/ Pause \/ Wake \/ Record
Fairness == WF_vars(Throttling) /\ WF_vars(Tick)

Spec == Init /\ [][Next]_vars /\ Fairness

-----------------------------------------------------------------------------
(* Properties *)

\* Every variable stays in its range.
TypeOK ==
    /\ limit \in Limits
    /\ queue \in Seq(Nat)
    /\ clock \in Nat
    /\ pc \in {"idle", "clean", "pause", "sleep", "record", "run"}
    /\ wake \in Nat
    /\ started \in 0 .. MaxCalls
    /\ calls \in Seq(Nat)
    /\ sends \in Seq(Nat)

\* The queue holds the most recent calls and never more than the limit: the
\* test at types.go:724 is an equality, which a longer queue would pass by.
QueueWithinLimit ==
    /\ limit > 0 => Len(queue) <= limit
    /\ Len(queue) <= Len(calls)
    /\ \A i \in 1 .. Len(queue) : queue[i] = calls[Len(calls) - Len(queue) + i]

\* "not more than X executions per time period" (types.go:696) for the times
\* RunOrPause records: a call and the limit-th one after it are at least a
\* frame apart, wherever the clock advances inside RunOrPause.
SlidingWindow ==
    limit > 0 => \A i \in 1 .. Len(calls) - limit : calls[i + limit] - calls[i] >= Frame

\* The throttle delays a call only when it must: going to sleep for a time means
\* that limit calls were recorded less than a frame ago.  Without a limit, or
\* with a negative one, it never sleeps.
PausesOnlyWhenFull ==
    pc = "sleep" =>
        /\ limit > 0
        /\ clock < wake => \A i \in Len(calls) - limit + 1 .. Len(calls) : Since(calls[i]) < Frame

\* Every call gets through: neither the cleaning of the queue nor the pause
\* lasts for ever, wherever the clock advances.
CallsGoThrough == pc \in {"clean", "pause", "sleep", "record"} ~> pc = "run"

\* The flag's promise (main.go:109), "no more than specified number of requests
\* per second": of the requests themselves, limit + 1 are never within a frame.
RequestsWithinLimit ==
    limit > 0 => \A i \in 1 .. Len(sends) - limit : sends[i + limit] - sends[i] >= Frame

=============================================================================
