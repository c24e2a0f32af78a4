----------------------------- MODULE ParallelRun ----------------------------
(***************************************************************************)
(* One run of bozr from the moment the root directory has been walked to   *)
(* the exit of the process: RunParallel and runSuites (parallel.go), the   *)
(* loader goroutine (NewSuiteLoader, loader.go) and the reporters          *)
(* (reporter.go).                                                          *)
(*                                                                         *)
(*   loader   sends every suite it can read on an unbuffered channel, then *)
(*            closes the channel;                                          *)
(*   workers  receive a suite, run it, send its results to the main        *)
(*            goroutine on a second unbuffered channel; when the first     *)
(*            channel is closed they decrement the WaitGroup and end;      *)
(*   closer   waits for the WaitGroup and closes the results channel;      *)
(*   main     hands each batch of results to the console reporter and then *)
(*            the JUnit reporter, until the channel is closed; then prints *)
(*            the summary and exits, which ends every goroutine.           *)
(*                                                                         *)
(* A send on an unbuffered channel and its receive are one step.  What a   *)
(* suite's execution may do is a parameter: return one of Outcomes, wait   *)
(* for ever (no timeout on the HTTP client) or panic, which ends the       *)
(* process.  Reporting a batch on the console is one step, creating and    *)
(* writing a JUnit file are two.                                           *)
(***************************************************************************)
EXTENDS Integers, FiniteSets, SuiteFiles

CONSTANTS
    Files,          \* the suite files, in the order of the directory walk
    Unloadable,     \* indices of those ToSuite returns nil for
    Outcomes,       \* [File -> set of result lists runSuite may return]
    MayHang,        \* suites that talk to a server that may never answer
    MayPanic,       \* suites whose execution may panic
    Worker,         \* the worker goroutines
    JUnit,          \* is the --junit flag given?
    DiskFails,      \* suites whose report file may fail to be created or written
    LeftOver        \* report names an earlier run left in the output directory

File == 1 .. Len(Files)
NoFile == 0
Verdict == {"passed", "failed", "skipped"}
Results == Seq(Verdict)

\* flushSuite: the report file is named after the suite's full name.
ReportNameWithoutPackage(f) == Files[f].base
ReportName(f) == FullName(Files[f])
Name == {FullName(Files[f]) : f \in File}

ASSUME FilesAssumption == Files \in Seq(SuiteFile)
ASSUME UnloadableAssumption == Unloadable \subseteq File
ASSUME OutcomesAssumption ==
    \A f \in File : \A r \in Outcomes[f] :
        /\ r \in Results
        /\ Files[f].xext => \A i \in 1 .. Len(r) : r[i] = "skipped"
ASSUME MishapAssumption ==
    MayHang \subseteq File /\ MayPanic \subseteq File /\ DiskFails \subseteq File
ASSUME WorkerAssumption == IsFiniteSet(Worker) /\ Worker # {}
ASSUME FlagAssumption == JUnit \in BOOLEAN
ASSUME LeftOverAssumption == LeftOver \subseteq Name

-----------------------------------------------------------------------------

VARIABLES
    pos,        \* DirSuiteFileIterator.pos: files taken from the walk
    lpc,        \* loader: "next", "send" (offers Files[pos]) or "done"
    wpc,        \* worker: "recv", "run", "hung", "send" or "done"
    task,       \* worker: the suite it holds
    out,        \* worker: the results it is sending
    wg,         \* counter of the WaitGroup
    closed,     \* has the closer closed the results channel?
    mpc,        \* main: "recv", "console", "create", "write", "flush", "exit"
    batch,      \* main: the results and the flag it received last
    printed,    \* stdout: suites with their results, in the order printed
    tally,      \* ConsoleReporter.total, failed and skipped
    summary,    \* stdout: what Flush printed
    disk,       \* the JUnit output directory
    crashed     \* has a panic ended the process?

loaderVars == <<pos, lpc>>
workerVars == <<wpc, task, out, wg>>
reportVars == <<printed, tally, summary, disk>>
vars == <<loaderVars, workerVars, closed, mpc, batch, reportVars, crashed>>

Alive == ~crashed /\ mpc # "exit"

CountOf(v, results) == Cardinality({i \in 1 .. Len(results) : results[i] = v})

NoBatch == [file |-> NoFile, results |-> << >>, more |-> TRUE]
ClosedBatch == [file |-> NoFile, results |-> << >>, more |-> FALSE]
NoSummary == [overall |-> "none", total |-> 0, passed |-> 0, failed |-> 0, skipped |-> 0]

\* The attributes of a <testsuite>; state tells a file that does not exist
\* ("absent") from one created and not yet written ("empty"), a written one
\* ("whole") and one of an earlier run ("stale").
NoReport(state) ==
    [state |-> state, suite |-> NoFile, tests |-> 0, failures |-> 0, skipped |-> 0]
ReportOfWithoutSkipped(f, results) ==
    [state |-> "whole", suite |-> f, tests |-> Len(results) - CountOf("skipped", results),
     failures |-> CountOf("failed", results), skipped |-> CountOf("skipped", results)]
ReportOf(f, results) ==
    [state |-> "whole", suite |-> f, tests |-> Len(results),
     failures |-> CountOf("failed", results), skipped |-> CountOf("skipped", results)]

\* wg.Add(numRoutines), before any worker starts.
InitialWaitCountTooLow == Cardinality(Worker) - 1
InitialWaitCountTooHigh == Cardinality(Worker) + 1
InitialWaitCount == Cardinality(Worker)

Init ==
    /\ pos = 0 /\ lpc = "next"
    /\ wpc = [w \in Worker |-> "recv"]
    /\ task = [w \in Worker |-> NoFile]
    /\ out = [w \in Worker |-> << >>]
    /\ wg = InitialWaitCount
    /\ closed = FALSE
    /\ mpc = "recv" /\ batch = NoBatch
    /\ printed = << >>
    /\ tally = [total |-> 0, failed |-> 0, skipped |-> 0]
    /\ summary = NoSummary
    /\ disk = [n \in Name |-> NoReport(IF n \in LeftOver THEN "stale" ELSE "absent")]
    /\ crashed = FALSE

-----------------------------------------------------------------------------
(* Loader *)

\* A file ToSuite returns nil for is passed over.
AfterLoadSkipsIgnored(f) == IF f \in Unloadable \/ Files[f].xext THEN "next" ELSE "send"
AfterLoad(f) == IF f \in Unloadable THEN "next" ELSE "send"

LoadNext ==
    /\ Alive /\ lpc = "next" /\ pos < Len(Files)
    /\ pos' = pos + 1
    /\ lpc' = AfterLoad(pos + 1)
    /\ UNCHANGED <<workerVars, closed, mpc, batch, reportVars, crashed>>

CloseLoader ==
    /\ Alive /\ lpc = "next" /\ pos = Len(Files)
    /\ lpc' = "done"
    /\ UNCHANGED <<pos, workerVars, closed, mpc, batch, reportVars, crashed>>

-----------------------------------------------------------------------------
(* Workers *)

ReceiveSuiteTwice(w) ==
    /\ Alive /\ wpc[w] = "recv" /\ lpc = "send"
    /\ lpc' \in {"send", "next"}
    /\ wpc' = [wpc EXCEPT ![w] = "run"]
    /\ task' = [task EXCEPT ![w] = pos]
    /\ UNCHANGED <<pos, out, wg, closed, mpc, batch, reportVars, crashed>>

ReceiveSuite(w) ==
    /\ Alive /\ wpc[w] = "recv" /\ lpc = "send"
    /\ lpc' = "next"
    /\ wpc' = [wpc EXCEPT ![w] = "run"]
    /\ task' = [task EXCEPT ![w] = pos]
    /\ UNCHANGED <<pos, out, wg, closed, mpc, batch, reportVars, crashed>>

FinishSuite(w) ==
    /\ Alive /\ wpc[w] = "run"
    /\ \E r \in Outcomes[task[w]] : out' = [out EXCEPT ![w] = r]
    /\ wpc' = [wpc EXCEPT ![w] = "send"]
    /\ UNCHANGED <<loaderVars, task, wg, closed, mpc, batch, reportVars, crashed>>

HangInSuite(w) ==
    /\ Alive /\ wpc[w] = "run" /\ task[w] \in MayHang
    /\ wpc' = [wpc EXCEPT ![w] = "hung"]
    /\ UNCHANGED <<loaderVars, task, out, wg, closed, mpc, batch, reportVars, crashed>>

\* A panic of any goroutine ends the process at once.
PanicInSuite(w) ==
    /\ Alive /\ wpc[w] = "run" /\ task[w] \in MayPanic
    /\ crashed' = TRUE
    /\ UNCHANGED <<loaderVars, workerVars, closed, mpc, batch, reportVars>>

\* The worker's send and main's receive.
SendResults(w) ==
    /\ Alive /\ wpc[w] = "send" /\ mpc = "recv"
    /\ batch' = [file |-> task[w], results |-> out[w], more |-> TRUE]
    /\ mpc' = "console"
    /\ wpc' = [wpc EXCEPT ![w] = "recv"]
    /\ task' = [task EXCEPT ![w] = NoFile]
    /\ out' = [out EXCEPT ![w] = << >>]
    /\ UNCHANGED <<loaderVars, wg, closed, reportVars, crashed>>

LeaveLoop(w) ==
    /\ Alive /\ wpc[w] = "recv" /\ lpc = "done"
    /\ wpc' = [wpc EXCEPT ![w] = "done"]
    /\ wg' = wg - 1
    /\ UNCHANGED <<loaderVars, task, out, closed, mpc, batch, reportVars, crashed>>

-----------------------------------------------------------------------------
(* Closer *)

CloseResults ==
    /\ Alive /\ wg = 0 /\ ~closed
    /\ closed' = TRUE
    /\ UNCHANGED <<loaderVars, workerVars, mpc, batch, reportVars, crashed>>

-----------------------------------------------------------------------------
(* Main and the reporters *)

\* The receive of nil, FALSE from the closed channel: Report(nil) is still called.
ReceiveClosed ==
    /\ Alive /\ mpc = "recv" /\ closed
    /\ batch' = ClosedBatch
    /\ mpc' = "console"
    /\ UNCHANGED <<loaderVars, workerVars, closed, reportVars, crashed>>

\* Where the loop of RunParallel goes when both reporters are done.
NextReceiveUnlessEmpty == IF batch.more /\ batch.results # << >> THEN "recv" ELSE "flush"
NextReceive == IF batch.more THEN "recv" ELSE "flush"

AddSkippedAsFailed(t, results) ==
    [total   |-> t.total + Len(results),
     failed  |-> t.failed + Len(results) - CountOf("passed", results),
     skipped |-> t.skipped + CountOf("skipped", results)]
Add(t, results) ==
    [total   |-> t.total + Len(results),
     failed  |-> t.failed + CountOf("failed", results),
     skipped |-> t.skipped + CountOf("skipped", results)]

\* ConsoleReporter.Report; a suite without cases is not mentioned.
ConsoleReport ==
    /\ Alive /\ mpc = "console"
    /\ IF batch.results = << >>
       THEN UNCHANGED <<printed, tally>>
       ELSE /\ printed' = Append(printed, [file |-> batch.file, results |-> batch.results])
            /\ tally' = Add(tally, batch.results)
    /\ IF JUnit /\ batch.results # << >>
       THEN mpc' = "create" /\ UNCHANGED batch
       ELSE mpc' = NextReceive /\ batch' = NoBatch
    /\ UNCHANGED <<loaderVars, workerVars, closed, summary, disk, crashed>>

\* JUnitXMLReporter.Report up to os.Create, which truncates an existing file.
JUnitCreate ==
    /\ Alive /\ mpc = "create"
    /\ disk' = [disk EXCEPT ![ReportName(batch.file)] = NoReport("empty")]
    /\ mpc' = "write"
    /\ UNCHANGED <<loaderVars, workerVars, closed, batch, printed, tally, summary, crashed>>

\* os.MkdirAll or os.Create fails: panic(err).
JUnitCreateFails ==
    /\ Alive /\ mpc = "create" /\ batch.file \in DiskFails
    /\ crashed' = TRUE
    /\ UNCHANGED <<loaderVars, workerVars, closed, mpc, batch, reportVars>>

\* f.Write, whose error is dropped: on failure the file stays as it is.
JUnitWrite ==
    /\ Alive /\ mpc = "write"
    /\ \/ disk' = [disk EXCEPT ![ReportName(batch.file)] =
                       ReportOf(batch.file, batch.results)]
       \/ batch.file \in DiskFails /\ UNCHANGED disk
    /\ mpc' = NextReceive /\ batch' = NoBatch
    /\ UNCHANGED <<loaderVars, workerVars, closed, printed, tally, summary, crashed>>

OverallIfNonePassed ==
    IF tally.failed # 0 /\ tally.failed + tally.skipped = tally.total THEN "FAILED" ELSE "PASSED"
Overall == IF tally.failed # 0 THEN "FAILED" ELSE "PASSED"

\* ConsoleReporter.Flush, then main returns.
Flush ==
    /\ Alive /\ mpc = "flush"
    /\ summary' = [overall |-> Overall,
                   total   |-> tally.total,
                   passed  |-> tally.total - tally.failed - tally.skipped,
                   failed  |-> tally.failed,
                   skipped |-> tally.skipped]
    /\ mpc' = "exit"
    /\ UNCHANGED <<loaderVars, workerVars, closed, batch, printed, tally, disk, crashed>>

-----------------------------------------------------------------------------

\* Steps that change nothing: the process is gone, or an HTTP exchange is pending.
Over == ~Alive /\ UNCHANGED vars
AwaitAnswer(w) == Alive /\ wpc[w] = "hung" /\ UNCHANGED vars

Loader == LoadNext \/ CloseLoader
RunSuite(w) == FinishSuite(w) \/ HangInSuite(w) \/ PanicInSuite(w)
WorkerStep(w) == ReceiveSuite(w) \/ RunSuite(w) \/ SendResults(w) \/ LeaveLoop(w)
Main == ReceiveClosed \/ ConsoleReport \/ JUnitCreate \/ JUnitCreateFails \/ JUnitWrite \/ Flush

Next ==
    \/ Loader
    \/ \E w \in Worker : WorkerStep(w) \/ AwaitAnswer(w)
    \/ CloseResults
    \/ Main
    \/ Over

\* The Go scheduler runs every goroutine that can run.  A suite's execution
\* ends, panics or waits for ever.
Fairness ==
    /\ WF_vars(Loader)
    /\ \A w \in Worker : WF_vars(WorkerStep(w))
    /\ WF_vars(CloseResults)
    /\ WF_vars(Main)

Spec == Init /\ [][Next]_vars /\ Fairness

-----------------------------------------------------------------------------
(* Properties *)

Busy(w) == wpc[w] \in {"run", "hung", "send"}
Printed == {printed[i].file : i \in 1 .. Len(printed)}
Reporting == mpc \in {"console", "create", "write"} /\ batch.more
Hung(w) == wpc[w] = "hung"

\* The suites no summary may leave out: readable, and never without results.
Mandatory == {f \in File \ Unloadable : << >> \notin Outcomes[f]}

\* No two suites share a report file.
DistinctNames == \A f, g \in File : FullName(Files[f]) = FullName(Files[g]) => f = g

ReportFile ==
    [state : {"absent", "stale", "empty", "whole"}, suite : File \cup {NoFile},
     tests : Nat, failures : Nat, skipped : Nat]

\* Every variable stays in its range; in particular the WaitGroup's counter
\* never goes below zero, on which Done would panic (parallel.go:64).
TypeOK ==
    /\ pos \in 0 .. Len(Files)
    /\ lpc \in {"next", "send", "done"}
    /\ wpc \in [Worker -> {"recv", "run", "hung", "send", "done"}]
    /\ task \in [Worker -> File \cup {NoFile}]
    /\ out \in [Worker -> Results]
    /\ wg \in Nat
    /\ closed \in BOOLEAN
    /\ mpc \in {"recv", "console", "create", "write", "flush", "exit"}
    /\ batch \in [file : File \cup {NoFile}, results : Results, more : BOOLEAN]
    /\ printed \in Seq([file : File, results : Results])
    /\ tally \in [total : Nat, failed : Nat, skipped : Nat]
    /\ summary \in [overall : {"none", "PASSED", "FAILED"}, total : Nat, passed : Int,
                    failed : Nat, skipped : Nat]
    /\ disk \in [Name -> ReportFile]
    /\ crashed \in BOOLEAN

\* The results channel is closed only when no worker can send on it any more
\* (a send on a closed channel panics; the comment at parallel.go:29), and no
\* batch is on its way that main would miss when it leaves its loop.
NoSendAfterClose ==
    /\ closed => lpc = "done" /\ \A w \in Worker : wpc[w] = "done"
    /\ ~batch.more \/ mpc \in {"flush", "exit"} => closed

\* Whatever the interleaving of the workers, a suite is in one place at a time:
\* offered by the loader, held by one worker, being reported, or printed; and
\* it is printed once.
OnePlace ==
    /\ \A w \in Worker : Busy(w) => /\ ~(lpc = "send" /\ task[w] = pos)
                                    /\ ~(Reporting /\ batch.file = task[w])
                                    /\ task[w] \notin Printed
    /\ \A v, w \in Worker : v # w /\ Busy(v) /\ Busy(w) => task[v] # task[w]
    /\ \A i, j \in 1 .. Len(printed) : printed[i].file = printed[j].file => i = j

\* No suite is lost on the way: once the loader has taken a readable suite it
\* stays offered, held or in main's hands until it is printed, unless it has
\* no results at all.
NoSuiteLost ==
    \A f \in Mandatory :
        f <= pos => \/ lpc = "send" /\ f = pos
                    \/ \E w \in Worker : Busy(w) /\ task[w] = f
                    \/ mpc = "console" /\ batch.file = f
                    \/ f \in Printed

\* The summary covers every mandatory suite, its counts are those of the cases
\* printed above it, and it says FAILED exactly when one of these failed.
SummaryTruthful ==
    mpc = "exit" =>
        LET cases(v) == UNION {{<<i, j>> : j \in {j \in 1 .. Len(printed[i].results) :
                                                     printed[i].results[j] = v}} :
                                 i \in 1 .. Len(printed)}
        IN /\ Mandatory \subseteq Printed
           /\ summary.overall = IF cases("failed") = {} THEN "PASSED" ELSE "FAILED"
           /\ summary.passed = Cardinality(cases("passed"))
           /\ summary.failed = Cardinality(cases("failed"))
           /\ summary.skipped = Cardinality(cases("skipped"))

\* With --junit and distinct names, every printed suite but the one being
\* reported has a complete report of its own that counts the same passed,
\* failed and skipped cases, whatever an earlier run left in the directory.
JUnitMatchesConsole ==
    JUnit /\ DistinctNames =>
        \A i \in 1 .. Len(printed) :
            LET f == printed[i].file
                report == disk[ReportName(f)]
                results == printed[i].results
            IN f \notin DiskFails /\ ~(Reporting /\ batch.file = f) =>
                  /\ report.state = "whole" /\ report.suite = f
                  /\ report.failures = CountOf("failed", results)
                  /\ report.skipped = CountOf("skipped", results)
                  /\ report.tests - report.failures - report.skipped =
                         CountOf("passed", results)

\* A complete report is never truncated, changed or replaced when names are
\* distinct.
ReportsAreFinal ==
    [][DistinctNames => \A n \in Name : disk[n].state = "whole" => disk'[n] = disk[n]]_vars

\* The comment at reporter.go:272: a "separate xml file for each test sute".
\* At the end of the run, the file named after a printed suite is its own.
SeparateReports ==
    JUnit /\ mpc = "exit" =>
        \A f \in Printed \ DiskFails : disk[ReportName(f)].suite = f

\* The run ends with a summary unless a panic ends it or a suite waits for ever.
Termination == <>(mpc = "exit" \/ crashed \/ \E w \in Worker : Hung(w))

\* One worker that waits for ever does not keep the suites of the others from
\* being reported: as long as a worker is left, every mandatory suite is
\* printed unless it is itself the one that waits.
NoStarvation ==
    \A f \in Mandatory :
        <>(\/ f \in Printed
           \/ crashed
           \/ \E w \in Worker : Hung(w) /\ task[w] = f
           \/ \A w \in Worker : Hung(w))

\* What the run promises its reader (RunContract): the printed suites are the
\* reports, the summary line is the verdict.
Contract == INSTANCE RunContract WITH
    Suite <- File,
    Mandatory <- Mandatory,
    MayReport <- Outcomes,
    Fails <- LAMBDA r : \E i \in 1 .. Len(r) : r[i] = "failed",
    reports <- {[suite |-> printed[i].file, results |-> printed[i].results] :
                   i \in 1 .. Len(printed)},
    verdict <- summary.overall

ImplementsContract == Contract!Spec

=============================================================================
