------------------------- MODULE ParallelRunProofs --------------------------
(***************************************************************************)
(* Proofs about ParallelRun, for any suite files, any number of workers    *)
(* and any outcomes of the suites: TypeOK, NoSendAfterClose, OnePlace,     *)
(* NoSuiteLost, that the run implements RunContract, and what a run leaves *)
(* behind: the counts of the summary are those of the cases printed above  *)
(* it, and every report file counts the cases of its suite as the console  *)
(* does.                                                                   *)
(***************************************************************************)
EXTENDS ParallelRun, FiniteSetTheorems, FunctionTheorems, SequenceTheorems, TLAPS

-----------------------------------------------------------------------------
(* The inductive invariant *)

HasFailure(r) == \E i \in 1 .. Len(r) : r[i] = "failed"

\* A suite that has left the loader: taken from the walk and not on offer.
Taken(f) == f \in 1 .. pos /\ ~(lpc = "send" /\ f = pos)

\* The order in which the goroutines stop.
Shutdown ==
    /\ wg = Cardinality({w \in Worker : wpc[w] # "done"})
    /\ closed => wg = 0
    /\ \A w \in Worker : wpc[w] = "done" => lpc = "done"
    /\ lpc = "done" => pos = Len(Files)
    /\ ~batch.more \/ mpc \in {"flush", "exit"} => closed

\* Where a suite may be; OnePlace with what makes it inductive.
Places ==
    /\ lpc = "send" => pos \in File \ Unloadable
    /\ \A w \in Worker : Busy(w) => Taken(task[w])
    /\ Reporting => Taken(batch.file)
    /\ \A i \in 1 .. Len(printed) : Taken(printed[i].file)
    /\ mpc = "console" /\ batch.more => batch.file \notin Printed
    /\ mpc \in {"create", "write"} => batch.more
    /\ OnePlace

\* Results pass unchanged from the suite's execution to the counters.
Faithful ==
    /\ \A w \in Worker : wpc[w] = "send" => out[w] \in Outcomes[task[w]]
    /\ mpc = "console" /\ batch.more => batch.results \in Outcomes[batch.file]
    /\ ~batch.more => batch = ClosedBatch
    /\ \A i \in 1 .. Len(printed) : printed[i].results \in Outcomes[printed[i].file]
    /\ tally.failed = 0 <=> \A i \in 1 .. Len(printed) : ~HasFailure(printed[i].results)
    /\ mpc # "exit" => summary.overall = "none"

IInv == TypeOK /\ Shutdown /\ Places /\ Faithful /\ NoSuiteLost

-----------------------------------------------------------------------------
(* Lemmas about the operators *)

\* A count of verdicts is a natural number, and zero when there are none.
LEMMA CountFacts ==
    ASSUME NEW r \in Results, NEW v
    PROVE  /\ CountOf(v, r) \in Nat
           /\ CountOf(v, r) = 0 <=> \A i \in 1 .. Len(r) : r[i] # v
<1> DEFINE S == {i \in 1 .. Len(r) : r[i] = v}
<1>1. Len(r) \in Nat
    BY LenProperties DEF Results
<1>2. IsFiniteSet(1 .. Len(r))
    BY <1>1, FS_Interval
<1>3. IsFiniteSet(S)
    BY <1>2, FS_Subset
<1>4. Cardinality(S) \in Nat /\ (Cardinality(S) = 0 <=> S = {})
    BY <1>3, FS_CardinalityType, FS_EmptySet
<1> QED
    BY <1>4 DEF CountOf

\* The workers still in their loop, as the WaitGroup counts them.
Running == {w \in Worker : wpc[w] # "done"}

\* The number of running workers is a natural number, and zero when all are done.
LEMMA RunningFacts ==
    /\ Cardinality(Running) \in Nat
    /\ Cardinality(Running) = 0 <=> Running = {}
<1>1. IsFiniteSet(Running)
    BY WorkerAssumption, FS_Subset DEF Running
<1> QED
    BY <1>1, FS_CardinalityType, FS_EmptySet

\* The invariant holds at the start.
LEMMA InitInv == Init => IInv
<1> SUFFICES ASSUME Init PROVE IInv
    OBVIOUS
<1>1. Len(Files) \in Nat
    BY FilesAssumption, LenProperties
<1>2. Cardinality(Worker) \in Nat
    BY WorkerAssumption, FS_CardinalityType
<1>3. TypeOK
  <2>1. disk \in [Name -> ReportFile]
    BY DEF Init, NoReport, ReportFile
  <2>2. batch \in [file : File \cup {NoFile}, results : Results, more : BOOLEAN]
    BY DEF Init, NoBatch, Results
  <2>3. summary \in [overall : {"none", "PASSED", "FAILED"}, total : Nat, passed : Int,
                     failed : Nat, skipped : Nat]
    BY DEF Init, NoSummary
  <2>4. out \in [Worker -> Results] /\ printed \in Seq([file : File, results : Results])
    BY DEF Init, Results
  <2>5. wpc \in [Worker -> {"recv", "run", "hung", "send", "done"}]
    BY DEF Init
  <2>6. task \in [Worker -> File \cup {NoFile}]
    BY DEF Init
  <2>7. tally \in [total : Nat, failed : Nat, skipped : Nat]
    BY DEF Init
  <2>8. pos \in 0 .. Len(Files) /\ wg \in Nat
    BY <1>1, <1>2 DEF Init, InitialWaitCount
  <2> QED
    BY <2>1, <2>2, <2>3, <2>4, <2>5, <2>6, <2>7, <2>8 DEF Init, TypeOK
<1>4. Shutdown
  <2>1. {w \in Worker : wpc[w] # "done"} = Worker
    BY DEF Init
  <2> QED
    BY <2>1 DEF Init, Shutdown, InitialWaitCount, NoBatch
<1>5. Places
    BY DEF Init, Places, OnePlace, Busy, Reporting, Printed
<1>6. Faithful
    BY DEF Init, Faithful, NoBatch, NoSummary
<1>7. NoSuiteLost
    BY <1>1 DEF Init, NoSuiteLost, Mandatory, File
<1> QED
    BY <1>3, <1>4, <1>5, <1>6, <1>7 DEF IInv

-----------------------------------------------------------------------------
(* Type correctness of every step *)

\* Suites that have left the loader are suite files.
LEMMA TakenFacts ==
    ASSUME TypeOK, NEW f, Taken(f)
    PROVE  f \in File /\ f \in Int /\ f <= pos
<1>1. Len(Files) \in Nat
    BY FilesAssumption, LenProperties
<1> QED
    BY <1>1 DEF TypeOK, Taken, File

\* What printing a suite does to stdout.
LEMMA PrintFacts ==
    ASSUME TypeOK, NEW f \in File, NEW r \in Results,
           printed' = Append(printed, [file |-> f, results |-> r])
    PROVE  /\ printed' \in Seq([file : File, results : Results])
           /\ Len(printed) \in Nat
           /\ Len(printed') = Len(printed) + 1
           /\ \A i \in 1 .. Len(printed) : printed'[i] = printed[i]
           /\ printed'[Len(printed) + 1] = [file |-> f, results |-> r]
           /\ Printed' = Printed \cup {f}
<1> DEFINE Entry == [file : File, results : Results]
           entry == [file |-> f, results |-> r]
<1>1. printed \in Seq(Entry) /\ entry \in Entry
    BY DEF TypeOK
<1> HIDE DEF Entry, entry
<1>2. Len(printed) \in Nat
    BY <1>1, LenProperties
<1>3. /\ Append(printed, entry) \in Seq(Entry)
      /\ Len(Append(printed, entry)) = Len(printed) + 1
      /\ \A i \in 1 .. Len(printed) : Append(printed, entry)[i] = printed[i]
      /\ Append(printed, entry)[Len(printed) + 1] = entry
    BY <1>1, <1>2, AppendProperties
<1>4. printed' = Append(printed, entry)
    BY DEF entry
<1>5. entry.file = f
    BY DEF entry
<1>6. Printed' = Printed \cup {f}
    BY <1>2, <1>3, <1>4, <1>5 DEF Printed
<1> QED
    BY <1>2, <1>3, <1>4, <1>6 DEF Entry, entry

\* Every step keeps the variables in their ranges.
LEMMA TypeStep == IInv /\ [Next]_vars => TypeOK'
<1> SUFFICES ASSUME IInv, [Next]_vars PROVE TypeOK'
    OBVIOUS
<1> USE DEF vars, loaderVars, workerVars, reportVars
<1>1. Len(Files) \in Nat /\ TypeOK
    BY FilesAssumption, LenProperties DEF IInv
<1>2. CASE LoadNext
    BY <1>1, <1>2 DEF LoadNext, TypeOK, AfterLoad
<1>3. CASE CloseLoader
    BY <1>1, <1>3 DEF CloseLoader, TypeOK
<1>4. ASSUME NEW w \in Worker, ReceiveSuite(w) PROVE TypeOK'
  <2>1. pos \in File
    BY <1>4 DEF ReceiveSuite, IInv, Places
  <2> QED
    BY <1>1, <1>4, <2>1 DEF ReceiveSuite, TypeOK
<1>5. ASSUME NEW w \in Worker, FinishSuite(w) PROVE TypeOK'
  <2>1. task[w] \in File
    BY <1>1, <1>5, TakenFacts DEF FinishSuite, IInv, Places, Busy
  <2>2. out' \in [Worker -> Results]
    BY <1>1, <1>5, <2>1, OutcomesAssumption DEF FinishSuite, TypeOK
  <2> QED
    BY <1>1, <1>5, <2>2 DEF FinishSuite, TypeOK
<1>6. ASSUME NEW w \in Worker, HangInSuite(w) PROVE TypeOK'
    BY <1>1, <1>6 DEF HangInSuite, TypeOK
<1>7. ASSUME NEW w \in Worker, PanicInSuite(w) PROVE TypeOK'
    BY <1>1, <1>7 DEF PanicInSuite, TypeOK
<1>8. ASSUME NEW w \in Worker, SendResults(w) PROVE TypeOK'
  <2>1. batch' \in [file : File \cup {NoFile}, results : Results, more : BOOLEAN]
    BY <1>1, <1>8 DEF SendResults, TypeOK
  <2>2. out' \in [Worker -> Results] /\ task' \in [Worker -> File \cup {NoFile}]
    BY <1>1, <1>8 DEF SendResults, TypeOK, Results
  <2> QED
    BY <1>1, <1>8, <2>1, <2>2 DEF SendResults, TypeOK
<1>9. ASSUME NEW w \in Worker, LeaveLoop(w) PROVE TypeOK'
  <2>1. wg # 0
    BY <1>9, RunningFacts DEF LeaveLoop, IInv, Shutdown, Running
  <2>2. wg' \in Nat
    BY <1>1, <1>9, <2>1 DEF LeaveLoop, TypeOK
  <2> QED
    BY <1>1, <1>9, <2>2 DEF LeaveLoop, TypeOK
<1>10. CASE CloseResults
    BY <1>1, <1>10 DEF CloseResults, TypeOK
<1>11. CASE ReceiveClosed
  <2>1. batch' \in [file : File \cup {NoFile}, results : Results, more : BOOLEAN]
    BY <1>11 DEF ReceiveClosed, ClosedBatch, Results
  <2> QED
    BY <1>1, <1>11, <2>1 DEF ReceiveClosed, TypeOK
<1>12. CASE ConsoleReport
  <2>1. batch' \in [file : File \cup {NoFile}, results : Results, more : BOOLEAN]
    <3>1. NoBatch \in [file : File \cup {NoFile}, results : Results, more : BOOLEAN]
        BY DEF NoBatch, Results
    <3> QED
        BY <1>1, <1>12, <3>1 DEF ConsoleReport, TypeOK
  <2>2. batch.results \in Results
    BY <1>1 DEF TypeOK
  <2>3. printed' \in Seq([file : File, results : Results])
    <3>1. CASE batch.results = << >>
        BY <1>1, <1>12, <3>1 DEF ConsoleReport, TypeOK
    <3>2. CASE batch.results # << >>
      <4>1. batch.file \in File
        BY <1>1, <1>12, <3>2, TakenFacts
           DEF ConsoleReport, ClosedBatch, IInv, Faithful, Places, Reporting
      <4> QED
        BY <1>1, <1>12, <2>2, <3>2, <4>1, PrintFacts DEF ConsoleReport
    <3> QED
        BY <3>1, <3>2
  <2>4. tally' \in [total : Nat, failed : Nat, skipped : Nat]
    <3>1. Len(batch.results) \in Nat
        BY <2>2, LenProperties DEF Results
    <3>2. CountOf("failed", batch.results) \in Nat /\ CountOf("skipped", batch.results) \in Nat
        BY <2>2, CountFacts
    <3> QED
        BY <1>1, <1>12, <3>1, <3>2, SMTT(20) DEF ConsoleReport, Add, TypeOK
  <2> QED
    BY <1>1, <1>12, <2>1, <2>3, <2>4 DEF ConsoleReport, NextReceive, TypeOK
<1>13. CASE JUnitCreate
  <2>1. disk' \in [Name -> ReportFile]
    BY <1>1, <1>13 DEF JUnitCreate, NoReport, ReportFile, TypeOK
  <2> QED
    BY <1>1, <1>13, <2>1 DEF JUnitCreate, TypeOK
<1>14. CASE JUnitCreateFails
    BY <1>1, <1>14 DEF JUnitCreateFails, TypeOK
<1>15. CASE JUnitWrite
  <2>1. batch' \in [file : File \cup {NoFile}, results : Results, more : BOOLEAN]
    BY <1>15 DEF JUnitWrite, NoBatch, Results
  <2>2. batch.results \in Results /\ batch.file \in File \cup {NoFile}
    BY <1>1 DEF TypeOK
  <2>3. ReportOf(batch.file, batch.results) \in ReportFile
    <3>1. Len(batch.results) \in Nat
        BY <2>2, LenProperties DEF Results
    <3>2. CountOf("failed", batch.results) \in Nat /\ CountOf("skipped", batch.results) \in Nat
        BY <2>2, CountFacts
    <3> QED
        BY <2>2, <3>1, <3>2 DEF ReportOf, ReportFile
  <2>4. disk' \in [Name -> ReportFile]
    BY <1>1, <1>15, <2>3 DEF JUnitWrite, TypeOK
  <2> QED
    BY <1>1, <1>15, <2>1, <2>4 DEF JUnitWrite, NextReceive, TypeOK
<1>16. CASE Flush
  <2>1. summary' \in [overall : {"none", "PASSED", "FAILED"}, total : Nat, passed : Int,
                      failed : Nat, skipped : Nat]
    BY <1>1, <1>16 DEF Flush, Overall, TypeOK
  <2> QED
    BY <1>1, <1>16, <2>1 DEF Flush, TypeOK
<1>17. CASE UNCHANGED vars
    BY <1>1, <1>17 DEF TypeOK
<1> QED
    BY <1>2, <1>3, <1>4, <1>5, <1>6, <1>7, <1>8, <1>9, <1>10, <1>11, <1>12, <1>13, <1>14,
       <1>15, <1>16, <1>17
       DEF Next, Loader, Main, WorkerStep, RunSuite, Over, AwaitAnswer

-----------------------------------------------------------------------------
(* The order in which the goroutines stop *)

\* Once the WaitGroup is at zero no worker is left and the loader has ended.
LEMMA AllDone ==
    ASSUME TypeOK, Shutdown, wg = 0
    PROVE  lpc = "done" /\ \A w \in Worker : wpc[w] = "done"
<1>1. \A w \in Worker : wpc[w] = "done"
    BY RunningFacts DEF Running, Shutdown
<1> QED
    BY <1>1, WorkerAssumption DEF Shutdown

\* A step that leaves every worker in or out of its loop keeps the count.
LEMMA SameCount ==
    ASSUME Shutdown, UNCHANGED wg,
           \A w \in Worker : wpc'[w] = "done" <=> wpc[w] = "done"
    PROVE  wg' = Cardinality({w \in Worker : wpc'[w] # "done"})
<1>1. {w \in Worker : wpc'[w] # "done"} = {w \in Worker : wpc[w] # "done"}
    OBVIOUS
<1> QED
    BY <1>1 DEF Shutdown

\* Every step keeps the order of shutdown.
LEMMA ShutdownStep == IInv /\ [Next]_vars => Shutdown'
<1> SUFFICES ASSUME IInv, [Next]_vars PROVE Shutdown'
    OBVIOUS
<1> USE DEF vars, loaderVars, workerVars, reportVars
<1>1. TypeOK /\ Shutdown
    BY DEF IInv
<1>2. CASE LoadNext
  <2>1. wg' = Cardinality({w \in Worker : wpc'[w] # "done"})
    BY <1>1, <1>2, SameCount DEF LoadNext
  <2>2. ~ \E w \in Worker : wpc[w] = "done"
    BY <1>1, <1>2 DEF LoadNext, Shutdown
  <2>3. ~ closed
    BY <1>1, <1>2, AllDone DEF LoadNext, Shutdown
  <2> QED
    BY <1>1, <1>2, <2>1, <2>2, <2>3 DEF LoadNext, AfterLoad, Shutdown
<1>3. CASE CloseLoader
  <2>1. wg' = Cardinality({w \in Worker : wpc'[w] # "done"})
    BY <1>1, <1>3, SameCount DEF CloseLoader
  <2> QED
    BY <1>1, <1>3, <2>1 DEF CloseLoader, Shutdown
<1>4. ASSUME NEW w \in Worker, ReceiveSuite(w) PROVE Shutdown'
  <2>1. wg' = Cardinality({v \in Worker : wpc'[v] # "done"})
    BY <1>1, <1>4, SameCount DEF ReceiveSuite, TypeOK
  <2> QED
    BY <1>1, <1>4, <2>1 DEF ReceiveSuite, Shutdown, TypeOK
<1>5. ASSUME NEW w \in Worker, RunSuite(w) PROVE Shutdown'
  <2>1. wg' = Cardinality({v \in Worker : wpc'[v] # "done"})
    BY <1>1, <1>5, SameCount DEF RunSuite, FinishSuite, HangInSuite, PanicInSuite, TypeOK
  <2> QED
    BY <1>1, <1>5, <2>1 DEF RunSuite, FinishSuite, HangInSuite, PanicInSuite, Shutdown, TypeOK
<1>6. ASSUME NEW w \in Worker, SendResults(w) PROVE Shutdown'
  <2>1. wg' = Cardinality({v \in Worker : wpc'[v] # "done"})
    BY <1>1, <1>6, SameCount DEF SendResults, TypeOK
  <2> QED
    BY <1>1, <1>6, <2>1 DEF SendResults, Shutdown, TypeOK
<1>7. ASSUME NEW w \in Worker, LeaveLoop(w) PROVE Shutdown'
  <2> DEFINE after == {v \in Worker : wpc'[v] # "done"}
  <2>1. w \in Running /\ after = Running \ {w}
    BY <1>1, <1>7 DEF LeaveLoop, Running, TypeOK
  <2>2. IsFiniteSet(Running)
    BY WorkerAssumption, FS_Subset DEF Running
  <2>3. Cardinality(after) = Cardinality(Running) - 1
    BY <2>1, <2>2, FS_RemoveElement
  <2>4. wg = Cardinality(Running)
    BY <1>1 DEF Shutdown, Running
  <2>5. wg' = Cardinality(after)
    BY <1>7, <2>3, <2>4 DEF LeaveLoop
  <2>6. ~ closed
    BY <1>1, <1>7, AllDone DEF LeaveLoop, Shutdown
  <2> QED
    BY <1>1, <1>7, <2>5, <2>6 DEF LeaveLoop, Shutdown, TypeOK
<1>8. CASE CloseResults
  <2>1. wg' = Cardinality({w \in Worker : wpc'[w] # "done"})
    BY <1>1, <1>8, SameCount DEF CloseResults
  <2> QED
    BY <1>1, <1>8, <2>1 DEF CloseResults, Shutdown
<1>9. CASE ReceiveClosed \/ Flush
  <2>1. wg' = Cardinality({w \in Worker : wpc'[w] # "done"})
    BY <1>1, <1>9, SameCount DEF ReceiveClosed, Flush
  <2> QED
    BY <1>1, <1>9, <2>1 DEF ReceiveClosed, Flush, Shutdown
<1>10. CASE ConsoleReport
  <2>1. wg' = Cardinality({w \in Worker : wpc'[w] # "done"})
    BY <1>1, <1>10, SameCount DEF ConsoleReport
  <2>2. closed' = closed /\ (~batch.more => closed)
    BY <1>1, <1>10 DEF ConsoleReport, Shutdown
  <2>3. ~batch'.more \/ mpc' \in {"flush", "exit"} => ~batch.more
    BY <1>10 DEF ConsoleReport, NextReceive, NoBatch
  <2> QED
    BY <1>1, <1>10, <2>1, <2>2, <2>3 DEF ConsoleReport, Shutdown
<1>11. CASE JUnitCreate \/ JUnitCreateFails
  <2>1. wg' = Cardinality({w \in Worker : wpc'[w] # "done"})
    BY <1>1, <1>11, SameCount DEF JUnitCreate, JUnitCreateFails
  <2> QED
    BY <1>1, <1>11, <2>1 DEF JUnitCreate, JUnitCreateFails, Shutdown
<1>12. CASE JUnitWrite
  <2>1. wg' = Cardinality({w \in Worker : wpc'[w] # "done"})
    BY <1>1, <1>12, SameCount DEF JUnitWrite
  <2> QED
    BY <1>1, <1>12, <2>1 DEF JUnitWrite, NextReceive, NoBatch, Shutdown
<1>13. CASE UNCHANGED vars
    BY <1>1, <1>13 DEF Shutdown
<1> QED
    BY <1>2, <1>3, <1>4, <1>5, <1>6, <1>7, <1>8, <1>9, <1>10, <1>11, <1>12, <1>13
       DEF Next, Loader, Main, WorkerStep, Over, AwaitAnswer

-----------------------------------------------------------------------------
(* Where suites may be *)

\* Every step keeps each suite in one place.
LEMMA PlacesStep == IInv /\ [Next]_vars => Places'
<1> SUFFICES ASSUME IInv, [Next]_vars PROVE Places'
    OBVIOUS
<1> USE DEF vars, loaderVars, workerVars, reportVars
<1>1. TypeOK /\ Places /\ Len(Files) \in Nat
    BY FilesAssumption, LenProperties DEF IInv
<1>2. pos \in Nat
    BY <1>1 DEF TypeOK
<1>3. CASE LoadNext
  <2>1. \A f : Taken(f) => Taken(f)' /\ f # pos + 1
    BY <1>1, <1>2, <1>3 DEF LoadNext, Taken
  <2>2. lpc' = "send" => pos' \in File \ Unloadable
    BY <1>1, <1>2, <1>3 DEF LoadNext, AfterLoad, File
  <2>3. OnePlace'
    BY <1>1, <1>3, <2>1 DEF LoadNext, Places, OnePlace, Busy, Reporting, Printed
  <2> QED
    BY <1>1, <1>3, <2>1, <2>2, <2>3 DEF LoadNext, Places, Busy, Reporting, Printed
<1>4. CASE CloseLoader
    BY <1>1, <1>4 DEF CloseLoader, Places, OnePlace, Busy, Reporting, Printed, Taken
<1>5. ASSUME NEW w \in Worker, ReceiveSuite(w) PROVE Places'
  <2>1. \A f : Taken(f) => Taken(f)' /\ f # pos
    BY <1>1, <1>5 DEF ReceiveSuite, Taken
  <2>2. Taken(pos)'
    BY <1>1, <1>2, <1>5 DEF ReceiveSuite, Places, Taken, File
  <2>3. \A v \in Worker : /\ v # w => Busy(v)' = Busy(v) /\ task'[v] = task[v]
                          /\ v = w => ~Busy(v) /\ Busy(v)' /\ task'[v] = pos
    BY <1>1, <1>5 DEF ReceiveSuite, Busy, TypeOK
  <2>4. OnePlace'
    BY <1>1, <1>5, <2>1, <2>3 DEF ReceiveSuite, Places, OnePlace, Reporting, Printed
  <2> QED
    BY <1>1, <1>5, <2>1, <2>2, <2>3, <2>4 DEF ReceiveSuite, Places, Reporting, Printed
<1>6. ASSUME NEW w \in Worker, RunSuite(w) PROVE Places'
  <2>1. \A v \in Worker : Busy(v)' = Busy(v)
    BY <1>1, <1>6 DEF RunSuite, FinishSuite, HangInSuite, PanicInSuite, Busy, TypeOK
  <2>2. UNCHANGED <<pos, lpc, task, mpc, batch, printed>>
    BY <1>6 DEF RunSuite, FinishSuite, HangInSuite, PanicInSuite
  <2>3. OnePlace'
    BY <1>1, <2>1, <2>2 DEF Places, OnePlace, Reporting, Printed
  <2> QED
    BY <1>1, <2>1, <2>2, <2>3 DEF Places, Reporting, Printed, Taken
<1>7. ASSUME NEW w \in Worker, SendResults(w) PROVE Places'
  <2>1. \A v \in Worker : /\ v # w => Busy(v)' = Busy(v) /\ task'[v] = task[v]
                          /\ v = w => Busy(v) /\ ~Busy(v)'
    BY <1>1, <1>7 DEF SendResults, Busy, TypeOK
  <2>2. UNCHANGED <<pos, lpc, printed>> /\ Printed' = Printed /\ mpc' = "console"
    BY <1>7 DEF SendResults, Printed
  <2>3. batch'.file = task[w] /\ batch'.more /\ Reporting'
    BY <1>7 DEF SendResults, Reporting
  <2>4. OnePlace'
    BY <1>1, <2>1, <2>2, <2>3 DEF Places, OnePlace
  <2> QED
    BY <1>1, <2>1, <2>2, <2>3, <2>4 DEF Places, OnePlace, Taken
<1>8. ASSUME NEW w \in Worker, LeaveLoop(w) PROVE Places'
  <2>1. \A v \in Worker : Busy(v)' = Busy(v)
    BY <1>1, <1>8 DEF LeaveLoop, Busy, TypeOK
  <2>2. UNCHANGED <<pos, lpc, task, mpc, batch, printed>>
    BY <1>8 DEF LeaveLoop
  <2>3. OnePlace'
    BY <1>1, <2>1, <2>2 DEF Places, OnePlace, Reporting, Printed
  <2> QED
    BY <1>1, <2>1, <2>2, <2>3 DEF Places, Reporting, Printed, Taken
<1>9. CASE CloseResults \/ JUnitCreateFails \/ UNCHANGED vars
    BY <1>1, <1>9 DEF CloseResults, JUnitCreateFails, Places, OnePlace, Busy, Reporting,
                      Printed, Taken
<1>10. CASE ReceiveClosed
    BY <1>1, <1>10 DEF ReceiveClosed, ClosedBatch, Places, OnePlace, Busy, Reporting,
                       Printed, Taken
<1>11. CASE ConsoleReport
  <2>1. UNCHANGED <<pos, lpc, wpc, task>>
    BY <1>11 DEF ConsoleReport
  <2>2. Reporting' => Reporting /\ batch' = batch /\ batch.results # << >>
    BY <1>11 DEF ConsoleReport, NextReceive, NoBatch, Reporting
  <2>3. mpc' \notin {"console"} /\ (mpc' \in {"create", "write"} => batch'.more)
    BY <1>11 DEF ConsoleReport, NextReceive, ClosedBatch, IInv, Faithful
  <2>4. CASE batch.results = << >>
    <3>1. OnePlace' /\ ~Reporting'
        BY <1>1, <1>11, <2>1, <2>2, <2>4
           DEF ConsoleReport, Places, OnePlace, Busy, Printed
    <3> QED
        BY <1>1, <1>11, <2>1, <2>3, <2>4, <3>1
           DEF ConsoleReport, Places, Busy, Printed, Taken
  <2>5. CASE batch.results # << >>
    <3>1. batch.more /\ Reporting
        BY <1>11, <2>5 DEF ConsoleReport, ClosedBatch, IInv, Faithful, Reporting
    <3>2. Taken(batch.file) /\ batch.file \in File
        BY <1>1, <3>1, TakenFacts DEF Places
    <3>3. batch.file \notin Printed
        BY <1>1, <1>11, <3>1 DEF ConsoleReport, Places
    <3>4. /\ Len(printed) \in Nat
          /\ Len(printed') = Len(printed) + 1
          /\ \A i \in 1 .. Len(printed) : printed'[i] = printed[i]
          /\ printed'[Len(printed) + 1].file = batch.file
          /\ Printed' = Printed \cup {batch.file}
        BY <1>1, <1>11, <2>5, <3>2, PrintFacts DEF ConsoleReport, TypeOK
    <3>5. \A i, j \in 1 .. Len(printed') : printed'[i].file = printed'[j].file => i = j
        BY <1>1, <3>3, <3>4 DEF Places, OnePlace, Printed
    <3>6. \A w \in Worker : Busy(w)' => /\ ~(lpc' = "send" /\ task'[w] = pos')
                                       /\ ~(Reporting' /\ batch'.file = task'[w])
                                       /\ task'[w] \notin Printed'
        BY <1>1, <2>1, <2>2, <3>1, <3>4 DEF Places, OnePlace, Busy
    <3>7. OnePlace'
        BY <1>1, <2>1, <3>5, <3>6 DEF Places, OnePlace, Busy
    <3>8. \A i \in 1 .. Len(printed') : Taken(printed[i].file)'
        BY <1>1, <2>1, <3>2, <3>4 DEF Places, Taken
    <3> QED
        BY <1>1, <2>1, <2>2, <2>3, <3>2, <3>7, <3>8 DEF Places, Busy, Taken
  <2> QED
    BY <2>4, <2>5
<1>12. CASE JUnitCreate
    BY <1>1, <1>12 DEF JUnitCreate, Places, OnePlace, Busy, Reporting, Printed, Taken
<1>13. CASE JUnitWrite
    BY <1>1, <1>13 DEF JUnitWrite, NextReceive, NoBatch, Places, OnePlace, Busy, Reporting,
                       Printed, Taken
<1>14. CASE Flush
    BY <1>1, <1>14 DEF Flush, Places, OnePlace, Busy, Reporting, Printed, Taken
<1> QED
    BY <1>3, <1>4, <1>5, <1>6, <1>7, <1>8, <1>9, <1>10, <1>11, <1>12, <1>13, <1>14
       DEF Next, Loader, Main, WorkerStep, Over, AwaitAnswer

-----------------------------------------------------------------------------
(* Results and suites on their way *)

\* The counter of failed cases moves off zero exactly when a batch holds one.
LEMMA AddFacts ==
    ASSUME TypeOK, NEW r \in Results
    PROVE  Add(tally, r).failed = 0 <=> tally.failed = 0 /\ ~HasFailure(r)
<1>1. CountOf("failed", r) \in Nat /\ (CountOf("failed", r) = 0 <=> ~HasFailure(r))
    BY CountFacts DEF HasFailure
<1>2. tally.failed \in Nat
    BY DEF TypeOK
<1>3. Add(tally, r).failed = tally.failed + CountOf("failed", r)
    BY DEF Add
<1> QED
    BY <1>1, <1>2, <1>3

\* Every step passes results on unchanged.
LEMMA FaithfulStep == IInv /\ [Next]_vars => Faithful'
<1> SUFFICES ASSUME IInv, [Next]_vars PROVE Faithful'
    OBVIOUS
<1> USE DEF vars, loaderVars, workerVars, reportVars
<1>1. TypeOK /\ Faithful
    BY DEF IInv
<1>2. CASE Loader \/ CloseResults \/ JUnitCreateFails \/ UNCHANGED vars
    BY <1>1, <1>2 DEF Loader, LoadNext, CloseLoader, CloseResults, JUnitCreateFails, Faithful
<1>3. ASSUME NEW w \in Worker, ReceiveSuite(w) PROVE Faithful'
    BY <1>1, <1>3 DEF ReceiveSuite, Faithful, TypeOK
<1>4. ASSUME NEW w \in Worker, FinishSuite(w) PROVE Faithful'
    BY <1>1, <1>4 DEF FinishSuite, Faithful, TypeOK
<1>5. ASSUME NEW w \in Worker, HangInSuite(w) \/ PanicInSuite(w) \/ LeaveLoop(w)
      PROVE  Faithful'
    BY <1>1, <1>5 DEF HangInSuite, PanicInSuite, LeaveLoop, Faithful, TypeOK
<1>6. ASSUME NEW w \in Worker, SendResults(w) PROVE Faithful'
    BY <1>1, <1>6 DEF SendResults, Faithful, TypeOK
<1>7. CASE ReceiveClosed
    BY <1>1, <1>7 DEF ReceiveClosed, ClosedBatch, Faithful
<1>8. CASE ConsoleReport
  <2>1. UNCHANGED <<wpc, out, task, summary>> /\ mpc # "exit" /\ mpc' # "console"
    BY <1>8 DEF ConsoleReport, NextReceive
  <2>2. ~batch'.more => batch' = ClosedBatch
    BY <1>1, <1>8 DEF ConsoleReport, NoBatch, Faithful
  <2>3. CASE batch.results = << >>
    BY <1>1, <1>8, <2>1, <2>2, <2>3 DEF ConsoleReport, Faithful
  <2>4. CASE batch.results # << >>
    <3>1. batch.more /\ batch.results \in Outcomes[batch.file]
        BY <1>1, <1>8, <2>4 DEF ConsoleReport, ClosedBatch, Faithful
    <3>2. batch.file \in File /\ batch.results \in Results
        BY <1>1, <1>8, <3>1, TakenFacts DEF ConsoleReport, IInv, Places, Reporting, TypeOK
    <3>3. /\ Len(printed) \in Nat
          /\ Len(printed') = Len(printed) + 1
          /\ \A i \in 1 .. Len(printed) : printed'[i] = printed[i]
          /\ printed'[Len(printed) + 1] = [file |-> batch.file, results |-> batch.results]
        BY <1>1, <1>8, <2>4, <3>2, PrintFacts DEF ConsoleReport
    <3>4. \A i \in 1 .. Len(printed') : printed'[i].results \in Outcomes[printed'[i].file]
        BY <1>1, <3>1, <3>3 DEF Faithful
    <3>5. tally'.failed = 0 <=> tally.failed = 0 /\ ~HasFailure(batch.results)
        BY <1>1, <1>8, <2>4, <3>2, AddFacts DEF ConsoleReport
    <3>6. tally'.failed = 0 <=> \A i \in 1 .. Len(printed') : ~HasFailure(printed'[i].results)
        BY <1>1, <3>3, <3>5 DEF Faithful
    <3> QED
        BY <1>1, <2>1, <2>2, <3>4, <3>6 DEF Faithful
  <2> QED
    BY <2>3, <2>4
<1>9. CASE JUnitCreate
    BY <1>1, <1>9 DEF JUnitCreate, Faithful
<1>10. CASE JUnitWrite
    BY <1>1, <1>10 DEF JUnitWrite, NextReceive, NoBatch, Faithful
<1>11. CASE Flush
    BY <1>1, <1>11 DEF Flush, Faithful
<1> QED
    BY <1>2, <1>3, <1>4, <1>5, <1>6, <1>7, <1>8, <1>9, <1>10, <1>11
       DEF Next, Main, WorkerStep, RunSuite, Over, AwaitAnswer

\* Every step keeps each mandatory suite the loader has taken on its way.
LEMMA NoSuiteLostStep == IInv /\ [Next]_vars => NoSuiteLost'
<1> SUFFICES ASSUME IInv, [Next]_vars, NEW f \in Mandatory, f <= pos'
             PROVE  \/ lpc' = "send" /\ f = pos'
                    \/ \E w \in Worker : Busy(w)' /\ task'[w] = f
                    \/ mpc' = "console" /\ batch'.file = f
                    \/ f \in Printed'
    BY DEF NoSuiteLost
<1> USE DEF vars, loaderVars, workerVars, reportVars
<1>1. TypeOK /\ NoSuiteLost /\ pos \in Nat /\ f \in Nat
  <2>1. Len(Files) \in Nat
    BY FilesAssumption, LenProperties
  <2> QED
    BY <2>1 DEF IInv, TypeOK, Mandatory, File
<1>2. CASE LoadNext
    BY <1>1, <1>2 DEF LoadNext, AfterLoad, NoSuiteLost, Mandatory, Busy, Printed
<1>3. CASE CloseLoader \/ CloseResults \/ JUnitCreateFails \/ UNCHANGED vars
    BY <1>1, <1>3 DEF CloseLoader, CloseResults, JUnitCreateFails, NoSuiteLost, Busy, Printed
<1>4. ASSUME NEW w \in Worker, ReceiveSuite(w)
      PROVE  \/ \E v \in Worker : Busy(v)' /\ task'[v] = f
             \/ mpc' = "console" /\ batch'.file = f
             \/ f \in Printed'
    BY <1>1, <1>4 DEF ReceiveSuite, NoSuiteLost, Busy, Printed, TypeOK
<1>5. ASSUME NEW w \in Worker, RunSuite(w) \/ LeaveLoop(w)
      PROVE  \/ lpc' = "send" /\ f = pos'
             \/ \E v \in Worker : Busy(v)' /\ task'[v] = f
             \/ mpc' = "console" /\ batch'.file = f
             \/ f \in Printed'
  <2>1. \A v \in Worker : Busy(v)' = Busy(v)
    BY <1>1, <1>5 DEF RunSuite, FinishSuite, HangInSuite, PanicInSuite, LeaveLoop, Busy, TypeOK
  <2>2. UNCHANGED <<pos, lpc, task, mpc, batch, printed>>
    BY <1>5 DEF RunSuite, FinishSuite, HangInSuite, PanicInSuite, LeaveLoop
  <2> QED
    BY <1>1, <2>1, <2>2 DEF NoSuiteLost, Printed
<1>6. ASSUME NEW w \in Worker, SendResults(w)
      PROVE  \/ lpc' = "send" /\ f = pos'
             \/ \E v \in Worker : Busy(v)' /\ task'[v] = f
             \/ mpc' = "console" /\ batch'.file = f
             \/ f \in Printed'
    BY <1>1, <1>6 DEF SendResults, NoSuiteLost, Busy, Printed, TypeOK
<1>7. CASE ReceiveClosed \/ Flush \/ JUnitCreate \/ JUnitWrite
    BY <1>1, <1>7 DEF ReceiveClosed, Flush, JUnitCreate, JUnitWrite, NoSuiteLost, Busy, Printed
<1>8. CASE ConsoleReport
  <2>1. f \in File /\ << >> \notin Outcomes[f]
    BY DEF Mandatory
  <2>2. batch.results # << >> => Printed' = Printed \cup {batch.file}
    <3> SUFFICES ASSUME batch.results # << >> PROVE Printed' = Printed \cup {batch.file}
        OBVIOUS
    <3>1. batch.more /\ batch.results \in Results
        BY <1>1, <1>8 DEF ConsoleReport, ClosedBatch, IInv, Faithful, TypeOK
    <3>2. batch.file \in File
        BY <1>1, <1>8, <3>1, TakenFacts DEF ConsoleReport, IInv, Places, Reporting
    <3> QED
        BY <1>1, <1>8, <3>1, <3>2, PrintFacts DEF ConsoleReport
  <2>3. batch.results = << >> => Printed' = Printed
    BY <1>8 DEF ConsoleReport, Printed
  <2>4. batch.file = f => batch.results # << >>
    BY <1>8, <2>1 DEF ConsoleReport, ClosedBatch, NoFile, File, IInv, Faithful
  <2>5. batch.file = f \/ f \in Printed => f \in Printed'
    BY <2>2, <2>3, <2>4
  <2> QED
    BY <1>1, <1>8, <2>5 DEF ConsoleReport, NoSuiteLost, Busy
<1> QED
    BY <1>2, <1>3, <1>4, <1>5, <1>6, <1>7, <1>8
       DEF Next, Loader, Main, WorkerStep, Over, AwaitAnswer

-----------------------------------------------------------------------------
(* The theorems *)

\* IInv is an invariant of every run.
THEOREM Invariance == Spec => []IInv
<1>1. IInv /\ [Next]_vars => IInv'
    BY TypeStep, ShutdownStep, PlacesStep, FaithfulStep, NoSuiteLostStep DEF IInv
<1> QED
    BY InitInv, <1>1, PTL DEF Spec

\* Every variable stays in its range, the WaitGroup's counter at or above zero.
THEOREM TypeCorrect == Spec => []TypeOK
<1>1. IInv => TypeOK
    BY DEF IInv
<1> QED
    BY Invariance, <1>1, PTL

\* No worker ever sends on the closed results channel, whatever their number.
THEOREM SafeShutdown == Spec => []NoSendAfterClose
<1>1. IInv => NoSendAfterClose
    BY AllDone DEF IInv, Shutdown, NoSendAfterClose
<1> QED
    BY Invariance, <1>1, PTL

\* Whatever the number of workers and suites, a suite is in one place at a
\* time and is printed at most once.
THEOREM ReportedOnce == Spec => []OnePlace
<1>1. IInv => OnePlace
    BY DEF IInv, Places
<1> QED
    BY Invariance, <1>1, PTL

\* No readable suite with results is lost between the loader and the console.
THEOREM SuitesKept == Spec => []NoSuiteLost
<1>1. IInv => NoSuiteLost
    BY DEF IInv
<1> QED
    BY Invariance, <1>1, PTL

-----------------------------------------------------------------------------
(* The run implements its contract *)

Reports == {[suite |-> printed[i].file, results |-> printed[i].results] :
               i \in 1 .. Len(printed)}

\* The suites of the abstract reports are those printed.
LEMMA ReportedIsPrinted == Contract!Reported = Printed
<1>1. \A i \in 1 .. Len(printed) :
          [suite |-> printed[i].file, results |-> printed[i].results].suite = printed[i].file
    OBVIOUS
<1>2. \A f \in Contract!Reported : f \in Printed
    BY <1>1 DEF Contract!Reported, Printed
<1>3. \A f \in Printed : f \in Contract!Reported
    BY <1>1 DEF Contract!Reported, Printed
<1> QED
    BY <1>2, <1>3

\* Printing a suite is the abstract Report of it.
LEMMA ConsoleReportMaps ==
    ASSUME IInv, ConsoleReport, batch.results # << >>
    PROVE  /\ batch.file \in File
           /\ batch.file \notin Printed
           /\ batch.results \in Outcomes[batch.file]
           /\ Reports' = Reports \cup {[suite |-> batch.file, results |-> batch.results]}
<1>1. TypeOK /\ batch.more /\ batch.results \in Outcomes[batch.file] /\ batch.results \in Results
    BY DEF ConsoleReport, ClosedBatch, IInv, Faithful, TypeOK
<1>2. batch.file \in File /\ batch.file \notin Printed
    BY <1>1, TakenFacts DEF ConsoleReport, IInv, Places, Reporting
<1>3. /\ Len(printed) \in Nat
      /\ Len(printed') = Len(printed) + 1
      /\ \A i \in 1 .. Len(printed) : printed'[i] = printed[i]
      /\ printed'[Len(printed) + 1] = [file |-> batch.file, results |-> batch.results]
    BY <1>1, <1>2, PrintFacts DEF ConsoleReport
<1>4. Reports' = Reports \cup {[suite |-> batch.file, results |-> batch.results]}
    BY <1>3 DEF Reports
<1> QED
    BY <1>1, <1>2, <1>4

\* At the summary every mandatory suite has been printed.
LEMMA FlushComplete ==
    ASSUME IInv, mpc = "flush"
    PROVE  Mandatory \subseteq Printed
<1>1. TypeOK /\ Len(Files) \in Nat
    BY FilesAssumption, LenProperties DEF IInv
<1>2. wg = 0
    BY DEF IInv, Shutdown
<1>3. lpc = "done" /\ (\A w \in Worker : wpc[w] = "done") /\ pos = Len(Files)
    BY <1>2, AllDone DEF IInv, Shutdown
<1>4. \A f \in Mandatory : f <= pos
    BY <1>1, <1>3 DEF Mandatory, File
<1> QED
    BY <1>3, <1>4 DEF IInv, NoSuiteLost, Busy

\* A run of bozr is a run of RunContract, for any suites, workers and outcomes.
THEOREM Refinement == Spec => ImplementsContract
<1>1. Init => Contract!Init
    BY DEF Init, Contract!Init, NoSummary
<1>2. IInv /\ [Next]_vars => [Contract!Next]_(Contract!vars)
  <2> SUFFICES ASSUME IInv, [Next]_vars PROVE [Contract!Next]_(Contract!vars)
    OBVIOUS
  <2> USE DEF vars, loaderVars, workerVars, reportVars
  <2>1. UNCHANGED <<printed, summary>> => UNCHANGED Contract!vars
    BY DEF Contract!vars
  <2>2. CASE ConsoleReport
    <3>1. CASE batch.results = << >>
        BY <2>1, <2>2, <3>1 DEF ConsoleReport
    <3>2. CASE batch.results # << >>
      <4>1. Contract!Report(batch.file)
        BY <2>2, <3>2, ConsoleReportMaps, ReportedIsPrinted
           DEF ConsoleReport, Contract!Report, Reports, IInv, Faithful
      <4>2. batch.file \in File
        BY <2>2, <3>2, ConsoleReportMaps
      <4>3. Contract!Next
        BY <4>1, <4>2 DEF Contract!Next, Contract!Report
      <4> QED
        BY <4>3
    <3> QED
        BY <3>1, <3>2
  <2>3. CASE Flush
    <3>1. Mandatory \subseteq Printed
        BY <2>3, FlushComplete DEF Flush
    <3>2. tally.failed # 0 <=> \E i \in 1 .. Len(printed) : HasFailure(printed[i].results)
        BY DEF IInv, Faithful
    <3>3. (\E r \in Reports : HasFailure(r.results)) <=>
              \E i \in 1 .. Len(printed) : HasFailure(printed[i].results)
      <4> DEFINE entry(i) == [suite |-> printed[i].file, results |-> printed[i].results]
      <4>1. \A i \in 1 .. Len(printed) : entry(i).results = printed[i].results
        OBVIOUS
      <4>2. Reports = {entry(i) : i \in 1 .. Len(printed)}
        BY DEF Reports
      <4> HIDE DEF entry
      <4> QED
        BY <4>1, <4>2
    <3>4. summary.overall = "none" /\ UNCHANGED printed
        BY <2>3 DEF Flush, IInv, Faithful
    <3>5. summary'.overall = IF \E r \in Reports : HasFailure(r.results) THEN "FAILED" ELSE "PASSED"
        BY <2>3, <3>2, <3>3 DEF Flush, Overall
    <3>6. Contract!Summarise
        BY <3>1, <3>4, <3>5, ReportedIsPrinted DEF HasFailure, Contract!Summarise, Reports
    <3>7. Contract!Next
        BY <3>6 DEF Contract!Next
    <3> QED
        BY <3>7
  <2>4. CASE Next /\ ~ConsoleReport /\ ~Flush
    <3>1. UNCHANGED <<printed, summary>>
        BY <2>4 DEF Next, Loader, LoadNext, CloseLoader, WorkerStep, ReceiveSuite, RunSuite,
               FinishSuite, HangInSuite, PanicInSuite, SendResults, LeaveLoop, AwaitAnswer,
               CloseResults, Main, ReceiveClosed, JUnitCreate, JUnitCreateFails, JUnitWrite, Over
    <3> QED
        BY <2>1, <3>1
  <2>5. CASE UNCHANGED vars
    BY <2>1, <2>5
  <2> QED
    BY <2>2, <2>3, <2>4, <2>5
<1> QED
    BY Invariance, <1>1, <1>2, PTL DEF Spec, ImplementsContract, Contract!Spec

-----------------------------------------------------------------------------
(* Complete reports are final *)

\* A complete report belongs to the printed suite it names, which main is no
\* longer writing.
Owned ==
    /\ mpc \in {"create", "write"} => batch.file \in Printed
    /\ \A n \in Name : disk[n].state = "whole" =>
           /\ disk[n].suite \in Printed
           /\ ReportName(disk[n].suite) = n
           /\ ~(mpc \in {"create", "write"} /\ batch.file = disk[n].suite)

\* Every step keeps complete reports with their suites.
LEMMA OwnedStep == IInv /\ Owned /\ [Next]_vars => Owned'
<1> SUFFICES ASSUME IInv, Owned, [Next]_vars PROVE Owned'
    OBVIOUS
<1> USE DEF vars, loaderVars, workerVars, reportVars
<1>1. TypeOK
    BY DEF IInv
<1>2. CASE ConsoleReport
  <2>1. UNCHANGED disk
    BY <1>2 DEF ConsoleReport
  <2>2. CASE batch.results = << >>
    BY <1>2, <2>1, <2>2 DEF ConsoleReport, NextReceive, Owned, Printed
  <2>3. CASE batch.results # << >>
    <3>1. /\ batch.file \in File /\ batch.file \notin Printed
          /\ batch.results \in Results
        BY <1>1, <1>2, <2>3, ConsoleReportMaps DEF TypeOK
    <3>2. Printed' = Printed \cup {batch.file}
        BY <1>1, <1>2, <2>3, <3>1, PrintFacts DEF ConsoleReport
    <3>3. mpc' \in {"create", "write"} => UNCHANGED batch
        BY <1>2 DEF ConsoleReport, NextReceive
    <3> QED
        BY <2>1, <3>1, <3>2, <3>3 DEF Owned
  <2> QED
    BY <2>2, <2>3
<1>3. CASE JUnitCreate
    BY <1>1, <1>3 DEF JUnitCreate, NoReport, Owned, Printed, TypeOK
<1>4. CASE JUnitWrite
  <2>1. UNCHANGED printed /\ Printed' = Printed /\ mpc' \notin {"create", "write"}
    BY <1>4 DEF JUnitWrite, NextReceive, Printed
  <2>2. batch.file \in Printed
    BY <1>4 DEF JUnitWrite, Owned
  <2>3. \A n \in Name : \/ disk'[n] = disk[n]
                        \/ disk'[n].suite = batch.file /\ n = ReportName(batch.file)
    BY <1>1, <1>4 DEF JUnitWrite, ReportOf, TypeOK
  <2> QED
    BY <2>1, <2>2, <2>3 DEF Owned
<1>5. CASE Next /\ ~ConsoleReport /\ ~JUnitCreate /\ ~JUnitWrite
  <2>1. UNCHANGED <<printed, disk>>
    BY <1>5 DEF Next, Loader, LoadNext, CloseLoader, WorkerStep, ReceiveSuite, RunSuite,
           FinishSuite, HangInSuite, PanicInSuite, SendResults, LeaveLoop, AwaitAnswer,
           CloseResults, Main, ReceiveClosed, JUnitCreateFails, Flush, Over
  <2>2. mpc' \in {"create", "write"} => UNCHANGED <<mpc, batch>>
    BY <1>5 DEF Next, Loader, LoadNext, CloseLoader, WorkerStep, ReceiveSuite, RunSuite,
           FinishSuite, HangInSuite, PanicInSuite, SendResults, LeaveLoop, AwaitAnswer,
           CloseResults, Main, ReceiveClosed, JUnitCreateFails, Flush, Over
  <2> QED
    BY <2>1, <2>2 DEF Owned, Printed
<1>6. CASE UNCHANGED vars
    BY <1>6 DEF Owned, Printed
<1> QED
    BY <1>2, <1>3, <1>4, <1>5, <1>6

\* With distinct names no step touches a complete report, whatever the suites
\* and however the disk fails.
THEOREM FinalReports == Spec => ReportsAreFinal
<1>1. Init => Owned
    BY DEF Init, Owned, NoReport
<1>2. IInv /\ Owned /\ [Next]_vars =>
          [DistinctNames => \A n \in Name : disk[n].state = "whole" => disk'[n] = disk[n]]_vars
  <2> SUFFICES ASSUME IInv, Owned, [Next]_vars, DistinctNames,
                      NEW n \in Name, disk[n].state = "whole"
               PROVE  disk'[n] = disk[n]
    OBVIOUS
  <2> USE DEF vars, loaderVars, workerVars, reportVars
  <2>1. TypeOK /\ Printed \subseteq File
    <3>1. \A f \in Printed : Taken(f)
        BY DEF IInv, Places, Printed
    <3> QED
        BY <3>1, TakenFacts DEF IInv
  <2>2. CASE JUnitCreate \/ JUnitWrite
    <3>1. batch.file \in Printed /\ batch.file # disk[n].suite /\ disk[n].suite \in Printed
        BY <2>2 DEF JUnitCreate, JUnitWrite, Owned
    <3>2. ReportName(batch.file) # n
        BY <2>1, <3>1 DEF DistinctNames, ReportName, Owned
    <3> QED
        BY <2>1, <2>2, <3>2 DEF JUnitCreate, JUnitWrite, TypeOK
  <2>3. CASE Next /\ ~JUnitCreate /\ ~JUnitWrite
    BY <2>3 DEF Next, Loader, LoadNext, CloseLoader, WorkerStep, ReceiveSuite, RunSuite,
           FinishSuite, HangInSuite, PanicInSuite, SendResults, LeaveLoop, AwaitAnswer,
           CloseResults, Main, ReceiveClosed, ConsoleReport, JUnitCreateFails, Flush, Over
  <2>4. CASE UNCHANGED vars
    BY <2>4
  <2> QED
    BY <2>2, <2>3, <2>4
<1>3. Spec => []Owned
    BY <1>1, Invariance, OwnedStep, PTL DEF Spec
<1> QED
    BY <1>2, <1>3, Invariance, PTL DEF Spec, ReportsAreFinal

-----------------------------------------------------------------------------
(* Counting *)

\* Two finite sets without a common element.
LEMMA DisjointCount ==
    ASSUME NEW S, NEW T, IsFiniteSet(S), IsFiniteSet(T), S \cap T = {}
    PROVE  /\ IsFiniteSet(S \cup T)
           /\ Cardinality(S) \in Nat /\ Cardinality(T) \in Nat
           /\ Cardinality(S \cup T) = Cardinality(S) + Cardinality(T)
<1>1. Cardinality(S) \in Nat /\ Cardinality(T) \in Nat
    BY FS_CardinalityType
<1>2. Cardinality(S \cap T) = 0
    BY FS_EmptySet
<1>3. /\ IsFiniteSet(S \cup T)
      /\ Cardinality(S \cup T) = Cardinality(S) + Cardinality(T) - Cardinality(S \cap T)
    BY FS_Union
<1> QED
    BY <1>1, <1>2, <1>3

Where(v, r) == {i \in 1 .. Len(r) : r[i] = v}

LEMMA WhereFinite ==
    ASSUME NEW r \in Results, NEW v
    PROVE  IsFiniteSet(Where(v, r)) /\ Cardinality(Where(v, r)) = CountOf(v, r)
<1>1. Len(r) \in Nat
    BY LenProperties DEF Results
<1>2. IsFiniteSet(1 .. Len(r))
    BY <1>1, FS_Interval
<1> QED
    BY <1>2, FS_Subset DEF Where, CountOf

\* Every result is passed, failed or skipped.
LEMMA CountPartition ==
    ASSUME NEW r \in Results
    PROVE  CountOf("passed", r) + CountOf("failed", r) + CountOf("skipped", r) = Len(r)
<1> DEFINE P == Where("passed", r)
           F == Where("failed", r)
           S == Where("skipped", r)
<1>1. Len(r) \in Nat /\ \A i \in 1 .. Len(r) : r[i] \in Verdict
    BY LenProperties DEF Results
<1>2. /\ IsFiniteSet(P) /\ Cardinality(P) = CountOf("passed", r)
      /\ IsFiniteSet(F) /\ Cardinality(F) = CountOf("failed", r)
      /\ IsFiniteSet(S) /\ Cardinality(S) = CountOf("skipped", r)
    BY WhereFinite
<1>3. P \cap F = {} /\ (P \cup F) \cap S = {}
    BY DEF Where
<1>4. (P \cup F) \cup S = 1 .. Len(r)
    BY <1>1 DEF Where, Verdict
<1>5. Cardinality(1 .. Len(r)) = Len(r)
  <2>1. 1 \in Int /\ Len(r) \in Int
    BY <1>1
  <2>2. Cardinality(1 .. Len(r)) = IF 1 > Len(r) THEN 0 ELSE Len(r) - 1 + 1
    BY <2>1, FS_Interval
  <2> QED
    BY <1>1, <2>2
<1> HIDE DEF P, F, S
<1>6. IsFiniteSet(P \cup F) /\ Cardinality(P \cup F) = Cardinality(P) + Cardinality(F)
    BY <1>2, <1>3, DisjointCount
<1>7. Cardinality((P \cup F) \cup S) = Cardinality(P \cup F) + Cardinality(S)
    BY <1>2, <1>3, <1>6, DisjointCount
<1> QED
    BY <1>2, <1>4, <1>5, <1>6, <1>7

-----------------------------------------------------------------------------
(* The counters *)

\* The cases of stdout with this verdict, as suite and place within it.
Cases(v) ==
    UNION {{<<i, j>> : j \in {j \in 1 .. Len(printed[i].results) : printed[i].results[j] = v}} :
              i \in 1 .. Len(printed)}

LEMMA CasesFacts ==
    ASSUME NEW v, NEW c
    PROVE  c \in Cases(v) <=>
               \E i \in 1 .. Len(printed) : \E j \in Where(v, printed[i].results) : c = <<i, j>>
BY DEF Cases, Where

Counts ==
    /\ \A v \in Verdict : IsFiniteSet(Cases(v))
    /\ tally.failed = Cardinality(Cases("failed"))
    /\ tally.skipped = Cardinality(Cases("skipped"))
    /\ tally.total = Cardinality(Cases("passed")) + tally.failed + tally.skipped
    /\ mpc = "exit" =>
           /\ summary.passed = Cardinality(Cases("passed"))
           /\ summary.failed = Cardinality(Cases("failed"))
           /\ summary.skipped = Cardinality(Cases("skipped"))
           /\ summary.overall = (IF tally.failed # 0 THEN "FAILED" ELSE "PASSED")
           /\ Mandatory \subseteq Printed

\* Printing a suite adds its cases.
LEMMA CasesGrow ==
    ASSUME TypeOK, NEW f \in File, NEW r \in Results, NEW v, IsFiniteSet(Cases(v)),
           printed' = Append(printed, [file |-> f, results |-> r])
    PROVE  /\ IsFiniteSet(Cases(v)')
           /\ Cardinality(Cases(v)') = Cardinality(Cases(v)) + CountOf(v, r)
<1> DEFINE n == Len(printed) + 1
           Added == {<<n, j>> : j \in Where(v, r)}
           pair == [j \in Where(v, r) |-> <<n, j>>]
<1>1. /\ Len(printed) \in Nat /\ Len(printed') = n
      /\ \A i \in 1 .. Len(printed) : printed'[i] = printed[i]
      /\ printed'[n] = [file |-> f, results |-> r]
    BY PrintFacts
<1>2. Cases(v)' = Cases(v) \cup Added
  <2>1. \A c : c \in Cases(v)' <=>
            \E i \in 1 .. n : \E j \in Where(v, printed'[i].results) : c = <<i, j>>
    BY <1>1 DEF Cases, Where
  <2>2. \A i \in 1 .. n : i \in 1 .. Len(printed) \/ i = n
    BY <1>1
  <2>3. 1 .. Len(printed) \subseteq 1 .. n /\ n \in 1 .. n
    BY <1>1
  <2>4. printed'[n].results = r
    BY <1>1
  <2> HIDE DEF n
  <2>5. \A c : c \in Cases(v)' <=> c \in Cases(v) \/ c \in Added
    BY <1>1, <2>1, <2>2, <2>3, <2>4, CasesFacts
  <2> QED
    BY <2>5
<1>3. Cases(v) \cap Added = {}
  <2>1. n \notin 1 .. Len(printed)
    BY <1>1
  <2> HIDE DEF n
  <2> QED
    BY <2>1, CasesFacts
<1>4. IsFiniteSet(Where(v, r)) /\ Cardinality(Where(v, r)) = CountOf(v, r)
    BY WhereFinite
<1>5. pair \in Bijection(Where(v, r), Added)
  <2>1. pair \in [Where(v, r) -> Added]
    OBVIOUS
  <2>2. \A i, j \in Where(v, r) : pair[i] = pair[j] => i = j
    OBVIOUS
  <2>3. \A c \in Added : \E j \in Where(v, r) : pair[j] = c
    OBVIOUS
  <2> QED
    BY <2>1, <2>2, <2>3, Fun_IsBij
<1> HIDE DEF n, Added, pair
<1>6. IsFiniteSet(Added) /\ Cardinality(Added) = CountOf(v, r)
  <2>1. pair \in Injection(Where(v, r), Added) /\ pair \in Surjection(Where(v, r), Added)
    BY <1>5 DEF Bijection
  <2>2. IsFiniteSet(Added) /\ Cardinality(Added) = Cardinality(Where(v, r))
    BY <1>4, <2>1, FS_Surjection DEF Injection
  <2> QED
    BY <1>4, <2>2
<1> QED
    BY <1>2, <1>3, <1>6, DisjointCount

\* Nothing is printed at the start.
LEMMA CountsInit == Init => Counts
<1> SUFFICES ASSUME Init PROVE Counts
    OBVIOUS
<1>1. \A v : Cases(v) = {}
    BY DEF Init, Cases
<1>2. IsFiniteSet({}) /\ Cardinality({}) = 0
    BY FS_EmptySet
<1>3. tally = [total |-> 0, failed |-> 0, skipped |-> 0] /\ mpc # "exit"
    BY DEF Init
<1>4. \A v : IsFiniteSet(Cases(v)) /\ Cardinality(Cases(v)) = 0
    BY <1>1, <1>2
<1> QED
    BY <1>3, <1>4 DEF Counts

\* The steps but two leave the console alone.
LEMMA ConsoleUntouched ==
    ASSUME [Next]_vars, ~ConsoleReport, ~Flush
    PROVE  UNCHANGED <<printed, tally, summary>> /\ (mpc' = "exit" => mpc = "exit")
BY DEF Next, Loader, LoadNext, CloseLoader, WorkerStep, ReceiveSuite, RunSuite, FinishSuite,
       HangInSuite, PanicInSuite, SendResults, LeaveLoop, AwaitAnswer, CloseResults, Main,
       ReceiveClosed, JUnitCreate, JUnitCreateFails, JUnitWrite, NextReceive, Over,
       vars, loaderVars, workerVars, reportVars

\* Every step keeps the counters equal to what is on stdout.
LEMMA CountsStep == IInv /\ Counts /\ [Next]_vars => Counts'
<1> SUFFICES ASSUME IInv, Counts, [Next]_vars PROVE Counts'
    OBVIOUS
<1>1. TypeOK
    BY DEF IInv
<1>2. UNCHANGED printed => \A v : Cases(v)' = Cases(v)
    BY DEF Cases
<1>3. CASE ConsoleReport /\ batch.results = << >>
  <2>1. UNCHANGED <<printed, tally>> /\ mpc' # "exit"
    BY <1>3 DEF ConsoleReport, NextReceive
  <2> QED
    BY <1>2, <2>1 DEF Counts
<1>4. CASE ConsoleReport /\ batch.results # << >>
  <2> DEFINE r == batch.results
  <2>1. batch.file \in File /\ r \in Results
    BY <1>1, <1>4, ConsoleReportMaps DEF TypeOK
  <2>2. printed' = Append(printed, [file |-> batch.file, results |-> r])
    BY <1>4 DEF ConsoleReport
  <2>3. tally' = Add(tally, r) /\ mpc' # "exit"
    BY <1>4 DEF ConsoleReport, NextReceive
  <2> HIDE DEF r
  <2>4. \A v \in Verdict : /\ IsFiniteSet(Cases(v)')
                           /\ Cardinality(Cases(v)') = Cardinality(Cases(v)) + CountOf(v, r)
    BY <1>1, <2>1, <2>2, CasesGrow DEF Counts
  <2>5. Len(r) = CountOf("passed", r) + CountOf("failed", r) + CountOf("skipped", r)
    BY <2>1, CountPartition
  <2>6. \A v \in Verdict : Cardinality(Cases(v)) \in Nat /\ CountOf(v, r) \in Nat
    BY <2>1, CountFacts, FS_CardinalityType DEF Counts
  <2>7. /\ tally'.failed = tally.failed + CountOf("failed", r)
        /\ tally'.skipped = tally.skipped + CountOf("skipped", r)
        /\ tally'.total = tally.total + Len(r)
    BY <2>3 DEF Add
  <2>8. "passed" \in Verdict /\ "failed" \in Verdict /\ "skipped" \in Verdict
    BY DEF Verdict
  <2>9. tally'.failed = Cardinality(Cases("failed")') /\
        tally'.skipped = Cardinality(Cases("skipped")')
    BY <2>4, <2>7, <2>8 DEF Counts
  <2>10. tally'.total = Cardinality(Cases("passed")') + tally'.failed + tally'.skipped
    <3>1. tally.failed \in Nat /\ tally.skipped \in Nat
        BY <1>1 DEF TypeOK
    <3> QED
        BY <2>4, <2>5, <2>6, <2>7, <2>8, <3>1 DEF Counts
  <2> QED
    BY <2>3, <2>4, <2>9, <2>10 DEF Counts
<1>5. CASE Flush
  <2>1. UNCHANGED <<printed, tally>> /\ Printed' = Printed
    BY <1>5 DEF Flush, Printed
  <2>2. \A v : Cases(v)' = Cases(v)
    BY <1>2, <2>1
  <2>3. Mandatory \subseteq Printed
    BY <1>5, FlushComplete DEF Flush
  <2>4. /\ summary'.passed = tally.total - tally.failed - tally.skipped
        /\ summary'.failed = tally.failed
        /\ summary'.skipped = tally.skipped
        /\ summary'.overall = (IF tally.failed # 0 THEN "FAILED" ELSE "PASSED")
    BY <1>5 DEF Flush, Overall
  <2>5. Cardinality(Cases("passed")) \in Nat /\ tally.failed \in Nat /\ tally.skipped \in Nat
    BY <1>1, FS_CardinalityType DEF Counts, Verdict, TypeOK
  <2>6. summary'.passed = Cardinality(Cases("passed"))
    BY <2>4, <2>5 DEF Counts
  <2> QED
    BY <2>1, <2>2, <2>3, <2>4, <2>6 DEF Counts
<1>6. CASE ~ConsoleReport /\ ~Flush
  <2>1. UNCHANGED <<printed, tally, summary>> /\ (mpc' = "exit" => mpc = "exit")
    BY <1>6, ConsoleUntouched
  <2>2. Printed' = Printed
    BY <2>1 DEF Printed
  <2> QED
    BY <1>2, <2>1, <2>2 DEF Counts
<1> QED
    BY <1>3, <1>4, <1>5, <1>6

\* Whatever the suites, the number of workers and their order, the summary
\* covers every mandatory suite and counts the cases printed above it.
THEOREM SummaryIsTruthful == Spec => []SummaryTruthful
<1>1. Counts => SummaryTruthful
  <2> SUFFICES ASSUME Counts, mpc = "exit"
               PROVE  /\ Mandatory \subseteq Printed
                      /\ summary.overall = IF Cases("failed") = {} THEN "PASSED" ELSE "FAILED"
                      /\ summary.passed = Cardinality(Cases("passed"))
                      /\ summary.failed = Cardinality(Cases("failed"))
                      /\ summary.skipped = Cardinality(Cases("skipped"))
    BY DEF SummaryTruthful, Cases
  <2>1. tally.failed = 0 <=> Cases("failed") = {}
    BY FS_EmptySet DEF Counts, Verdict
  <2> QED
    BY <2>1 DEF Counts
<1> QED
    BY <1>1, CountsInit, CountsStep, Invariance, PTL DEF Spec

-----------------------------------------------------------------------------
(* The report files *)

\* A printed suite is reported in full as soon as main has left it, and the
\* one main is reporting was printed with the results main still holds.
Reported ==
    /\ mpc \in {"create", "write"} =>
           \E i \in 1 .. Len(printed) :
               printed[i] = [file |-> batch.file, results |-> batch.results]
    /\ JUnit /\ DistinctNames =>
           \A i \in 1 .. Len(printed) :
               LET f == printed[i].file
               IN f \notin DiskFails /\ ~(mpc \in {"create", "write"} /\ batch.file = f) =>
                     disk[ReportName(f)] = ReportOf(f, printed[i].results)

\* Every step keeps the reports in step with stdout.
LEMMA ReportedStep == IInv /\ Reported /\ [Next]_vars => Reported'
<1> SUFFICES ASSUME IInv, Reported, [Next]_vars PROVE Reported'
    OBVIOUS
<1>1. TypeOK /\ (\A i \in 1 .. Len(printed) : printed[i].file \in File)
  <2>1. \A i \in 1 .. Len(printed) : Taken(printed[i].file)
    BY DEF IInv, Places
  <2> QED
    BY <2>1, TakenFacts DEF IInv
<1>2. \A i, j \in 1 .. Len(printed) : printed[i].file = printed[j].file => i = j
    BY DEF IInv, Places, OnePlace
<1>3. CASE ConsoleReport /\ batch.results = << >>
    BY <1>3 DEF ConsoleReport, NextReceive, Reported, IInv, Places, DistinctNames
<1>4. CASE ConsoleReport /\ batch.results # << >>
  <2>1. batch.file \in File /\ batch.results \in Results
    BY <1>1, <1>4, ConsoleReportMaps DEF TypeOK
  <2>2. /\ Len(printed) \in Nat /\ Len(printed') = Len(printed) + 1
        /\ \A i \in 1 .. Len(printed) : printed'[i] = printed[i]
        /\ printed'[Len(printed) + 1] = [file |-> batch.file, results |-> batch.results]
    BY <1>1, <1>4, <2>1, PrintFacts DEF ConsoleReport
  <2>3. UNCHANGED disk /\ mpc \notin {"create", "write"}
        /\ (mpc' \in {"create", "write"} => UNCHANGED batch)
        /\ (JUnit => mpc' = "create" /\ UNCHANGED batch)
    BY <1>4 DEF ConsoleReport, NextReceive
  <2>4. mpc' \in {"create", "write"} =>
            \E i \in 1 .. Len(printed') :
                printed'[i] = [file |-> batch'.file, results |-> batch'.results]
    BY <2>2, <2>3
  <2>5. ASSUME JUnit, DistinctNames, NEW i \in 1 .. Len(printed'),
               printed'[i].file \notin DiskFails,
               ~(mpc' \in {"create", "write"} /\ batch'.file = printed'[i].file)
        PROVE  disk'[ReportName(printed'[i].file)] = ReportOf(printed'[i].file, printed'[i].results)
    <3>1. i # Len(printed) + 1
        BY <2>2, <2>3, <2>5
    <3>2. i \in 1 .. Len(printed) /\ printed'[i] = printed[i]
        BY <2>2, <2>5, <3>1
    <3> QED
        BY <2>3, <2>5, <3>2 DEF Reported
  <2> QED
    BY <2>4, <2>5 DEF Reported, DistinctNames
<1>5. CASE JUnitCreate
  <2>1. /\ mpc = "create" /\ mpc' = "write" /\ UNCHANGED <<printed, batch>>
        /\ \A n \in Name : n # ReportName(batch.file) => disk'[n] = disk[n]
    BY <1>1, <1>5 DEF JUnitCreate, TypeOK
  <2>2. batch.file \in File
    BY <1>1, <2>1 DEF Reported
  <2>3. ASSUME DistinctNames, NEW f \in File, f # batch.file
        PROVE  disk'[ReportName(f)] = disk[ReportName(f)]
    BY <2>1, <2>2, <2>3 DEF DistinctNames, ReportName, Name
  <2> QED
    BY <1>1, <2>1, <2>3 DEF Reported, DistinctNames
<1>6. CASE JUnitWrite
  <2>1. mpc = "write" /\ UNCHANGED printed /\ mpc' \notin {"create", "write"}
    BY <1>6 DEF JUnitWrite, NextReceive
  <2>2. PICK b \in 1 .. Len(printed) :
            printed[b] = [file |-> batch.file, results |-> batch.results]
    BY <2>1 DEF Reported
  <2>3. printed[b].file = batch.file /\ printed[b].results = batch.results /\ batch.file \in File
    BY <1>1, <2>2
  <2>4. ASSUME DistinctNames, NEW f \in File, f # batch.file
        PROVE  disk'[ReportName(f)] = disk[ReportName(f)]
    <3>1. ReportName(f) # ReportName(batch.file)
        BY <2>3, <2>4 DEF DistinctNames, ReportName
    <3> QED
        BY <1>1, <1>6, <3>1 DEF JUnitWrite, TypeOK, Name, ReportName
  <2>5. batch.file \notin DiskFails =>
            disk'[ReportName(batch.file)] = ReportOf(batch.file, batch.results)
    BY <1>1, <1>6, <2>3 DEF JUnitWrite, TypeOK, Name, ReportName
  <2>6. ASSUME JUnit, DistinctNames, NEW i \in 1 .. Len(printed), printed[i].file \notin DiskFails
        PROVE  disk'[ReportName(printed[i].file)] = ReportOf(printed[i].file, printed[i].results)
    <3>1. CASE i = b
        BY <2>3, <2>5, <2>6, <3>1
    <3>2. CASE i # b
      <4>1. printed[i].file # batch.file
        BY <1>2, <2>3, <3>2
      <4> QED
        BY <1>1, <2>4, <2>6, <4>1 DEF Reported
    <3> QED
        BY <3>1, <3>2
  <2> QED
    BY <2>1, <2>6 DEF Reported, DistinctNames
<1>7. CASE ~ConsoleReport /\ ~JUnitCreate /\ ~JUnitWrite
  <2>1. /\ UNCHANGED <<printed, disk>>
        /\ mpc \in {"create", "write"} => UNCHANGED <<mpc, batch>>
        /\ mpc' \in {"create", "write"} => UNCHANGED <<mpc, batch>>
    BY <1>7 DEF Next, Loader, LoadNext, CloseLoader, WorkerStep, ReceiveSuite, RunSuite,
           FinishSuite, HangInSuite, PanicInSuite, SendResults, LeaveLoop, AwaitAnswer,
           CloseResults, Main, ReceiveClosed, JUnitCreateFails, Flush, Over,
           vars, loaderVars, workerVars, reportVars
  <2> QED
    BY <2>1 DEF Reported, DistinctNames
<1> QED
    BY <1>3, <1>4, <1>5, <1>6, <1>7

\* With distinct names and a working disk, every report file counts the cases
\* of its suite exactly as the console does, whatever an earlier run left.
THEOREM ReportsMatchConsole == Spec => []JUnitMatchesConsole
<1>1. Init => Reported
    BY DEF Init, Reported
<1>2. IInv /\ Reported => JUnitMatchesConsole
  <2> SUFFICES ASSUME IInv, Reported, JUnit, DistinctNames, NEW i \in 1 .. Len(printed),
                      printed[i].file \notin DiskFails,
                      ~(Reporting /\ batch.file = printed[i].file)
               PROVE  LET f == printed[i].file
                          report == disk[ReportName(f)]
                          results == printed[i].results
                      IN /\ report.state = "whole" /\ report.suite = f
                         /\ report.failures = CountOf("failed", results)
                         /\ report.skipped = CountOf("skipped", results)
                         /\ report.tests - report.failures - report.skipped =
                                CountOf("passed", results)
    BY DEF JUnitMatchesConsole
  <2> DEFINE r == printed[i].results
  <2>1. ~(mpc \in {"create", "write"} /\ batch.file = printed[i].file)
    BY DEF Reporting, IInv, Places
  <2>2. disk[ReportName(printed[i].file)] = ReportOf(printed[i].file, r)
    BY <2>1 DEF Reported
  <2>3. r \in Results
    <3>1. printed[i] \in [file : File, results : Results]
        BY ElementOfSeq DEF IInv, TypeOK
    <3> QED
        BY <3>1
  <2> HIDE DEF r
  <2>4. CountOf("passed", r) + CountOf("failed", r) + CountOf("skipped", r) = Len(r)
    BY <2>3, CountPartition
  <2>5. \A v \in Verdict : CountOf(v, r) \in Nat
    BY <2>3, CountFacts
  <2>6. Len(r) - CountOf("failed", r) - CountOf("skipped", r) = CountOf("passed", r)
    BY <2>4, <2>5 DEF Verdict
  <2>7. LET report == ReportOf(printed[i].file, r)
        IN /\ report.state = "whole" /\ report.suite = printed[i].file
           /\ report.failures = CountOf("failed", r) /\ report.skipped = CountOf("skipped", r)
           /\ report.tests = Len(r)
    BY DEF ReportOf
  <2>8. r = printed[i].results
    BY DEF r
  <2> QED
    BY <2>2, <2>6, <2>7, <2>8
<1> QED
    BY <1>1, <1>2, ReportedStep, Invariance, PTL DEF Spec

=============================================================================
