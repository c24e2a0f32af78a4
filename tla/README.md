# TLA+ models and proofs of bozr

bozr runs suites of HTTP test cases from JSON files and reports their results.
This directory holds TLA+ models of the parts of bozr that are hard to test,
the TLC configurations that check them on small instances, and proofs of their
main properties that TLAPS checks for every value of the constants. Every
definition is translated from the Go source; `PROJECT.json` maps each one to the
lines it stands for.

How to run it:

    tlc -config MCParallelRun.cfg MCParallelRun      # any run: its cfg and its module
    tlapm ParallelRunProofs.tla                      # any proof module

## 1. The system

| Component | Source | State | Operations | Modelled by |
|---|---|---|---|---|
| Command line | `main.go` | flags (package variables) | parse, clamp workers to 1..9, validate suites, start the run | `Loading` (order of the checks, exits), `Requests` (`--header`) |
| Suite validation | `loader.go` | list of errors | walk, check the schema, check the names | `Loading` |
| Suite loader | `loader.go` | `files`, `pos`, the loader channel | walk the root, `HasNext`/`Next`, `ToSuite`, send, close | `Loading`, `ParallelRun`, `SuiteFiles` |
| Parallel runner | `parallel.go` | results channel, WaitGroup, one goroutine per worker, closer | receive suite, run, send results, `Done`, close, report loop | `ParallelRun` |
| Suite runner and call | `main.go` | `vars`, `callArgsErr`, traces, results | one case after another, one call after another, stop at an error, unused arguments | `SuiteRunner` |
| Throttle | `types.go` | `limit`, `timeFrame`, `queue` | `RunOrPause`, `cleanOld`, `push` | `Throttle` |
| Variables, templates | `types.go`, `template.go` | `items`, `used`, the scope of `AddAll` | `AddAll`, `Add`, `ApplyTo`, `populateProperty` | `Variables`; names only in `SuiteRunner` |
| Request configuration, Location rewriting | `types.go`, `main.go` | headers of the command line | split headers, make the URL, rewrite `Location` | `Requests` |
| Expectations | `expect.go`, `main.go` | the trace | list the checks, check, remember, report | `Expectations` |
| Schema loading and cache | `types.go` | one map for all workers | look up, read, store | `SchemaCache` |
| Body search and matching | `matchers.go`, `path_funcs.go` | none | `GetByPath`, `SearchByPath`, `search`, path functions | `BodyPaths`, `BodyChecks` |
| Body diff | `cmp.go` and go-cmp | none | what of a comparison is a difference | `BodyValues`, `BodyDiff`, `BodyChecks` |
| Response parsing | `types.go` | parsed body | JSON, XML, HTML | which bodies parse, in `Expectations` |
| Console reporter, MultiReporter | `reporter.go` | `total`, `failed`, `skipped`, stdout | `Report`, `Flush` | `ParallelRun` |
| JUnit reporter | `reporter.go` | report files on disk | `Report`, `flushSuite` | `ParallelRun` |
| Suite names | `types.go` | none | `PackageName`, `FullName` | `SuiteFiles` |
| Template functions | `template.go` | none | hashes, encodings, dates | left out, but for the clock in `Variables` |

How they interact. `main` validates every file, starts the loader goroutine and
calls `RunParallel`. The loader re-reads each file and offers the suite on an
unbuffered channel; a worker takes it, calls `runSuite` and offers the list of
results on a second unbuffered channel; `main` takes a list, hands it to the
console reporter and then the JUnit reporter, and goes on until that channel is
closed. Workers that find the loader's channel closed decrement the WaitGroup;
the closer waits for it and closes the results channel. Inside `runSuite`, every
case has its own `Vars` and every suite its own `Throttle`, which delays each
call before its arguments are evaluated and its request is made. Nothing is
shared by the workers but the channels, the WaitGroup and the schema cache.

What is hard about it, and what makes each part correct:

* **Parallel runner.** Four kinds of goroutine, two channels and a WaitGroup
  stop each other in a fixed order. No send on a closed channel, no batch left
  behind, no suite lost or reported twice, no deadlock, and a suite that waits for
  ever (the HTTP client has no timeout) holds up only its own worker. A panic of
  any goroutine ends the process: what has been printed must still be true.
* **Reporters.** Two independent counts of the same cases; report files of an
  earlier run, failing disks, and file names derived from suite names. The summary
  and the reports must agree with what was printed.
* **Suite runner.** Ten ways for a call to fail; the first one ends the case and
  not the suite, and has to sit on the last trace. No case passes without having
  made all its calls and met all its expectations, and nothing leaks from one case
  into the next.
* **Throttle.** A sliding window over times read at three different moments. The
  window must hold wherever the clock advances, and no call may wait without need.
* **Validation and loading.** Every file is read three times and nothing is kept
  between the reads. What runs must be what was validated, unless somebody changed
  the file, and no file may disappear from the run.
* **Variables.** The arguments of one object are added in the random order of a Go
  map, and one that refers to another adds it first, recursively. The values, the used
  marks and the errors must not depend on the order, and the recursion must end on
  circles.
* **Schema cache.** The only data the workers share. Between the lookup that misses
  and the store, other workers miss too, sources change, and servers fail or hang.
* **Expectations.** The order of checks, of their list and of what is remembered
  decides what a failed call reports; two of its loops run over Go maps.
* **Body search and diff.** Recursive functions on JSON trees; the diff relies on the
  heuristic edit script of a library, which decides which elements are compared.
* **Requests.** Text manipulation of headers and URLs at its edges, and errors that
  `call` drops.

## 2. The modules

### SuiteFiles: suite files and their names

A dotted name is the sequence of its labels, so that joining two names with a dot
is concatenation and names are equal exactly when their texts are. `PackageName`
and `FullName` are the functions of `types.go`; `FullName` forgets the extension
and where one directory ended and the next began. A directory whose path starts
with a dot, or the root, has no package.

### RunContract: what a run promises

The abstract specification: a set of reports and a verdict. A suite is reported
at most once, with results its execution may return; the verdict comes last,
after all mandatory suites, and is FAILED exactly when a reported case failed. It
says nothing of workers, channels or order. A run may end without a verdict.

### ParallelRun: one run, from the directory walk to the exit

| Code | Model |
|---|---|
| `DirSuiteFileIterator.pos`, loader goroutine | `pos`, `lpc`; `LoadNext`, `CloseLoader` |
| `runSuites`, one per worker | `wpc[w]`, `task[w]`, `out[w]`; `ReceiveSuite`, `FinishSuite` / `HangInSuite` / `PanicInSuite`, `SendResults`, `LeaveLoop` |
| WaitGroup | `wg` |
| closer goroutine | `closed`; `CloseResults` |
| loop of `RunParallel` | `mpc`, `batch`; `SendResults`, `ReceiveClosed`, `Flush` |
| `ConsoleReporter` | `printed`, `tally`, `summary`; `ConsoleReport`, `Flush` |
| `JUnitXMLReporter` | `disk`; `JUnitCreate` (`os.Create` truncates), `JUnitCreateFails` (`panic`), `JUnitWrite` (its error is dropped) |
| end of the process | `mpc = "exit"` or `crashed` |

A send on an unbuffered channel and its receive are one step: neither side can go
on without the other. The receive of `nil, false` from the closed channel is a
step of its own, and both reporters are called with it, as in the code. What the
execution of a suite does is a parameter: the results it may return (`Outcomes`),
whether it may wait for ever (`MayHang`) or panic (`MayPanic`); `SuiteRunner` is
the model of that execution. Files that `ToSuite` rejects are `Unloadable`.

`WorkerAssumption` (at least one worker, finitely many) holds because `main`
replaces a number outside 1..9 by 1. `OutcomesAssumption` (a suite with the
extension `.xsuite.json` has only skipped results) holds because `ToSuite` sets
`Ignore` on all of its cases; `OneResultPerCase` of `SuiteRunner` is the other
half of the argument.

### SuiteRunner: runSuite and call

| Code | Model |
|---|---|
| the loop over the cases | `ci`, `results`; `SkipCase`, `StartCase`, `EndCase`, `Return` |
| `Vars.items`, `Vars.used` | `items`, `used`, the user-defined names only |
| the placeholders in remembered texts | `echoed`, never removed; `Nested`, `MarkedBy`, `Remember` |
| `callArgsErr` | `argsErr` |
| the loop over the calls | `k`, `traces`; `StartCall`, `NoMoreCalls` |
| `call`: body, request, exchange, expectations, checks, remembering | `pc` values `body`, `request`, `exchange`, `expect`, `schemas`, `check`; `BodyContent`, `PopulateRequest`, `Exchange`, `PopulateWith`, `Expectations`, `Check`, `RememberAll` |
| `traces[len(traces)-1]` of no traces | `PanicWithoutTraces` |
| a negative index in `search`, from a check or from `rememberBody` | `PanicAtPath` |
| the end of the process by a panic | `pc = "panicked"` |

Each action of `call` takes its error return or goes on. A value is the set of
names its placeholders mention; a name is used when a text that mentions it
is evaluated while it exists. An error in a template may come before or after any
of its replacements, so `used` grows by any part of what it mentions. An
expectation is a check that is met, is not met, or has a path with a negative index and
ends the process. `rememberBody` stops at the first path
it does not find, in the order of a Go map, so any proper part may have been
remembered; `rememberHeaders` passes over what is missing.

A remembered text is evaluated like any other (`Vars.Add` calls `ApplyTo`), and what it
says is up to the server: `Remember` chooses the names it mentions. Those that exist
are marked as used, although no template of the suite may mention them. A
placeholder that stays in a value comes back when the value is put into another text, so
`Nested` are the names that values may bring along, and `MarkedBy` has for each
evaluation the least and the most that may be marked. `echoed` is a history variable: it
records for `NoFalsePass` which names came from responses.

`SuiteContract` is the abstract specification: a verdict for each case in the order
of the file, then a return. It says which cases may pass (those without calls,
those whose templates mention every argument they declare, and those that remember
something, as a response may then mention the rest) and which may end the
process (those with arguments and no calls, and those with a negative index in a path),
and knows nothing of calls, variables and requests. It is what `ParallelRun` takes for granted of `Outcomes` and `MayPanic`.

A request is one `client.Do`: redirects the library follows are part of it. The
throttle, the traces' times and dumps, and the Location rewriter are not in this
module; how values are computed is in `Variables`, what a check is in `Expectations`.
`ArgsAssumption` limits the references between the arguments of one object
to one level, where the order in which a Go map is iterated makes no difference to
which names are used.

### Throttle: RunOrPause against a clock

Each step of `RunOrPause` that reads the clock or the queue is an action
(`RunOrPause`, `CleanOne`, `CleanDone`, `Pause`, `Wake`, `Record`), and `Tick` may
advance the clock between any two of them, while the request is prepared, and
while the answer is awaited. `time.Sleep` returns at `wake` or any time later, and at
once for a negative duration. `Send` is the moment the request leaves; a call may
also fail before it sends one. The limit is any integer: the flag is not validated.

### Variables: the values of arguments

| Code | Model |
|---|---|
| `AddAll`, its loop over the map | `todo`, `scope`; `StartAdd`, `Visit`, `EndAdd` |
| active calls of `addInScope` | `stack`; `Descend`, `Store` |
| `ApplyTo` of `Vars`, its loop over `items` | `left`; `Substitute` |
| both passes of `TemplateContext.ApplyTo`, the execution of the template | `pass`; `ExecuteArgument`, `ExecuteTemplate` |
| `rememberBody`, `rememberHeaders` | `NotFound` and operations `body`, `headers` |
| `populateProperty` | operations `template`, `list` (`KeepList`) |

A text is the set of the things it is made of: literals, placeholders, a function of
the clock, something that is no valid template. Order and number of these make no
difference to the properties. Every iteration of a Go map is a choice of the next key.

### SchemaCache: workers and schemas

Lookup (`Found`, `NotFound`), read (`Read`, `ReadFails`) and store (`Store`) are separate
steps of each worker, as `sync.Map` makes each of them atomic and nothing joins them.
Sources may change at any moment, be missing, answer with an error page, or never
answer. `uri` computes the key from a reference as `toAbsPath` and `toAbsURL` do, on
sequences of segments; both kinds of reference share one map, as in the code.

### Loading: from the arguments to the suites that run

`Main` checks the arguments in their order; `ValidateSchema` and `ValidateNames` are the
two reads of `ValidateSuites` for each file, `Validated` is the decision to run,
`Load` is the third read (`ToSuite`: sent, dropped, or a panic on a null case). `Change`
lets somebody edit, add or remove a file between any two of these. A content is a
model value, known by whether it meets the schema, has distinct names, can be decoded and
holds a null case; `LoadingAssumption` says that a null case meets neither check.

### Requests: what surrounds an exchange

| Code | Model |
|---|---|
| `newRequestConfig` | `config`; `newRequestConfig`, `Unparsable`, `HeadersOf` |
| `urlPrefix`, `concatURL`, `path.Join` | `urlPrefix`, `concatURL`, `Join`, `Clean`, `Push` |
| `http.NewRequest`: the text is cut at its first question mark | `Path`, `Query` |
| `req.URL.Query()`, `q.Add`, `q.Encode()` | `Values`, `Pair`, `Pieces`, `SentRequest` |
| `client.Do` and the checks of `Rewrite` before its template runs | `location`; `Receive` |
| `t.Execute` into a buffer, piece by piece | `output`; `Execute` |
| `resp.Header.Set`, or the error that `call` drops | `SetHeader`; `HeaderKept` |

A header is the sequence of its parts between colons, a URL of those between slashes, and a
part is a sequence of texts and marks (`?`, `&`, `=`), because the bugs of this code are in
the splitting. The query goes three ways: it is part of the text that `path.Join` cleans, it
is then cut off, and its pairs are parsed, joined by the parameters and written anew. What
`q.Encode()` changes besides (the order of the keys, the escapes, an equals sign after a
key without one) makes no difference to the values a server reads, so the query of a request is
the set of its pairs. A piece with an escape that cannot be decoded, or with a semicolon, is
malformed (`Bad`) and dropped, as `req.URL.Query()` drops the error. Fragments are left out, and
so is the order of several values of one key.

A template is the sequence of pieces that text/template writes: texts, the variable, one of its
fields, a field it does not have. `Output` is what a piece writes, an error included;
an error after any number of pieces leaves the header as it was.

### Expectations: what becomes of a response

`expectations` builds the list of checks in the order of the code, with headers in any
order; `Check` does one, `RememberBody` and `RememberHeaders` keep values in any order,
`ReportUnused` is the last word of `runSuite`. The trace is `err` and `described`;
`Shown` is what the console reporter prints of it. The headers of a response are lines in
their order: `HeaderOf` is the value of the first line of a name, as `Header.Get`
gives it to checks and to `rememberHeaders`. Whether a body meets a
schema or an expected body, and what is at a path, is given with the response: these
are the subject of the next modules and of the JSON schema library.

### BodyValues, BodyDiff, BodyPaths and BodyChecks: functions on JSON trees

`BodyValues` has the parsed bodies: any set of trees (`JSON`) that is closed under what is in
them, with a depth that goes down from a value to what is in it and is bounded (`MaxDepth`).
`BodyDiff` has `bodyDiffReporter` over a model of the vendored go-cmp: the reports of the
comparison of two values, and for lists the edit script of `diff.Difference` with its
two searches from both ends. `BodyPaths` has `cleanPath`, `Search`, `GetByPath`,
`SearchByPath`, `findDeep`, `matchesAll` and the path functions; what `strconv.Atoi` makes of a
part is a parameter. Both are operators without state, and their recursions are functions: on
pairs of values, on numbers of turns of a loop, on a value and the number of parts that are done.
`BodyChecks` has the two things that a call does with a body, in one specification
(`BodySpec`): `Compare` it with an expected one, in whole or in part, and `LookUp` a path in it,
which is expected to have a value, expected to be absent, and remembered. Its properties compare
the outcome with definitions of another form: equality, `Embeds`, and the `Selection` of those
`PlacesOf` a document whose steps `Follow` the path.

### MC modules and proof modules

Each module with a specification has an `MC` module that gives its constants values. `ParallelRunProofs`,
`ThrottleProofs`, `SuiteRunnerProofs`, `VariablesProofs`, `SchemaCacheProofs`,
`LoadingProofs`, `ExpectationsProofs` and `RequestsProofs` hold the theorems.
Operators named after a definition with a suffix, such as
`InitialWaitCountTooLow` or `RemainingSwapped`, are the defects that the mutants
of `PROJECT.json` put in its place; each one makes TLC report the property it
is listed with.

## 3. The runs

| Run | Configuration | Instance | Distinct states | Result |
|---|---|---|---|---|
| `parallel` | `MCParallelRun.cfg` | 3 workers, 5 files, JUnit on | 40,698 | passes |
| `report_collision` | `MCReportCollision.cfg` | 2 workers, 4 files with colliding names | - | `SeparateReports` is violated |
| `throttle` | `MCThrottle.cfg` | limits -1, 0, 1, 2; frame 3; 4 calls; clock to 7 | 280,199 | passes |
| `throttle_requests` | `MCThrottleRequests.cfg` | the same | - | `RequestsWithinLimit` is violated |
| `suite` | `MCSuiteRunner.cfg` | 6 cases, 3 names | 93,453 | passes |
| `empty_calls` | `MCEmptyCalls.cfg` | a case with arguments and no calls | - | `UnusedReported` is violated |
| `variables` | `MCVariables.cfg` | 14 test cases, 5 names, clock to 2 | 6,148 | passes |
| `bodies` | `MCBodyChecks.cfg` | 15,619 pairs of bodies; 7 bodies, 9 values, 805 paths | 163,906 | passes |
| `schema_cache` | `MCSchemaCache.cfg` | 3 workers, 4 references to 3 sources, one change | 303,419 | passes |
| `loading` | `MCLoading.cfg` | 3 files, 6 contents, 2 changes | 146,348 | passes |
| `requests` | `MCRequests.cfg` | 72 lists of flags, 30 calls, 5 hosts, 3 Locations, 5 templates | 328,400 | passes |
| `expectations` | `MCExpectations.cfg` | 770 expectations, 23 responses | 157,450 | passes |

**parallel** asks whether the results survive the interleaving. `OnePlace` and
`NoSuiteLost`: each suite is in exactly one pair of hands until it is printed, once.
`NoSendAfterClose`: the shutdown is in order. `SummaryTruthful` and
`JUnitMatchesConsole`: the two reporters count the same cases and the verdict is
right. `ReportsAreFinal`: a complete report is never touched again.
`Termination` and `NoStarvation`: the run ends, and a hanging suite stops only its
own worker. `ImplementsContract`: the whole is a `RunContract`.
Three workers are the fewest with which one can hang and two others still race;
one file each is unreadable, ignored and without cases, and two run normally, one
of which may hang and one hang or panic; the disk may fail for one report; two
reports are left over from an earlier run, one of a suite that is reported again, one
of the suite without cases, which the run leaves as it is. The files
differ, so no symmetry on them; the workers are interchangeable but the run checks
liveness, so no symmetry is used on them either.

**throttle** bounds the calls (`MaxCalls` = 4) and the clock (`MaxClock` = 7, which
only a pause may pass). With limit 2 the window slides twice, with limit 1 three
times; frame 3 leaves room for calls just inside, exactly at and just outside the
frame, and 7 ticks for two frames. `CallsGoThrough` says that every call leaves the
throttle. The proofs below have no such bounds on the length of the run or the limit.

**suite** runs a case that logs in, remembers a value from the body and a header
and uses both in its second call, whose argument overrides one of the case, and
one of whose arguments is used only if the remembered texts name it; an
ignored case; a case whose argument nothing mentions and that refers to variables
of the first case; one that remembers nothing and mentions all it declares; one without
calls; and one with arguments and no calls, which
ends in the panic (the finding below). The paths of the first case may have negative indices.
All error returns of `call` are taken, and a remembered text may mention any names.
`ImplementsContract`: the suite is a `SuiteContract`. Three names are enough for one that is
used in any case, one that is used by accident, and one that is remembered.

**variables** asks whether what is sent depends on the order of a Go map. The test
cases have a chain, a diamond and a circle of arguments, an argument of itself, one
that refers to a value remembered later, overridden and reserved names, a value that
is no string, templates that do not parse, functions of the clock and an array; two
remember headers under names that are declared later, or values that mention an argument
which then mentions them. All
arguments of an object are added in every order, and every pass over the variables
meets them in every order. `ArgumentsResolved`: each argument has the value its text
denotes. `UsedIsMentioned`: the used marks, on which `SuiteRunner` relies. Every name that is
evaluated where its variable exists for sure is marked, whether other steps add variables of
the same name or not; in a circle, a value that is only its own placeholder changes nothing
and marks nothing, hence `NoCircle`.
`NoErrorLost`, `EnvironmentKept`, `NoPlaceholderLeft` and `Termination` are named for
what they say. Three names are the fewest with a circle that is not a pair, and a diamond.

**bodies** compares `BodyDiff` with equality and with `Embeds`, which looks for the
expected elements of a list in the response by trying every way to place them, and
`Search` with the places of a document that a path selects. Lists of two values and up
to five elements, or three values and three elements, make go-cmp's two searches meet,
pass each other and run out of similar elements; objects of up to four fields lie on
both sides of its threshold for similar elements. Paths have names, indices
in and out of range, a negative one, empty parts and functions at the end. The bodies have
arrays of arrays, arrays within arrays of objects, and a field with the name of an index.
`ChecksAgree` relates three pieces of code that search the same path.

**schema_cache** has a file under two names, a URI whose path is the file's, and a URI of
another host, so that keys meet if `uri` confuses them. Two workers race for one URI, and all
three for the file; the first of them checks both in one call and each again in later calls,
so that schemas are found in the cache as well as loaded. One change of one source is
enough for two contents within a run, and a source may be missing, or an error page, or
hang, from the start. `OneSchema`: responses are checked against different contents only
if two workers raced. `FromItsSource` needs a host: without one the key of a relative URI
can be that of a file (divergence 8 below).

**loading** has every combination of what the two checks and the decoder say, on three
files, and two changes: one may come between the two reads of the validation and one
between validation and loading. `PanicIsRace` says that the loader's panic on a null
case is out of reach otherwise.

**requests** has lists of up to three flags with repeated names and missing parts, URLs
with dots, empty parts, parts that climb out of the host's path, and queries: with a URL in
them, with slashes in a value, alone, and with empty and malformed pairs. One host has a
question mark in its path. A template has an error in its middle, after which it would write
more. The inputs are independent of each other; the paths of `Join` and of a template are short
enough that three parts show every interaction.

**expectations** asks for every combination of the fields of an `Expect`, of responses that
meet all, all but one, or none, with headers that come once, twice with the expected value in
either place, or empty. `Verdict` compares the checks that are made with the table
of `README.md:133`, read field by field. `ErrorShown`: the trace reports the error that
ended the call and no other. `RememberedAfterChecks`: nothing is remembered too early.
Two headers and two paths are enough for an order that matters.

Type invariants are not repeated in the runs: they are proved for every value of the
constants (`TypeCorrect` of each proof module).

**Deadlock** is checked in every run but `schema_cache`. The program may legitimately stop
when it has exited, crashed, or waits for a server: `Over`, `AwaitAnswer` and `SuiteEnd`
are the only stuttering steps, so TLC's deadlock check still catches goroutines that wait
for each other. In `schema_cache` all workers may be left waiting for a server that never
answers, which is no step; `OnlyWaitersHang` says of each worker that it finishes or waits
for such a server.

**Fairness.** `ParallelRun` has weak fairness on the loader, on each worker, on the
closer and on main: the Go scheduler runs every goroutine that can run. For a
worker this is fairness of all its steps together: that a suite does not run for ever
without the program waiting for something; waiting for ever is `HangInSuite`, and
always possible for suites in `MayHang`. Several workers compete for main, and weak
fairness does not say which of them is served first; it is enough because the suites
are finitely many, so the competitors of a waiting worker run out. `SchemaCache` has the
same fairness for each worker. `Variables` and `Throttle` are single goroutines: the
fairness of all their steps says that the goroutine goes on, and in `Throttle` one more
that the clock does (`Tick`); sending and answering are not assumed. The other
modules state safety only.

### What the violated runs show

1. **Reports that replace each other** (`report_collision`). The JUnit file is named
   after `FullName`, so `login.suite.json` and `login.xsuite.json` of one directory,
   or `a.b/x.suite.json` and `a/b/x.suite.json`, share a file and the one that
   finishes last wins, although `reporter.go:272` promises a separate file for each
   suite.
2. **The throttle counts calls, not requests** (`throttle_requests`). The time is
   recorded before the arguments and the request are prepared. When preparing one
   request takes long and the next ones are quick, limit + 1 requests leave within one
   frame, where `main.go:109` promises no more than the limit. What does hold is
   `SlidingWindow`, about the recorded times.
3. **Arguments without calls** (`empty_calls`). `"calls": []` with `args` passes
   validation; the unused arguments are to be reported on the last trace, there is none,
   and the index -1 ends the whole process, all other suites included. `README.md:286`
   promises a test failure.

### Other divergences the models have

The models do what the code does in these places too. Where a property would be false
because of one, it names the exception.

1. **Duplicated arguments** (`types.go:535`): an argument of a call replaces one of its case,
   and the case passes; `README.md:286` promises a failure, `types_test.go:539` expects the
   override. In `SuiteRunner`.
2. **An argument evaluated twice** (`types.go:590`): `AddAll` adds again what `addInScope` has
   added for the sake of another argument. With a function of the clock, the digest of
   `README.md:350` may be of another time than the one sent. `ArgumentsResolved` excludes
   arguments that call the clock. An argument with a reserved name that is not set
   (`types.go:545`) is added in the recursion and then refused as already defined, so that the
   case fails in some orders of the map only.
3. **Placeholders that stay** (`types.go:602`, `types.go:221`): one whose variable is
   remembered after the argument that mentions it, in an unlucky order of the map, and all of
   those in JSON arrays. The two exceptions of `NoPlaceholderLeft`.
4. **Remembered without notice** (`main.go:497`, `main.go:510`): a text that is no valid
   template is stored as empty text, and a header that is missing is passed over.
   `EnvironmentKept` and the values of `Variables` are about what is stored.
5. **Lists in a partial match** (`cmp.go:32`): `body` is to be met by a response with more
   properties (`README.md:139`), but go-cmp pairs list elements by a heuristic: `[{}]` is not
   met by a list with one object of two fields, nor `[1, 2]` by `[2, 2, 1, 2, 1]`. The exception
   of `PartialIsEmbedding`.
6. **Negative indices** (`matchers.go:166`): `items.-1` panics and ends the whole run, out of a
   check or out of what is remembered. `PanicsOnlyBelowZero`, and one of the two panics of
   `SuiteContract`.
7. **Error pages as schemas** (`types.go:184`): the status of a schema's response is not looked
   at. Error pages are contents of a source in `SchemaCache`.
8. **A file for a URI** (`types.go:270`): without a host, a relative URI has the key of an
   absolute path. `FromItsSource` is checked with a host and proved where keys differ.
9. **Valid and not decoded** (`loader.go:62`): the schema admits suites that `json.Unmarshal`
   rejects; they are dropped with a message and the run may pass. The exception of
   `NoFileLost`.
10. **Colons, queries and hosts** (`types.go:756`, `main.go:387`, `main.go:418`): what follows a
    second colon of a header flag is lost, `path.Join` cleans the query of a URL that is not
    absolute, malformed pairs of a query are dropped and the others written anew, and a URL
    without a leading slash is joined to the name of a host that has no path
    (`http://hostusers`). The exceptions of `RequestAsGiven`.
11. **A Location that is no URL** (`types.go:800`): the variable of the template is missing, where
    `README.md:387` says it is a string. `Output` is then the text for a missing value.
12. **Terminated** (`types.go:359`) is true of every error that is no failed check, a value
    that is not found in a good response too, so the report hides the checks that were met.
    `Terminated` and `Shown` of `Expectations`.
13. **XML schemas** (`expect.go:53`): a schema expectation refuses every response that is not
    JSON, while `expect.go:40` speaks of xsd. `Meets` of `Expectations`.
14. **Used by a response** (`main.go:497`, `types.go:556`): a remembered text that holds the
    placeholder of an argument has it replaced and marks it as used. A case passes whose
    templates never mention the argument, where `README.md:286` promises a failure. The exception
    of `NoFalsePass` (`Echoed`) and of the contract (`Remembers`).
15. **Repeated headers** (`expect.go:161`, `main.go:509`): only the first line of a header counts.
    `HeaderOf`, and the field of headers in `AsExpected`.

## 4. The proofs

All theorems hold for every value of the constants that satisfies the named
assumptions of the modules, and for runs of any length.

**ParallelRunProofs** (any files, any number of workers). `IInv` = `TypeOK` /\
`Shutdown` /\ `Places` /\ `Faithful` /\ `NoSuiteLost`.
* `Shutdown`: the WaitGroup counts the workers not done; a worker is done only
  when the loader is, the channel is closed only when the counter is zero, main leaves
  its loop only after that. `NoSendAfterClose` follows, but is not inductive
  without the counter.
* `Places` adds to `OnePlace` that whatever a worker holds, main reports or stdout
  shows has left the loader (`Taken`). Without it nothing keeps the next suite of
  the loader from being one already held.
* `Faithful`: results pass unchanged from `FinishSuite` to the counters, and the
  failed counter is zero exactly when no printed case failed. The refinement
  needs it for the verdict.

From `IInv`: `TypeCorrect`, `SafeShutdown`, `ReportedOnce`, `SuitesKept`. `Refinement`
shows that initial states map to initial states and that each step is a `Report`
(`ConsoleReport` of a nonempty batch), a `Summarise` (`Flush`) or a stutter of
`RunContract`; at `Flush` the shutdown order puts every mandatory suite among the
printed ones. `FinalReports` proves `ReportsAreFinal`, with one more invariant
(`Owned`): a complete report belongs to the printed suite it is named after, and main
is no longer writing it.

The numbers come next. `Counts` says that the three
counters are the cardinalities of the sets of printed cases; a step of `ConsoleReport`
adds a disjoint set for the new batch, whose three parts add up to its length
(`CountPartition`). With `IInv` it gives `SummaryIsTruthful`. `Reported` says of every printed
suite that its report has been written, that main is about to write it, or that its disk
fails; with `CountPartition` it gives `ReportsMatchConsole`.

**ThrottleProofs** (any limit, frame and bounds). `IInv` = `TypeOK` /\ `QueueWithinLimit`
/\ `Chronicle` /\ `DroppedAreOld` /\ `Steps` /\ `SlidingWindow`. The queue is the tail of
the recorded calls (`QueueWithinLimit`), so the calls outside it are those that were
dropped, and these are a frame old (`DroppedAreOld`); `Steps` carries what
`RunOrPause` has established from one of its reads of the clock to the next. When a
call is recorded with the queue below the limit, the limit-th call before it is a
dropped one, which gives `SlidingWindow`. `DelaysAreNeeded` proves
`PausesOnlyWhenFull` from the same invariant.

**SuiteRunnerProofs** (any suite). `IInv` = `TypeOK` /\ `Progress` /\ `TracesInOrder` /\
`TracesEarned` /\ `Known` /\ `SentInOrder` /\ `Isolation` /\ `ErrorIsLast` /\
`NoFalsePass` /\ `EchoesRemembered`. The unfinished case is where the work is: the traces so far are those
of the calls 1..k, in order, and only the last can have an error (`TracesInOrder`); a
trace without an error has all checks of its call met and its request sent
(`TracesEarned`); every declared name of the calls so far is in `items` and every used
one is mentioned by a template or echoed by a response (`Known`). That needs what an
evaluation may mark (`MarkedFacts`, `NestedFacts`). `EndCase` turns these into the result, and
`NoFalsePass` follows. Theorems: `TypeCorrect`, `PassesAreEarned`, `OneError`, `OneResult`,
`CasesIsolated`, `StopsAtError`. `Refinement` proves that the suite implements
`SuiteContract`: the results grow by one verdict at a time, which the suite never takes
back, and a case that passes has been earned by `NoFalsePass`. `EchoesRemembered` says that only
cases that remember something have names from responses, so that all others pass only for
their templates. Each of the two panics is at a case where the contract allows it.

**VariablesProofs** (any test case, any references between arguments). The heart is that
a name leaves the scope before it enters the stack: then no name is twice on the stack, which
bounds the recursion by the number of arguments (`RecursionBounded`). `EnvironmentProtected`
needs that a reserved name that exists is never on the stack. `ErrorsReported` proves
`NoErrorLost`: `AddAll` ends only after its own loop has evaluated each argument, so that the
error that was dropped within the recursion has come up again.

The other three theorems are about the values, in any order of the maps.
* `PlaceholdersReplaced`: a placeholder of a known variable is in the text only until the pass
  reaches it, or because another value has it (`Substituted`). The first pass of the two decides
  nothing; the second one starts with all variables that exist.
* `Placed` is what the next two rest on: every name that has been processed is in the items, or is
  on the stack.
* `UsedAreMentioned`, upwards: no name in a value or in a text comes from nowhere (`Traced`).
  Downwards: without a circle, a rank goes down along the stack and through the text under
  evaluation (`Descending`), so that no value is its own placeholder and each substitution of a
  user's variable leaves its mark. `TextMarked` carries the marks through a pass, `NowMarked`
  through the arguments of a step and `BeforeMarked` through the steps that are done. What a step
  must mark does not grow when later steps add names (`DueFacts`).
* `ArgumentsHaveTheirValues` is the independence of the order. At each moment there is a set D
  of arguments that have the value they denote (`Resolved`), closed under references; all
  others that were reached are on the stack. Without a circle nothing on the stack is mentioned
  by the argument on its top, so the values the top is given are final, and adding an argument
  of D again puts back the value it has. An argument that fails has no value until `AddAll`'s
  own loop meets it. When that loop is done, D is everything and nothing has failed.

**SchemaCacheProofs** (any workers, references and changes). `Inv` follows a schema from its
source to its use: what a reader holds was served by the source it read (`StoredByReader`,
`StoringHasRead`), what is cached was stored by a worker that read it (`Remembered`), and
what is used is cached (`UsedIsCached`). A worker that has read a key finds it cached at
every later lookup, as nothing is ever removed: `NoSecondRead`. `OneSchemaPerRun` follows, as
two contents take two reads and these are of two workers. `SchemaFromItsSource` has the
assumption `KeysApart`, that references with one key are
of one kind, so that no URI has the key of a file.

**LoadingProofs** (any number of files and changes). `Inv` says what each phase has
established of the files that have not changed: those the validation is through with are
valid or among the errors (`Validation`), those the loader is through with are sent or
cannot be decoded (`Decoding`), errors are real, and what is sent is what is on the disk.
Theorems: `ValidSuitesRun`, `FilesKept`, `PanicTakesAChange`, `RefusalsJustified`.

**ExpectationsProofs** (any expectation and response). `ListMeansExpected` is the heart: the
list that `expectations` builds, in any order of the headers, is met by exactly the responses
that are as expected (`AsExpected`). `Inv` keeps that the first i checks of the list are met
unless there is an error, and that values are remembered only after all of them. Theorems:
`VerdictRight`, `ErrorReported`, `ListedMet`, `RememberedLast`.

The second half of the module is about `BodyChecks` (any bodies, paths, expected values and
numbers). Nothing is assumed of bodies but `JSONAssumption`: they are finite trees, as all that
`encoding/json` returns. A recursion that goes down a rank has a solution (`Recursion`,
built up from rank to rank), and what is passed on from lesser ranks holds of all (`Ranks`); every recursion of the module, of the model and of the reference definitions, is an
instance.

* `ExactMeansEqual` and `PartMeansEmbedded` do not depend on which edit script the heuristic of
  go-cmp finds. Any script it can return `Leads` through both lists and calls identical only
  elements that are (`DifferenceLeads`; `ConnectSound`, `FollowSound` and `FindMatchSound` carry
  this through the two searches and their meeting), and that of equal lists has identities only
  (`DifferenceOfEqual`). So a comparison without reports is one of equal bodies (`AllEqIsEqual`,
  `EqualIsAllEq`), by induction on the depth. For a partial match, the elements that the script
  pairs are the witness of the embedding (`MetEmbeds`); the converse (`EmbedsMet`) holds without
  lists, and fails with them for the reason given in section 3.
* `SearchSelects` goes through `search` part by part: what is found when some parts are done is
  what `Selection` takes from the places of the value with the parts that are left
  (`FoundSelected`, by induction on `Height`, the depth of the value and the parts left). That
  needs what a first step does to `Follows`: it is named by the next part (`FollowsNext`), or it is
  a position in an array that is passed over because the next part is no number (`FollowsPast`);
  and that `Selection` distributes over the places of the elements and of the fields
  (`SelectionConcat`, `SelectionFlatten`, `PlacesFacts`).
* `OnlyBelowZeroPanics` is the same induction for the type of what is found: it is all values,
  unless a part of the path is a negative number (`SearchType`).
* `UsesAgree`: `findDeep` goes down the depth of the items (`FindExists`); one unfolding of it is
  enough, as nothing is found among no items, and a primitive item is found as itself only.

**RequestsProofs** (any flags, calls, hosts and templates). `path.Clean` is a recursion
over the parts of a path: that its definition has a solution is proved by induction
(`CleaningExists`, with `Steps`, which comes from the least number of a set), and so is that
cleaning two paths in a row starts with the first one cleaned (`CleanPrefix`), keeps
names as they are (`CleanNames`), and leaves only parts it was given (`CleanKeeps`). The
second half of the argument is where the query begins: without a question mark in the path of the
host it is found where it is in the URL of the call (`PathBehind`), so that the path and the query
of what was joined are those of the URL behind what the host adds (`SentBelow`, `SentWhole`).
Hence `RequestIsAsGiven`. `Inv` of the call has for the template that what it has written so far
is what its first pieces make, none of them an error (`IsWritten`): at the end this is the whole
of it, and an error in any place means that not all pieces are in order, which is
`LocationIsWhole`.

**Only model-checked.** Liveness under fairness (`Termination`, `NoStarvation`,
`CallsGoThrough`, `OnlyWaitersHang`) is outside what the prover supports. Every invariant
that a passing run checks is stated by a theorem.

## 5. What is not modelled, and what is left

Left out for good: the parsers of JSON, XML and HTML and the JSON schema validator, which are
libraries (a body parses or does not, a condition on it holds or does not); the template
functions for hashes, encodings and dates; the `flag` package and the usage text; wording,
layout and timing of the output; what `filepath.Walk` does with unreadable directories,
beyond passing over them. They change no state that a property here is about.

Two abstractions of text are worth knowing. In `BodyPaths` a function is a whole part of a path,
where `HasPathFunc` looks at the end of the whole path and `cleanPath` at the end of its last
part. `Variables` knows whole placeholders only: one that comes together from
pieces of several values is not modelled.

Three hazards of `PROJECT.json` have no property, because the code does what one would
exclude: duplicated arguments, values remembered without notice, and error pages as schemas. A
fourth, the error of a case's arguments that is reported only by its first call
(`main.go:222`), is harmless in all suites that have calls.

What is left to do is the composition of `ParallelRun` with `SuiteRunner` and `Throttle` for
the execution of a suite. Today the two contracts meet in the assumptions: `SuiteContract` is
proved of `SuiteRunner` and is what `Outcomes` and `MayPanic` of `ParallelRun` stand for.
