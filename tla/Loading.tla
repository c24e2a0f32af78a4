------------------------------ MODULE Loading -------------------------------
(***************************************************************************)
(* From the start of the program to the suites that run: main (main.go)    *)
(* checks its arguments, ValidateSuites (loader.go) walks the directory    *)
(* and checks every suite file, and NewSuiteLoader walks it again and      *)
(* decodes the files for the workers.  Nothing is kept of the validation   *)
(* but its verdict: each file is read three times, and the files may       *)
(* change in between.                                                      *)
(*                                                                         *)
(* Files are numbered in the order of a walk.  Of their contents only what *)
(* the checks tell apart is kept, as sets of contents.                     *)
(***************************************************************************)
EXTENDS Naturals, FiniteSets

CONSTANTS
    N,              \* suite files there may be in the directory
    Contents,       \* what a file may contain
    SchemaValid,    \* JSON that meets suiteDetailedSchema
    Named,          \* an array of objects with distinct texts as names
    Decodable,      \* JSON that json.Unmarshal stores in test cases
    NullCases,      \* those of them with a null in place of a case
    Arguments,      \* arguments of the program
    MaxChanges      \* bound: changes of the files while the program runs

CONSTANTS Absent, NotRead

Files == 1 .. N

ASSUME LoadingAssumption ==
    /\ N \in Nat /\ MaxChanges \in Nat
    /\ SchemaValid \subseteq Contents /\ Named \subseteq Contents
    /\ NullCases \subseteq Decodable /\ Decodable \subseteq Contents
    /\ Absent \notin Contents /\ NotRead \notin Contents
    \* null is no object, in the schema and in the check of the names
    /\ NullCases \cap SchemaValid = {} /\ NullCases \cap Named = {}
    /\ Arguments \subseteq
        [version : BOOLEAN, help : BOOLEAN, host : BOOLEAN, dir : BOOLEAN, headers : BOOLEAN]

VARIABLES
    args,       \* whether -v, -h, and a usable host, directory and headers are given
    disk,       \* what each file contains
    changes,
    changed,    \* files that changed since the program started
    phase,      \* where main is, or how the program ended
    todo,       \* files a walk has found and the loop has not handled
    errs,       \* files with an error
    suites,     \* what was decoded and sent to the workers
    dropped     \* files the loader passed over

vars == <<args, disk, changes, changed, phase, todo, errs, suites, dropped>>

Init ==
    /\ args \in Arguments
    /\ disk \in [Files -> Contents \cup {Absent}]
    /\ changes = 0 /\ changed = {}
    /\ phase = "start"
    /\ todo = {} /\ errs = {}
    /\ suites = [f \in Files |-> NotRead]
    /\ dropped = {}

Ended == {"exit 0", "exit 1", "panic", "loaded"}

\* What filepath.Walk finds; a path that fails is passed over.
Listed == {f \in Files : disk[f] # Absent}

First(f) == f \in todo /\ \A g \in todo : f <= g

-----------------------------------------------------------------------------

Exit(code) ==
    /\ phase' = code
    /\ UNCHANGED <<args, disk, changes, changed, todo, errs, suites, dropped>>

\* The arguments, up to the walk of ValidateSuites.
Main ==
    /\ phase = "start"
    /\ \/ (args.version \/ args.help) /\ Exit("exit 0")
       \/ ~args.version /\ ~args.help /\ (~args.host \/ ~args.dir) /\ Exit("exit 1")
       \/ /\ ~args.version /\ ~args.help /\ args.host /\ args.dir
          /\ phase' = "schema"
          /\ todo' = Listed
          /\ UNCHANGED <<args, disk, changes, changed, errs, suites, dropped>>

\* The next file, when the current one is in order or not.
Checked(f, error) ==
    /\ phase' = "schema"
    /\ todo' = todo \ {f}
    /\ errs' = IF error THEN errs \cup {f} ELSE errs
    /\ UNCHANGED <<args, disk, changes, changed, suites, dropped>>

ValidateSchema(f) ==
    /\ phase = "schema" /\ First(f)
    /\ \/ disk[f] \in SchemaValid /\ Exit("names")
       \/ disk[f] \notin SchemaValid /\ Checked(f, TRUE)

\* The names are checked in what a second read of the file finds.
ValidateNamesNever(f) == phase = "names" /\ First(f) /\ Checked(f, FALSE)
ValidateNames(f) == phase = "names" /\ First(f) /\ Checked(f, disk[f] \notin Named)

\* ValidateSuites returns, newRequestConfig follows, and the loader walks again.
ValidatedAnyway ==
    /\ phase = "schema" /\ todo = {}
    /\ phase' = "load"
    /\ todo' = Listed
    /\ UNCHANGED <<args, disk, changes, changed, errs, suites, dropped>>
Validated ==
    /\ phase = "schema" /\ todo = {}
    /\ \/ (errs # {} \/ ~args.headers) /\ Exit("exit 1")
       \/ /\ errs = {} /\ args.headers
          /\ phase' = "load"
          /\ todo' = Listed
          /\ UNCHANGED <<args, disk, changes, changed, errs, suites, dropped>>

\* ToSuite: a file that is gone or cannot be decoded is passed over, and a case
\* that is null is dereferenced.
Load(f) ==
    /\ phase = "load" /\ First(f)
    /\ \/ disk[f] \in NullCases /\ Exit("panic")
       \/ /\ disk[f] \in Decodable \ NullCases
          /\ suites' = [suites EXCEPT ![f] = disk[f]]
          /\ todo' = todo \ {f}
          /\ UNCHANGED <<args, disk, changes, changed, phase, errs, dropped>>
       \/ /\ disk[f] \notin Decodable
          /\ dropped' = dropped \cup {f}
          /\ todo' = todo \ {f}
          /\ UNCHANGED <<args, disk, changes, changed, phase, errs, suites>>

\* The loader closes its channel.
Loaded == phase = "load" /\ todo = {} /\ Exit("loaded")

\* Someone edits, adds or removes a file.
Change(f) ==
    /\ phase \notin Ended /\ changes < MaxChanges
    /\ \E c \in (Contents \cup {Absent}) \ {disk[f]} : disk' = [disk EXCEPT ![f] = c]
    /\ changes' = changes + 1
    /\ changed' = changed \cup {f}
    /\ UNCHANGED <<args, phase, todo, errs, suites, dropped>>

Over == phase \in Ended /\ UNCHANGED vars

Program ==
    \/ Main
    \/ \E f \in Files : ValidateSchema(f) \/ ValidateNames(f) \/ Load(f)
    \/ Validated \/ Loaded

Next == Program \/ (\E f \in Files : Change(f)) \/ Over

Spec == Init /\ [][Next]_vars

-----------------------------------------------------------------------------
(* Properties *)

TypeOK ==
    /\ args \in Arguments
    /\ disk \in [Files -> Contents \cup {Absent}]
    /\ changes \in 0 .. MaxChanges
    /\ phase \in Ended \cup {"start", "schema", "names", "load"}
    /\ todo \subseteq Files /\ errs \subseteq Files
    /\ changed \subseteq Files /\ dropped \subseteq Files
    /\ suites \in [Files -> Contents \cup {NotRead}]

Valid == SchemaValid \cap Named

\* What the workers get was validated as it is, unless someone changed the file:
\* the walks, the reads and the checks agree on every file that stays as it was.
RunsWhatIsValid ==
    \A f \in Files \ changed :
        suites[f] # NotRead => suites[f] = disk[f] /\ suites[f] \in Valid

\* Once the loader is done, each file that stayed as it was has been sent.  The
\* exception is a file that is valid and that json.Unmarshal cannot store, although
\* "ValidateSuites detects syntax errors in all test suites in the root directory"
\* (loader.go:186): it is dropped from a run that may pass.
NoFileLost ==
    phase = "loaded" => \A f \in Listed \ changed :
        \/ suites[f] = disk[f]
        \/ f \in dropped /\ disk[f] \in Valid \ Decodable

\* Only a file that changed ends the run in a panic of the loader.
PanicIsRace == phase = "panic" => \E f \in changed : disk[f] \in NullCases

\* The program refuses to run for a reason: its arguments, or a file that is not
\* valid or has changed.
RefusesForReason ==
    phase = "exit 1" =>
        \/ ~args.host \/ ~args.dir \/ ~args.headers
        \/ \E f \in Files : f \in changed \/ disk[f] \in Contents \ Valid

=============================================================================
