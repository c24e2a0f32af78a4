--------------------------- MODULE LoadingProofs ----------------------------
(***************************************************************************)
(* What the validation guarantees of the suites that run, for any number   *)
(* of files and any changes of them.                                       *)
(***************************************************************************)
EXTENDS Loading, TLAPS

Walking == {"schema", "names"}
Running == {"load", "loaded", "panic"}

\* A file that stays as it was, after the validation.
InOrder(f) == disk[f] = Absent \/ disk[f] \in Valid

\* The loop of ValidateSuites.
Validation ==
    phase \in Walking =>
        /\ \A f \in Files \ changed :
              /\ f \in todo => disk[f] # Absent
              /\ f \notin todo \cup errs => InOrder(f)
        /\ phase = "names" => \A f \in todo \ changed : First(f) => disk[f] \in SchemaValid

\* The loop of the loader.
Decoding ==
    phase \in Running =>
        \A f \in Files \ changed :
            /\ InOrder(f)
            /\ disk[f] # Absent =>
                  f \in todo \/ suites[f] = disk[f] \/ (f \in dropped /\ disk[f] \notin Decodable)

ErrorsAreReal == \A f \in errs \ changed : disk[f] \in Contents \ Valid

ReadAsItIs ==
    \A f \in Files : suites[f] # NotRead =>
        phase \in Running /\ (f \notin changed => suites[f] = disk[f])

NothingLeft == phase = "loaded" => todo = {}

Inv ==
    /\ TypeOK /\ Validation /\ Decoding /\ ErrorsAreReal /\ ReadAsItIs
    /\ NothingLeft /\ PanicIsRace /\ RefusesForReason

-----------------------------------------------------------------------------

LEMMA InitInv == Init => Inv
  BY LoadingAssumption
     DEF Init, Inv, TypeOK, Validation, Decoding, ErrorsAreReal, ReadAsItIs, NothingLeft,
         PanicIsRace, RefusesForReason, Walking, Running, Ended

LEMMA MainInv == ASSUME Inv, Main PROVE Inv'
<1> USE DEF Inv
<1>1. UNCHANGED <<args, disk, changes, changed, errs, suites, dropped>> /\ phase = "start"
  BY DEF Main, Exit
<1>2. TypeOK'
  BY DEF Main, Exit, TypeOK, Ended, Listed
<1>3. \A f \in Files : suites[f] = NotRead
  BY <1>1 DEF ReadAsItIs, Running
<1>4. ReadAsItIs' /\ ErrorsAreReal'
  BY <1>1, <1>3 DEF ReadAsItIs, ErrorsAreReal
<1>5. CASE ~args.version /\ ~args.help /\ args.host /\ args.dir /\ phase' = "schema" /\ todo' = Listed
  BY <1>1, <1>2, <1>4, <1>5
     DEF Validation, Decoding, Walking, Running, InOrder, NothingLeft, PanicIsRace, RefusesForReason, Listed
<1>6. CASE phase' = "exit 0" \/ (phase' = "exit 1" /\ (~args.host \/ ~args.dir))
  BY <1>1, <1>2, <1>4, <1>6
     DEF Validation, Decoding, Walking, Running, NothingLeft, PanicIsRace, RefusesForReason
<1> QED
  BY <1>5, <1>6 DEF Main, Exit

\* A file that is checked: what the check says of it is true, or it has changed.
LEMMA CheckedInv ==
    ASSUME Inv, NEW f \in Files, NEW error \in BOOLEAN, phase \in Walking, First(f),
           f \notin changed => (error <=> disk[f] \notin Valid),
           Checked(f, error)
    PROVE  Inv'
<1> USE DEF Inv
<1>1. /\ UNCHANGED <<args, disk, changes, changed, suites, dropped>>
      /\ phase' = "schema" /\ todo' = todo \ {f}
      /\ errs' = IF error THEN errs \cup {f} ELSE errs
  BY DEF Checked
<1>2. f \in todo
  BY DEF First
<1>3. TypeOK'
  BY <1>1 DEF TypeOK, Ended
<1>4. f \notin changed => disk[f] \in Contents
  BY <1>2 DEF Validation, TypeOK
<1>5. ErrorsAreReal'
  BY <1>1, <1>4 DEF ErrorsAreReal
<1>6. Validation'
  BY <1>1, <1>2 DEF Validation, InOrder, Walking
<1>7. ReadAsItIs'
  BY <1>1 DEF ReadAsItIs, Walking, Running
<1>8. Decoding' /\ NothingLeft' /\ PanicIsRace' /\ RefusesForReason'
  BY <1>1 DEF Decoding, NothingLeft, PanicIsRace, RefusesForReason, Running
<1> QED
  BY <1>3, <1>5, <1>6, <1>7, <1>8

LEMMA ValidateSchemaInv == ASSUME Inv, NEW f \in Files, ValidateSchema(f) PROVE Inv'
<1> USE DEF Inv
<1>1. CASE disk[f] \in SchemaValid /\ Exit("names")
  <2>1. /\ UNCHANGED <<args, disk, changes, changed, todo, errs, suites, dropped>>
        /\ phase = "schema" /\ phase' = "names" /\ First(f)
    BY <1>1 DEF Exit, ValidateSchema
  <2>2. TypeOK'
    BY <2>1 DEF TypeOK, Ended
  <2>3. \A g \in todo : First(g) => g = f
    BY <2>1 DEF First, Files, TypeOK
  <2>4. Validation'
    BY <1>1, <2>1, <2>3 DEF Validation, Walking, InOrder, First
  <2>5. ReadAsItIs' /\ ErrorsAreReal'
    BY <2>1 DEF ReadAsItIs, ErrorsAreReal, Running
  <2>6. Decoding' /\ NothingLeft' /\ PanicIsRace' /\ RefusesForReason'
    BY <2>1 DEF Decoding, NothingLeft, PanicIsRace, RefusesForReason, Running
  <2> QED
    BY <2>2, <2>4, <2>5, <2>6
<1>2. CASE disk[f] \notin SchemaValid /\ Checked(f, TRUE)
  BY <1>2, CheckedInv DEF ValidateSchema, Valid, Walking
<1> QED
  BY <1>1, <1>2 DEF ValidateSchema

LEMMA ValidateNamesInv == ASSUME Inv, NEW f \in Files, ValidateNames(f) PROVE Inv'
<1>1. phase = "names" /\ First(f) /\ Checked(f, disk[f] \notin Named)
  BY DEF ValidateNames
<1>2. f \notin changed => disk[f] \in SchemaValid
  BY <1>1 DEF Inv, Validation, Walking, First
<1> QED
  BY <1>1, <1>2, CheckedInv DEF Valid, Walking

LEMMA ValidatedInv == ASSUME Inv, Validated PROVE Inv'
<1> USE DEF Inv
<1>1. /\ UNCHANGED <<args, disk, changes, changed, errs, suites, dropped>>
      /\ phase = "schema" /\ todo = {}
  BY DEF Validated, Exit
<1>2. TypeOK'
  BY <1>1 DEF Validated, Exit, TypeOK, Ended, Listed
<1>3. \A f \in Files : suites[f] = NotRead
  BY <1>1 DEF ReadAsItIs, Running
<1>4. ReadAsItIs' /\ ErrorsAreReal'
  BY <1>1, <1>3 DEF ReadAsItIs, ErrorsAreReal
<1>5. CASE (errs # {} \/ ~args.headers) /\ phase' = "exit 1"
  <2>1. \A f \in errs : f \in Files /\ (f \in changed \/ disk[f] \in Contents \ Valid)
    BY DEF ErrorsAreReal, TypeOK
  <2>2. RefusesForReason'
    BY <1>1, <1>5, <2>1 DEF RefusesForReason
  <2> QED
    BY <1>1, <1>2, <1>4, <1>5, <2>2
       DEF Validation, Decoding, Walking, Running, NothingLeft, PanicIsRace
<1>6. CASE errs = {} /\ phase' = "load" /\ todo' = Listed
  BY <1>1, <1>2, <1>4, <1>6
     DEF Validation, Decoding, Walking, Running, InOrder, NothingLeft, PanicIsRace, RefusesForReason, Listed
<1> QED
  BY <1>5, <1>6 DEF Validated, Exit

LEMMA LoadInv == ASSUME Inv, NEW f \in Files, Load(f) PROVE Inv'
<1> USE DEF Inv
<1>1. /\ UNCHANGED <<args, disk, changes, changed, errs>>
      /\ phase = "load" /\ f \in todo
  BY DEF Load, Exit, First
<1>2. f \notin changed => disk[f] = Absent \/ disk[f] \in Valid
  BY <1>1 DEF Decoding, Running, InOrder
<1>3. CASE disk[f] \in NullCases /\ Exit("panic")
  <2>1. UNCHANGED <<todo, suites, dropped>> /\ phase' = "panic"
    BY <1>3 DEF Exit
  <2>2. f \in changed
    BY <1>2, <1>3, LoadingAssumption DEF Valid
  <2>3. PanicIsRace'
    BY <1>1, <1>3, <2>2 DEF PanicIsRace
  <2>4. TypeOK'
    BY <1>1, <2>1 DEF TypeOK, Ended
  <2>5. Decoding' /\ Validation' /\ ErrorsAreReal'
    BY <1>1, <2>1 DEF Decoding, Validation, ErrorsAreReal, Running, Walking, InOrder
  <2> QED
    BY <1>1, <2>1, <2>3, <2>4, <2>5 DEF ReadAsItIs, Running, NothingLeft, RefusesForReason
<1>4. CASE /\ disk[f] \in Decodable \ NullCases
           /\ suites' = [suites EXCEPT ![f] = disk[f]]
           /\ todo' = todo \ {f}
           /\ UNCHANGED <<phase, dropped>>
  <2>1. TypeOK'
    BY <1>1, <1>4, LoadingAssumption DEF TypeOK
  <2>2. /\ suites'[f] = disk[f]
        /\ \A g \in Files \ {f} : suites'[g] = suites[g]
    BY <1>4 DEF TypeOK
  <2>3. Decoding'
    BY <1>1, <1>4, <2>2 DEF Decoding, Running, InOrder
  <2>4. ReadAsItIs'
    BY <1>1, <1>4, <2>2 DEF ReadAsItIs, Running
  <2> QED
    BY <1>1, <1>4, <2>1, <2>3, <2>4
       DEF Validation, ErrorsAreReal, NothingLeft, PanicIsRace, RefusesForReason, Walking
<1>5. CASE /\ disk[f] \notin Decodable
           /\ dropped' = dropped \cup {f}
           /\ todo' = todo \ {f}
           /\ UNCHANGED <<phase, suites>>
  <2>1. TypeOK'
    BY <1>1, <1>5 DEF TypeOK
  <2>2. Decoding'
    BY <1>1, <1>5 DEF Decoding, Running, InOrder
  <2> QED
    BY <1>1, <1>5, <2>1, <2>2
       DEF Validation, ErrorsAreReal, ReadAsItIs, NothingLeft, PanicIsRace, RefusesForReason, Walking, Running
<1> QED
  BY <1>3, <1>4, <1>5 DEF Load

LEMMA LoadedInv == ASSUME Inv, Loaded PROVE Inv'
<1>1. /\ UNCHANGED <<args, disk, changes, changed, todo, errs, suites, dropped>>
      /\ phase = "load" /\ phase' = "loaded" /\ todo = {}
  BY DEF Loaded, Exit
<1> QED
  BY <1>1 DEF Inv, TypeOK, Validation, Decoding, ErrorsAreReal, ReadAsItIs, NothingLeft,
              PanicIsRace, RefusesForReason, Walking, Running, InOrder, Ended

LEMMA ChangeInv == ASSUME Inv, NEW f \in Files, Change(f) PROVE Inv'
<1> USE DEF Inv
<1>1. /\ UNCHANGED <<args, phase, todo, errs, suites, dropped>>
      /\ phase \notin Ended /\ changed' = changed \cup {f}
      /\ disk' \in [Files -> Contents \cup {Absent}]
      /\ \A g \in Files \ {f} : disk'[g] = disk[g]
      /\ changes' \in 0 .. MaxChanges
  BY LoadingAssumption DEF Change, TypeOK
<1>2. TypeOK'
  BY <1>1 DEF TypeOK
<1>3. Validation'
  BY <1>1, <1>2 DEF Validation, Walking, InOrder, First, TypeOK
<1>4. Decoding' /\ ErrorsAreReal' /\ ReadAsItIs'
  BY <1>1, <1>2 DEF Decoding, ErrorsAreReal, ReadAsItIs, Running, InOrder, TypeOK
<1>5. NothingLeft' /\ PanicIsRace' /\ RefusesForReason'
  BY <1>1 DEF NothingLeft, PanicIsRace, RefusesForReason, Ended
<1> QED
  BY <1>2, <1>3, <1>4, <1>5

LEMMA NextInv == Inv /\ [Next]_vars => Inv'
<1>1. Inv /\ UNCHANGED vars => Inv'
  BY DEF vars, Inv, TypeOK, Validation, Decoding, ErrorsAreReal, ReadAsItIs, NothingLeft,
         PanicIsRace, RefusesForReason, InOrder, First
<1> QED
  BY <1>1, MainInv, ValidateSchemaInv, ValidateNamesInv, ValidatedInv, LoadInv, LoadedInv, ChangeInv
     DEF Next, Program, Over

THEOREM InvAlways == Spec => []Inv
  BY InitInv, NextInv, PTL DEF Spec

\* Every variable of the start keeps its type.
THEOREM TypeCorrect == Spec => []TypeOK
  BY InvAlways, PTL DEF Inv

\* A suite that runs is valid, unless its file changed after the program started.
THEOREM ValidSuitesRun == Spec => []RunsWhatIsValid
<1>1. Inv => RunsWhatIsValid
  BY LoadingAssumption
     DEF Inv, RunsWhatIsValid, ReadAsItIs, Decoding, InOrder, TypeOK
<1> QED
  BY <1>1, InvAlways, PTL

\* A file that stays as it was is sent to the workers, or cannot be decoded.
THEOREM FilesKept == Spec => []NoFileLost
<1>1. Inv => NoFileLost
  BY DEF Inv, NoFileLost, NothingLeft, Decoding, InOrder, Listed, Running
<1> QED
  BY <1>1, InvAlways, PTL

\* The loader panics only over a file that changed after it was validated.
THEOREM PanicTakesAChange == Spec => []PanicIsRace
  BY InvAlways, PTL DEF Inv

\* The program refuses to run only for its arguments or a file that is not valid.
THEOREM RefusalsJustified == Spec => []RefusesForReason
  BY InvAlways, PTL DEF Inv

=============================================================================
