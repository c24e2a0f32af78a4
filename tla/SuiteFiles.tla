----------------------------- MODULE SuiteFiles -----------------------------
(***************************************************************************)
(* Suite files and the names the reporters give them (loader.go,           *)
(* types.go).  A dotted name such as "users.admin.login" is the sequence   *)
(* of its labels, so joining two names with a dot is \o, and two names are *)
(* equal exactly when their dotted forms are.                              *)
(*                                                                         *)
(* A suite file is a record                                                *)
(*   dir  : its directory relative to the root, a sequence of components,  *)
(*          each one a dotted name; << >> is the root itself.  A hidden    *)
(*          directory's first component has "" as its first label.         *)
(*   base : its file name without the suite extension, a dotted name.      *)
(*   xext : TRUE for the extension of an ignored suite (.xsuite.json).     *)
(***************************************************************************)
EXTENDS Sequences

Seqs == INSTANCE SequencesExt

CONSTANT Label          \* what stands between two dots of a name

DottedName == Seq(Label) \ {<< >>}

SuiteFile == [dir : Seq(DottedName), base : DottedName, xext : BOOLEAN]

\* strings.HasPrefix(suite.Dir, "."): the root (".", or ".." when the root is
\* a file), or a directory whose relative path starts with a hidden one.
HasDotPrefix(dir) == dir = << >> \/ dir[1][1] = ""

\* The empty package is << >>; otherwise every separator becomes a dot, which
\* forgets where one directory ended and the next began.
PackageName(sf) ==
    IF HasDotPrefix(sf.dir) THEN << >> ELSE Seqs!FlattenSeq(sf.dir)

\* FullName does not say which extension the file has.
FullName(sf) == PackageName(sf) \o sf.base

=============================================================================
