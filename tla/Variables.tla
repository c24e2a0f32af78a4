----------------------------- MODULE Variables ------------------------------
(***************************************************************************)
(* Vars and TemplateContext (types.go, template.go): how the arguments of  *)
(* one case, the values remembered from its responses and the environment  *)
(* replace the placeholders of its templates.                              *)
(*                                                                         *)
(* A text is the set of things it is made of: literals, placeholders (a    *)
(* name stands for its own placeholder), a call of a function of the clock *)
(* (Now), something that is no valid template (Bad), times read (numbers). *)
(* Their order and number, and functions whose result depends only on      *)
(* their arguments, make no difference to what is said here.  Go iterates  *)
(* over a map in any order: each choice of a next key is a choice here.    *)
(***************************************************************************)
EXTENDS Integers, Sequences, FiniteSets

CONSTANTS
    Name,          \* names of variables
    Reserved,      \* those with a prefix ctx: or env:
    Environment,   \* the values NewVars gives to some of these
    Literal, Now, Bad,
    Scripts,       \* what test cases do with their variables
    MaxClock       \* bound on the clock

Time == 0 .. MaxClock
Token == Name \cup Literal \cup Time \cup {Now, Bad}
Text == SUBSET Token

\* A value that is not a string is never evaluated, only formatted.
Value == [string : BOOLEAN, text : Text]
IsArguments(f) == DOMAIN f \subseteq Name /\ f \in [DOMAIN f -> Value]

\* args: AddAll of the arguments of the case or of a call.  body, headers: the
\* values to remember, each with Add.  template: a string of the request or of
\* the expectations.  list: an array in the expected body or body path.
Operation == {"args", "body", "headers", "template", "list"}
IsStep(step) == step.op \in Operation /\ IsArguments(step.args) /\ step.text \in Text

ASSUME NameAssumption ==
    /\ IsFiniteSet(Name) /\ Reserved \subseteq Name
    /\ IsArguments(Environment) /\ DOMAIN Environment \subseteq Reserved
ASSUME TokenAssumption ==
    /\ Name \cap (Literal \cup Time \cup {Now, Bad}) = {}
    /\ Bad \notin Literal \cup Time \cup {Now}
ASSUME ScriptAssumption ==
    \A s \in Scripts : Len(s) \in Nat /\ \A i \in 1 .. Len(s) : IsStep(s[i])
ASSUME ClockAssumption == MaxClock \in Nat

VARIABLES
    script,     \* the steps of this test case
    at,         \* the step being done
    pc,         \* "step", "add", "frame", "apply" or "done"
    items,      \* Vars.items
    used,       \* Vars.used
    todo,       \* names the loop of AddAll (or of remember) has not reached
    scope,      \* AddAll's scope: names not processed yet
    stack,      \* the names of the active calls of addInScope
    text,       \* the text under evaluation
    left,       \* items the current pass of ApplyTo has not reached
    pass,       \* 1 in the ApplyTo of addInScope, 2 in the one of TemplateContext
    failed,     \* an error ended the case
    out,        \* the texts evaluated so far, each with the variables of its moment
    clock       \* time.Now()

loopVars == <<todo, scope, stack>>
passVars == <<text, left, pass>>
vars == <<script, at, pc, items, used, loopVars, passVars, failed, out, clock>>

Current == script[at]
args == Current.args
Top == stack[Len(stack)]

Init ==
    /\ script \in Scripts /\ at = 1 /\ pc = "step"
    /\ items = Environment /\ used = {}
    /\ todo = {} /\ scope = {} /\ stack = << >>
    /\ text = {} /\ left = {} /\ pass = 1
    /\ failed = FALSE /\ out = << >> /\ clock = 0

-----------------------------------------------------------------------------
(* AddAll and addInScope *)

OverridesNothing(n) == FALSE
Overrides(n) == n \in Reserved /\ n \in DOMAIN items

\* The loop over the names that are not processed yet.
Unseen(names) == names \cap scope
ToVisit(names) == names

\* The scope once n is being processed.
WithSelf(n) == scope
Without(n) == scope \ {n}

\* The names of the scope the value of n refers to.
RefersToNone(n) == {}
RefersTo(n) == IF args[n].string THEN args[n].text \cap scope ELSE {}

Put(n, value) == [m \in DOMAIN items \cup {n} |-> IF m = n THEN value ELSE items[m]]
Pop ==
    /\ stack' = SubSeq(stack, 1, Len(stack) - 1)
    /\ pc' = IF Len(stack) = 1 THEN "add" ELSE "frame"

Fail == failed' = TRUE /\ pc' = "done"

\* A header the response does not have is passed over.
StartAdd ==
    /\ pc = "step" /\ at <= Len(script) /\ Current.op \in {"args", "body", "headers"}
    /\ IF Current.op = "headers" THEN todo' \in SUBSET DOMAIN args ELSE todo' = DOMAIN args
    /\ scope' = IF Current.op = "args" THEN DOMAIN args ELSE {}
    /\ pc' = "add"
    /\ UNCHANGED <<script, at, items, used, stack, passVars, failed, out, clock>>

\* Only the error of an argument is looked at, not that of a remembered value.
Visit ==
    /\ pc = "add"
    /\ \E n \in ToVisit(todo) :
          /\ todo' = todo \ {n} /\ scope' = Without(n)
          /\ \/ ~Overrides(n) /\ stack' = <<n>> /\ pc' = "frame" /\ UNCHANGED failed
             \/ Overrides(n) /\ Current.op = "args" /\ Fail /\ UNCHANGED stack
             \/ Overrides(n) /\ Current.op # "args" /\ UNCHANGED <<pc, stack, failed>>
    /\ UNCHANGED <<script, at, items, used, passVars, out, clock>>

\* The response's body does not have a value to remember.
NotFound ==
    /\ pc = "add" /\ Current.op = "body" /\ todo # {}
    /\ Fail
    /\ UNCHANGED <<script, at, items, used, loopVars, passVars, out, clock>>

EndAdd ==
    /\ pc = "add" /\ ToVisit(todo) = {}
    /\ at' = at + 1 /\ pc' = "step"
    /\ UNCHANGED <<script, items, used, loopVars, passVars, failed, out, clock>>

\* A name the value refers to is added first; an error of that is ignored.
Descend ==
    /\ pc = "frame"
    /\ \E n \in RefersTo(Top) :
          /\ scope' = Without(n)
          /\ stack' = IF Overrides(n) THEN stack ELSE Append(stack, n)
    /\ UNCHANGED <<script, at, pc, items, used, todo, passVars, failed, out, clock>>

Store ==
    /\ pc = "frame" /\ ~args[Top].string
    /\ items' = Put(Top, args[Top])
    /\ Pop
    /\ UNCHANGED <<script, at, used, todo, scope, passVars, failed, out, clock>>

-----------------------------------------------------------------------------
(* ApplyTo *)

UserDefined == DOMAIN items \ Reserved
VisibleUser == UserDefined
Visible == DOMAIN items

Evaluate ==
    /\ pc = "frame" /\ args[Top].string /\ RefersTo(Top) = {}
    /\ text' = args[Top].text /\ left' = Visible /\ pass' = 1
    /\ pc' = "apply"
    /\ UNCHANGED <<script, at, items, used, loopVars, failed, out, clock>>

StartTemplate ==
    /\ pc = "step" /\ at <= Len(script) /\ Current.op = "template"
    /\ text' = Current.text /\ left' = Visible /\ pass' = 2
    /\ pc' = "apply"
    /\ UNCHANGED <<script, at, items, used, loopVars, failed, out, clock>>

Assembled(n) == IF n \in text THEN (text \ {n}) \cup items[n].text ELSE text

\* A value that is only its own placeholder changes nothing.
Changes(n) == n \in text /\ items[n].text # {n}

MarkLate(n) == IF pass = 2 /\ n \in UserDefined /\ Changes(n) THEN {n} ELSE {}
Mark(n) == IF n \in UserDefined /\ Changes(n) THEN {n} ELSE {}

Substitute ==
    /\ pc = "apply"
    /\ \E n \in left :
          /\ left' = left \ {n}
          /\ text' = Assembled(n)
          /\ used' = used \cup Mark(n)
    /\ UNCHANGED <<script, at, pc, items, loopVars, pass, failed, out, clock>>

PassesUntilResolved == text \cap DOMAIN items # {}
AnotherPass == pass = 1

Again ==
    /\ pc = "apply" /\ left = {} /\ AnotherPass
    /\ left' = Visible /\ pass' = 2
    /\ UNCHANGED <<script, at, pc, items, used, loopVars, text, failed, out, clock>>

-----------------------------------------------------------------------------
(* TemplateContext.ApplyTo after its substitution: the template is executed. *)

Executed(time) == IF Now \in text THEN (text \ {Now}) \cup {time} ELSE text
Output(t) == [op |-> Current.op, text |-> t, items |-> items]

ExecuteArgument ==
    /\ pc = "apply" /\ left = {} /\ ~AnotherPass /\ stack # << >>
    /\ clock' \in clock .. MaxClock
    /\ \/ /\ Bad \notin text
          /\ items' = Put(Top, [string |-> TRUE, text |-> Executed(clock')])
          /\ Pop /\ UNCHANGED failed
       \/ /\ Bad \in text
          /\ items' = Put(Top, [string |-> TRUE, text |-> {}])
          /\ \/ /\ Len(stack) = 1 /\ Current.op = "args"
                /\ Fail /\ UNCHANGED stack
             \/ /\ Len(stack) # 1 \/ Current.op # "args"
                /\ Pop /\ UNCHANGED failed
    /\ UNCHANGED <<script, at, used, todo, scope, passVars, out>>

ExecuteTemplate ==
    /\ pc = "apply" /\ left = {} /\ ~AnotherPass /\ stack = << >>
    /\ clock' \in clock .. MaxClock
    /\ \/ /\ Bad \notin text
          /\ out' = Append(out, Output(Executed(clock')))
          /\ at' = at + 1 /\ pc' = "step" /\ UNCHANGED failed
       \/ /\ Bad \in text
          /\ Fail /\ UNCHANGED <<at, out>>
    /\ UNCHANGED <<script, items, used, loopVars, passVars>>

\* populateProperty knows strings, slices of strings and objects; an array of a
\* JSON document is neither, and stays as it is.
KeepList ==
    /\ pc = "step" /\ at <= Len(script) /\ Current.op = "list"
    /\ out' = Append(out, Output(Current.text))
    /\ at' = at + 1
    /\ UNCHANGED <<script, pc, items, used, loopVars, passVars, failed, clock>>

EndScript ==
    /\ pc = "step" /\ at > Len(script)
    /\ pc' = "done"
    /\ UNCHANGED <<script, at, items, used, loopVars, passVars, failed, out, clock>>

-----------------------------------------------------------------------------

Work ==
    \/ StartAdd \/ Visit \/ NotFound \/ EndAdd \/ Descend \/ Store
    \/ Evaluate \/ StartTemplate \/ Substitute \/ Again
    \/ ExecuteArgument \/ ExecuteTemplate \/ KeepList \/ EndScript

Over == pc = "done" /\ UNCHANGED vars

Next == Work \/ Over

\* One goroutine, and no step of it waits for anything.
Spec == Init /\ [][Next]_vars /\ WF_vars(Work)

-----------------------------------------------------------------------------
(* Properties *)

\* Every variable stays in its range; only known names that a test case may
\* define are marked as used.
TypeOK ==
    /\ script \in Scripts /\ at \in 1 .. Len(script) + 1
    /\ pc \in {"step", "add", "frame", "apply", "done"}
    /\ pc \in {"add", "frame", "apply"} => at <= Len(script)
    /\ IsArguments(items)
    /\ used \subseteq UserDefined
    /\ stack \in Seq(Name)
    /\ pc \in {"step", "add"} => stack = << >>
    /\ pc = "frame" => stack # << >>
    /\ todo \subseteq Name /\ scope \subseteq Name
    /\ pc = "add" \/ (stack # << >> /\ pc # "done") =>
           /\ Current.op \in {"args", "body", "headers"}
           /\ todo \cup scope \subseteq DOMAIN args
           /\ \A i \in 1 .. Len(stack) : stack[i] \in DOMAIN args
    /\ text \subseteq Token /\ left \subseteq DOMAIN items /\ pass \in {1, 2}
    /\ failed \in BOOLEAN /\ failed => pc = "done"
    /\ clock \in Time

\* Arguments that refer to each other in a circle do not recurse for ever: no
\* name is twice on the stack, nor both on it and still in the scope.
BoundedRecursion ==
    \A i \in 1 .. Len(stack) :
        /\ stack[i] \notin scope
        /\ \A j \in 1 .. Len(stack) : stack[i] = stack[j] => i = j

\* The variables of the context and the environment keep their values, whatever
\* arguments and responses try to set.
EnvironmentKept ==
    \A n \in DOMAIN Environment : n \in DOMAIN items /\ items[n] = Environment[n]

\* The last step that ended without an error, if it is of this kind.
Done(op) == pc = "step" /\ at > 1 /\ script[at - 1].op = op
Last == script[at - 1].args

\* AddAll succeeds only if every argument could be evaluated: the error of an
\* argument that was added first for another one's sake comes up again, for
\* AddAll adds that argument once more.
NoErrorLost ==
    Done("args") =>
        \A n \in DOMAIN Last : /\ n \notin DOMAIN Environment
                               /\ Last[n].string => Bad \notin Last[n].text

\* The arguments refer to each other without a circle.
Acyclic(a) ==
    \E rank \in [DOMAIN a -> 1 .. Cardinality(DOMAIN a)] :
        \A n, m \in DOMAIN a : m \in a[n].text => rank[m] < rank[n]

Denotes(t) == UNION {IF x \in DOMAIN items THEN items[x].text ELSE {x} : x \in t}
Constant(a) == \A n \in DOMAIN a : Now \notin a[n].text

\* All values but those of the strings among the last arguments are literal: no
\* variable that is known is in them, nor a call of the clock.
OthersLiteral ==
    \A m \in DOMAIN items :
        \/ m \in DOMAIN Last /\ Last[m].string
        \/ items[m].text \cap (DOMAIN items \cup {Now}) = {}

\* In whatever order the maps are iterated, the value of an argument is its text
\* with the value of each variable in the place of its placeholder.  It is not if
\* an argument calls the clock, for one that another refers to is evaluated twice,
\* or if a value it gets from elsewhere holds a placeholder itself.
ArgumentsResolved ==
    Done("args") /\ Acyclic(Last) /\ Constant(Last) /\ OthersLiteral =>
        \A n \in DOMAIN Last :
            items[n].text = (IF Last[n].string THEN Denotes(Last[n].text) ELSE Last[n].text)

\* The names in the texts of a step that it evaluates or puts into the variables;
\* and those in the strings that it evaluates for sure: the response may not have a
\* header, and does not change a variable of the context.
Mentions(step) ==
    (IF step.op = "template" THEN step.text ELSE {})
        \cup UNION {step.args[n].text : n \in DOMAIN step.args}
Sure(step) ==
    {n \in DOMAIN step.args : /\ step.args[n].string
                              /\ step.op = "args" \/ (step.op = "body" /\ n \notin Reserved)}
Evaluated(step) ==
    (IF step.op = "template" THEN step.text ELSE {}) \cup UNION {step.args[n].text : n \in Sure(step)}
MentionedBy(n) ==
    (UNION {Environment[m].text : m \in DOMAIN Environment})
        \cup UNION {Mentions(script[i]) : i \in 1 .. n}

\* What exists by the step n for sure, and what a step from n to m may have added.
Declared(n) ==
    UNION {DOMAIN script[i].args :
           i \in {j \in 1 .. n : script[j].op = "args" \/ (script[j].op = "body" /\ j < n)}}
Added(n, m) == UNION {DOMAIN script[i].args : i \in n .. m}
MentionedInScope ==
    UNION {Evaluated(script[i]) \ (Added(i, at - 1) \ Declared(i)) : i \in 1 .. at - 1}

\* No variable leads back to itself, through whatever it has been given so far.
Ranked(rank, a) == \A n \in DOMAIN a : \A m \in a[n].text \cap Name : rank[m] < rank[n]
NoCircle ==
    \E rank \in [Name -> 1 .. Cardinality(Name)] :
        Ranked(rank, Environment) /\ \A i \in 1 .. at - 1 : Ranked(rank, script[i].args)

\* What SuiteRunner takes AddAll and ApplyTo to do: after steps without an error
\* the used variables exist and are mentioned, and each one that is mentioned where
\* it is known is used, in whatever order the maps are iterated.
UsedIsMentioned ==
    pc = "step" =>
        /\ used \subseteq MentionedBy(at - 1) \cap UserDefined
        /\ NoCircle => MentionedInScope \cap UserDefined \subseteq used

\* "ApplyTo updates input template with values correspondent to placeholders
\* according to current vars map" (types.go:599): a text that is sent, or
\* compared with the response, holds no placeholder of a variable that is known.
\* Two kinds are left: those in arrays, which populateProperty does not look into,
\* and those in the value of another variable, which was evaluated too early.
NoPlaceholderLeft ==
    \A i \in 1 .. Len(out) : \A n \in out[i].text \cap DOMAIN out[i].items :
        \/ out[i].op = "list"
        \/ \E m \in DOMAIN out[i].items : n \in out[i].items[m].text

\* Every test case gets to its end, circular arguments included.
Termination == <>(pc = "done")

=============================================================================
