---------------------------- MODULE MCVariables -----------------------------
(* Test cases for TLC. *)
EXTENDS Variables, TLC

CONSTANTS a, b, c, env, unknown, lit, one

MCName == {a, b, c, env, unknown}
MCReserved == {env}
MCLiteral == {lit, one}
MCEnvironment == env :> [string |-> TRUE, text |-> {one}]

V(t) == [string |-> TRUE, text |-> t]
NoString(t) == [string |-> FALSE, text |-> t]
Add(op, arguments) == [op |-> op, args |-> arguments, text |-> {}]
Apply(op, t) == [op |-> op, args |-> << >>, text |-> t]

Chain == a :> V({lit, b}) @@ b :> V({c, env}) @@ c :> V({one})
Diamond == a :> V({b, c, unknown}) @@ b :> V({c}) @@ c :> NoString({lit})
Circle == a :> V({b}) @@ b :> V({c, one}) @@ c :> V({a})
Itself == a :> V({a, lit})

MCScripts ==
    { << Add("args", Chain), Apply("template", {a, unknown}),
         Add("body", c :> V({lit})), Apply("template", {c, env}) >>,
      << Add("args", Diamond), Add("args", b :> V({a, c})), Apply("template", {b, Now}) >>,
      << Add("args", Circle), Add("headers", c :> V({lit})), Add("args", Itself),
         Apply("list", {lit}) >>,
      \* errors: of an argument another one needs, of a template, of overriding
      << Add("args", a :> V({b}) @@ b :> V({Bad})), Apply("template", {a}) >>,
      << Add("args", a :> V({env, b}) @@ env :> V({lit}) @@ b :> V({one})) >>,
      << Add("args", a :> V({b}) @@ b :> NoString({Bad})) >>,
      << Add("body", a :> V({one}) @@ env :> V({lit})), Apply("template", {a, Bad}) >>,
      \* README.md:350: a digest of a time that is also sent
      << Add("args", a :> V({b}) @@ b :> V({Now})), Apply("template", {a, b, env}) >>,
      \* an argument that mentions a value to be remembered by the first call
      << Add("args", a :> V({b})), Apply("template", {lit}), Add("body", b :> V({one})),
         Apply("template", {a}) >>,
      \* an array of alternatives in an expected body path
      << Add("args", a :> V({one})), Apply("list", {a}) >>,
      \* a header that only a later response has
      << Add("headers", a :> V({lit})), Apply("template", {a}), Add("headers", a :> V({one})),
         Apply("template", {lit}) >>,
      \* circles and chains through several calls, and a text that is no string
      << Add("body", a :> V({b})), Add("args", b :> V({a})), Apply("template", {b}) >>,
      << Add("args", a :> V({b}) @@ b :> V({lit})), Add("body", b :> V({c, one})),
         Add("args", c :> NoString({env, lit}) @@ a :> V({b, c})), Apply("template", {a}) >>,
      \* a response with a text that is no valid template
      << Add("body", a :> V({lit, Bad})), Apply("template", {a}) >> }

=============================================================================
