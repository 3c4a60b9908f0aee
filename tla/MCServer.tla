-------------------------------- MODULE MCServer -------------------------------
(* Two config servers on one project for TLC: overlay tools, trust tools,  *)
(* resolved-config reads and module-state tools of both interleave.  From  *)
(* the first state a run can also ask the parts that read their inputs once*)
(* for an answer.                                                          *)
EXTENDS ModuleState, Questions, TLC

CONSTANTS
  s1, s2,           (* servers                                             *)
  c1, c2,           (* commands                                            *)
  e1, e2, e3,       (* entries of a module's state                         *)
  k1, k2,           (* names of list entries, roles, caches                *)
  web, py, ghost,   (* stacks                                              *)
  in, gone, out     (* context paths: a file, no file, outside the project *)

WithCommand == Mapping("checks" :> <<c1>>)
SomeBodies == {Absent, Broken, WithCommand}
OC(kind, tier, field, value) == [kind |-> kind, tier |-> tier, field |-> field, value |-> value]
SomeCalls ==
  {OC("setOverlayField", "project", "checks", c1),
   OC("appendToOverlayField", "project", "checks", c2),
   OC("appendToOverlayField", "user", "override", c1),
   OC("removeFromOverlayField", "project", "checks", c2)}

SomeKeys == e1 :> "k1" @@ e2 :> "k1" @@ e3 :> NoKey
SetTo(value) == [kind |-> "setModuleState", declared |-> TRUE, value |-> value]
AppendTo(path, e, policy) ==
  [kind |-> "appendToModuleState", declared |-> TRUE, path |-> path, entry |-> e, policy |-> policy]
RemoveKey(key) == [kind |-> "removeFromModuleState", declared |-> TRUE, key |-> key]
SomeModuleCalls ==
  {SetTo(Arr(<<e1, e3>>)), SetTo(Obj("f" :> Empty)), SetTo(Leaf),
   AppendTo(<<"f">>, e1, "error"), AppendTo(<<"f">>, e2, "allow"), AppendTo(<<"f">>, e3, "skip"),
   AppendTo(<<"f", "g">>, e2, "error"),
   RemoveKey("f"), RemoveKey("k1"),
   [SetTo(Leaf) EXCEPT !.declared = FALSE]}

-------------------------------------------------------------------------------
(* Questions *)

Optional(S) == {{}} \union {{x} : x \in S}

Bare(value) == [form |-> "bare", discards |-> FALSE, says |-> <<value>>]
Wrapped(discards, says) == [form |-> "wrapped", discards |-> discards, says |-> says]
Unknown == [form |-> "unknown", discards |-> FALSE, says |-> <<>>]
Entry(key, says) == [key |-> key, says |-> says]

(* What tier t may say at a point.                                         *)
Sayings(rule, t) ==
  CASE rule = "scalar-override"           -> {t}
    [] rule = "list-union-by-string"      -> {<<>>, <<k1>>, <<k2, k1>>, <<k1, k1>>}
    [] rule = "list-union-by-key-command" ->
         {<<Entry(k1, t)>>, <<Entry(k2, t), Entry(k1, t), Entry(k2, 9)>>}
    [] rule = "merge-role-map"            ->
         {k1 :> t, k1 :> NotAnInteger @@ k2 :> t, "__proto__" :> t}
    [] rule = "deep-merge-cache-env"      ->
         {k1 :> (k1 :> t), k1 :> (k1 :> t @@ k2 :> t) @@ k2 :> << >>}
BareFields(rule, t) ==
  {NoField, Wrapped(FALSE, <<>>)} \union {Bare(v) : v \in Sayings(rule, t)}
    \union {Wrapped(FALSE, <<v>>) : v \in Sayings(rule, t)}
AllFields(rule, t) ==
  BareFields(rule, t) \union {Unknown, Wrapped(TRUE, <<>>)}
    \union {Wrapped(TRUE, <<v>>) : v \in Sayings(rule, t)}

OverlayWith(point, discards, field) ==
  point[1] :> [discards |-> discards,
               fields |-> IF field = NoField THEN << >> ELSE point[2] :> field]

SomeOverlaysAt ==
  [point \in {<<"stack", "override">>, <<"evaluator", "additionalChecks">>,
              <<"safety", "sprintBudget">>, <<"safety", "attemptCeilings">>,
              <<"stack", "cacheEnvOverride">>} |->
     LET rule == SPLICE_POINTS[point]
         with(discards, fields) == {OverlayWith(point, d, f) : d \in discards, f \in fields}
     IN "default" :> with({FALSE}, BareFields(rule, 1)) @@ "user" :> with(BOOLEAN, AllFields(rule, 2))
          @@ "project" :> with(BOOLEAN, AllFields(rule, 3))]

Glob(says) == [kind |-> "leaf", says |-> says, of |-> <<>>]
Of(kind, entries) == [kind |-> kind, says |-> "", of |-> entries]
OneGlob(says) == <<Of("anyOf", <<2>>), Glob(says)>>
Stack(place, name) ==
  [place |-> place, name |-> name, parses |-> TRUE, detection |-> <<>>, cacheEnv |-> << >>,
   pairsWith |-> "", versioned |-> TRUE, banner |-> FALSE]
Detecting(file, entries) == [file EXCEPT !.detection = <<entries>>]

BuiltinStacks ==
  {Detecting(Stack("package", web), <<Of("anyOf", <<2, 3>>), Glob("matched"), Glob("malformed")>>),
   Detecting(Stack("package", web),
             <<Of("anyOf", <<2, 5>>), Of("allOf", <<3, 4>>), Glob("matched"), Glob("malformed"),
               Glob("matched")>>),
   [Detecting(Stack("package", web),
              <<Of("anyOf", <<2>>), Of("allOf", <<3, 4>>), Glob("matched"),
                Of("anyOf", <<5, 6>>), Glob("unmatched"), Glob("matched")>>)
      EXCEPT !.pairsWith = "docker", !.cacheEnv = "CACHE" :> 1]}
OwnStacks ==
  {Stack("project", web), Detecting(Stack("project", web), OneGlob("matched")),
   [Stack("project", web) EXCEPT !.parses = FALSE], [Stack("project", web) EXCEPT !.banner = TRUE],
   [Stack("project", web) EXCEPT !.cacheEnv = "CACHE" :> 2, !.pairsWith = "docker"]}
OtherStacks ==
  {Detecting(Stack("package", py), OneGlob("matched")),
   [Detecting(Stack("fixture", py), OneGlob("unmatched")) EXCEPT !.versioned = FALSE]}

Fields2(override, context) ==
  [broken |-> FALSE, versioned |-> TRUE, blocks |->
     OverlayWith(<<"stack", "override">>, FALSE, override)
       @@ OverlayWith(<<"planner", "additionalContext">>, FALSE, context)]
ProjectOverlays ==
  {[broken |-> TRUE, versioned |-> TRUE, blocks |-> << >>]}
    \union {Fields2(override, context) :
              override \in {NoField, Unknown, Bare(<<web>>), Bare(<<web, ghost>>),
                            Wrapped(TRUE, <<<<ghost>>>>), Wrapped(FALSE, <<<<py>>>>)},
              context \in {NoField, Bare(<<in, gone>>), Wrapped(FALSE, <<<<out>>>>)}}

SomeWorlds ==
  {[files |-> builtin \union own \union other \union generic, fixtureFirst |-> TRUE,
    modules |-> modules,
    overlays |-> "default" :> Fields2(NoField, NoField) @@ "user" :> Fields2(user, NoField)
                 @@ "project" :> project,
    inside |-> {in, gone}, existing |-> {in}] :
     builtin \in Optional(BuiltinStacks), own \in Optional(OwnStacks),
     other \in Optional(OtherStacks), generic \in Optional({Stack("package", Generic)}),
     modules \in Optional({[name |-> "docker", pairsWith |-> ""]}),
     user \in {NoField, Bare(<<py>>)}, project \in ProjectOverlays}

Text(text, comment) == [text |-> text, comment |-> comment, spaced |-> FALSE]
Lines == {Blank, Text(0, TRUE), Text(1, FALSE), Text(1, TRUE), Text(2, FALSE), Text(3, FALSE)}
SomeFiles ==
  {<<>>} \union {<<l>> : l \in Lines} \union (Lines \X Lines) \union (Lines \X Lines \X Lines)

Surface(id, scope, keywords) == [id |-> id, scope |-> scope, keywords |-> keywords]
Stack2(name, scope, secretsGlob, commands, security, documentation) ==
  [name |-> name, scope |-> scope, secretsGlob |-> secretsGlob, commands |-> commands,
   security |-> security, documentation |-> documentation]
SomeInputs ==
  {[affected |-> affected, more |-> more, files |-> <<3, 1, 2>>,
    extensionOf |-> 1 :> 1 @@ 2 :> 2 @@ 3 :> 1, contents |-> contents, spelled |-> spelled,
    stacks |-> <<Stack2(2, scope, secretsGlob, first, security, documentation),
                 Stack2(1, {{2, 3}}, <<1>>, second, documentation, <<>>)>>] :
     scope \in {{}, {{1}}, {{1, 2}}, {{1}, {2, 3}}}, secretsGlob \in {<<>>, <<2, 1>>, <<1, 1>>},
     first \in {<< >>, "buildCmd" :> 1}, second \in {<< >>, "buildCmd" :> 2 @@ "auditCmd" :> 2},
     security \in {<<Surface(2, {}, {}), Surface(1, {{2}}, {7})>>, <<Surface(3, {{1, 3}}, {})>>,
                   <<Surface(3, {}, {7}), Surface(3, {{2}}, {})>>},
     documentation \in {<<>>, <<Surface(1, {}, {7, 8})>>},
     affected \in {<<>>, <<2>>, <<3, 1>>, <<2, 1, 2>>}, more \in {<<3>>, <<1, 2>>},
     contents \in {1 :> {7}, 1 :> {7} @@ 2 :> {8, 7}},
     spelled \in {1 :> <<1>> @@ 2 :> <<2>> @@ 3 :> <<2, 1>>, 1 :> <<1>> @@ 2 :> <<1, 1>> @@ 3 :> <<2>>}}

AskAnything ==
  /\ question = NoQuestion /\ calls = 0 /\ edits = 0
  /\ Ask
  /\ UNCHANGED <<serverVars, moduleVars>>

-------------------------------------------------------------------------------
Init == ServerInit /\ ModuleInit /\ QuestionInit

Next ==
  \/ /\ question = NoQuestion
     /\ ModuleNext
     /\ UNCHANGED question
  \/ AskAnything
===============================================================================
