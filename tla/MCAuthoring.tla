----------------------------- MODULE MCAuthoring -----------------------------
(***************************************************************************)
(* Projects to write and run, in four families: scenarios of up to three   *)
(* steps from a palette, tag expressions, settings, broken files.          *)
(***************************************************************************)
EXTENDS Authoring

MCTags == {"a", "b"}

Verb(kind, sideEffects, effect) ==
  [Spec0(kind, {"q"}, {}, "q") EXCEPT !.sideEffects = sideEffects, !.effect = effect]

MCFactories ==
  [sut   |-> [get |-> Verb("probe", FALSE, "none"), post |-> Verb("action", TRUE, "none"),
              check |-> Verb("assertion", FALSE, "none")],
   chaos |-> [cut |-> Verb("action", TRUE, "outage")],
   stack |-> [up |-> Verb("action", TRUE, "none"), down |-> Verb("action", TRUE, "none")]]
MCBadConfigs == {[bad |-> 1]}

None == [shape |-> "none", keys |-> {}]
Map(keys) == [shape |-> "map", keys |-> keys]
Field(ns, n) == [op |-> "field", path |-> <<ns, n>>]
Out(n) == Field("outputs", n)
Pipe(l, r) == [op |-> "pipe", l |-> l, r |-> r]

St(run) ==
  [run |-> run, kind |-> "", effect |-> "", id |-> FALSE, finding |-> FALSE, when |-> "none",
   guard |-> {}, with |-> None, reads |-> {}, absent |-> FALSE, binds |-> {}, envelope |-> FALSE,
   name |-> "", nested |-> <<>>, ops |-> 0, once |-> FALSE, latency |-> FALSE,
   branches |-> <<>>, do |-> <<>>, times |-> 0, stopOnFail |-> TRUE]

Reading(st, exprs) == [st EXCEPT !.with = [shape |-> "scalar", keys |-> {}], !.reads = exprs]
Get == St(<<"sut", "get">>)
GetX == [Get EXCEPT !.binds = {"x"}]
Post(n) == [St(<<"sut", "post">>) EXCEPT !.binds = {n}]
UseX == Reading(St(<<"sut", "check">>), {Out("x")})
UseY == Reading(St(<<"sut", "check">>), {Out("y")})
XtoY == [Reading(Get, {Out("x")}) EXCEPT !.binds = {"y"}]
Par(branches) == [St(<<"parallel">>) EXCEPT !.with = Map({"branches"}), !.branches = branches]
Rep(n, do, stop) == [St(<<"repeat">>) EXCEPT !.with = Map({"times", "do"}), !.times = n, !.do = do,
                                             !.stopOnFail = stop]
Wait(n) == [St(<<"wait_until">>) EXCEPT !.with = Map({"probe", "timeout", "op"}), !.nested = <<n>>, !.ops = 1]
Bg(n) == [St(<<"background">>) EXCEPT !.with = Map({"name", "step"}), !.nested = <<n>>, !.name = "g"]
StopBg == [St(<<"stop_background">>) EXCEPT !.with = [shape |-> "scalar", keys |-> {}], !.name = "g",
                                            !.binds = {"x"}]
Call(verb) == [Reading(St(<<"dom", verb>>), {Out("x")}) EXCEPT !.binds = {"y"}]
If(st, exprs) == [st EXCEPT !.when = "refs", !.guard = exprs]

Palette ==
  {GetX, Post("x"), Post("y"), UseX, UseY, XtoY,
   If(GetX, {Field("vars", "v")}), If(UseY, {Out("x")}), [UseX EXCEPT !.when = "const"],
   Reading(Get, {Pipe(Field("env", "e"), Field("outputs", "y"))}),
   Reading(Get, {[op |-> "both", l |-> Out("x"), r |-> Field("vars", "typo")]}),
   Reading(Get, {[op |-> "call", arg |-> Out("y")], Field("params", "x")}),
   [St(<<"gone", "get">>) EXCEPT !.absent = TRUE, !.binds = {"x"}], [Get EXCEPT !.with = Map({"nope"})],
   [UseX EXCEPT !.finding = TRUE, !.binds = {"y"}], [St(<<"sut", "check">>) EXCEPT !.finding = TRUE],
   Par(<<<<GetX>>, <<UseX>>>>), Par(<<<<GetX, UseX>>, <<Post("y")>>>>), Par(<<<<>>>>),
   Par(<<<<Rep(1, <<GetX>>, TRUE)>>, <<Get>>>>), Par(<<<<Par(<<<<GetX>>, <<XtoY>>>>)>>, <<UseY>>>>),
   Rep(2, <<UseX, GetX>>, TRUE), Rep(2, <<GetX, UseX>>, FALSE), Rep(0, <<>>, TRUE),
   Wait(Reading(Get, {Out("x")})), Wait(St(<<"sut", "post">>)),
   Bg(Reading(St(<<"sut", "post">>), {Out("y")})), StopBg,
   If(Par(<<<<GetX>>>>), {Out("x")}), If([St(<<"gone", "get">>) EXCEPT !.absent = TRUE], {Out("y")}),
   Call("read"), Call("load"), Call("both"), Call("poll"), Call("told")}

(* Composed verbs; their own captures are called m.                        *)
Cv(params, optional, body) == [params |-> params, optional |-> optional, body |-> body]
Param(p) == Reading(Get, {Field("params", p)})
Domain ==
  [read  |-> Cv(<<"q", "o">>, {"o"},
                <<If([Param("q") EXCEPT !.binds = {"m"}], {Field("params", "o")}),
                  Reading(Get, {Out("m"), Field("vars", "given"), Field("env", "e")})>>),
   load  |-> Cv(<<"q">>, {}, <<Bg(St(<<"sut", "post">>))>>),
   both  |-> Cv(<<"q">>, {}, <<Param("q"), [Call("load") EXCEPT !.reads = {Field("params", "q")}]>>),
   poll  |-> Cv(<<"q">>, {}, <<Wait(St(<<"sut", "post">>))>>),
   told  |-> Cv(<<"q">>, {}, <<[St(<<"sut", "post">>) EXCEPT !.kind = "probe"]>>)]

Doc(class, file) ==
  [class |-> class, dir |-> <<>>, file |-> file, stem |-> file, ext |-> ".yml", name |-> file]
NoCfg == [use |-> <<>>, source |-> "", config |-> <<>>]
Silent == [dir |-> "", exporters |-> <<>>]
ProjectDoc ==
  Doc("Project", "project")
  @@ [providers |-> [sut |-> NoCfg, ops |-> [NoCfg EXCEPT !.source = "stack"],
                     dom |-> [NoCfg EXCEPT !.use = <<"dom">>]],
      vars |-> {"v"}, env |-> [e |-> <<"default">>], output |-> Silent]
ProviderDoc(verbs) == Doc("Provider", "dom") @@ [verbs |-> verbs]
ScenarioDoc(name, tags) ==
  Doc("Scenario", name)
  @@ [providers |-> <<>>, vars |-> {}, tags |-> tags, setup |-> <<>>, steady |-> <<>>,
      method |-> <<>>, verify |-> <<>>, teardown |-> <<>>]

NoFlags == [out |-> "", otlp |-> "", dryRun |-> FALSE, include |-> <<>>, exclude |-> <<>>, targets |-> <<>>]
NoFile == [exists |-> FALSE, parses |-> TRUE, values |-> <<>>]
Try(docs, flags) ==
  [docs |-> docs, process |-> <<>>, dotenv |-> NoFile, explicit |-> FALSE, flags |-> flags]

With(sc) == <<ProjectDoc, ProviderDoc(Domain), sc>>
One == ScenarioDoc("one", <<>>)

Sequences1 ==
  {Try(With([One EXCEPT !.method = <<a, b>>, !.verify = <<c>>]), NoFlags)
   : a \in Palette, b \in Palette, c \in {UseX, UseY, XtoY, Call("read"), Get}}
Sequences2 ==
  {Try(With([One EXCEPT !.setup = <<a>>, !.steady = <<b>>, !.method = <<GetX>>, !.teardown = <<UseY>>]),
       [NoFlags EXCEPT !.dryRun = d]) : a \in {Get, GetX}, b \in Palette, d \in BOOLEAN}
DryRuns ==
  {Try(With([One EXCEPT !.method = <<a, b>>]), [NoFlags EXCEPT !.dryRun = TRUE])
   : a \in Palette, b \in Palette}

Tokens == MCTags \cup {"!", "&", "|", "(", ")"}
Operands == {<<"a">>, <<"!", "b">>, <<"a", "&", "b">>, <<"(", "a", "|", "b", ")">>, <<"!", "(", "b", ")">>}
TagExprs == UNION {[1..n -> Tokens] : n \in 1..4} \cup {<<"a", "?">>}
         \cup {l \o <<op>> \o r : l \in Operands, r \in Operands, op \in {"&", "|"}}
Tagged == <<ProjectDoc, ProviderDoc(Domain), ScenarioDoc("s1", <<>>), ScenarioDoc("s2", <<"a">>),
            ScenarioDoc("s3", <<"b", "?">>), ScenarioDoc("s4", <<"b", "a", "b">>)>>
Selections ==
  {Try(Tagged, [NoFlags EXCEPT !.include = e]) : e \in TagExprs}
  \cup {Try(Tagged, [NoFlags EXCEPT !.include = i, !.exclude = e, !.targets = t])
        : i \in {<<>>, <<"a">>}, e \in {<<>>, <<"b">>, <<"!", "b">>, <<"&">>},
          t \in {<<>>, <<"s2", "s4", "s2">>, <<"s9">>}}

Otlp == [enabled : {<<>>, <<TRUE>>, <<FALSE>>}, endpoint : {"", "host"}, protocol : {"", "grpc", "http"}]
Configured(o, decls) ==
  <<[ProjectDoc EXCEPT !.output = [dir |-> "", exporters |-> [otlp |-> o, odd |-> o]], !.env = decls],
    ProviderDoc(Domain), One>>
Environments ==
  {[Try(Configured(o, decls), [NoFlags EXCEPT !.otlp = f]) EXCEPT !.dotenv = file, !.explicit = x]
   : o \in Otlp, f \in {"", "flag"}, x \in BOOLEAN, decls \in {[e |-> <<>>], [e |-> <<"default">>]},
     file \in {NoFile, [exists |-> TRUE, parses |-> FALSE, values |-> <<>>],
               [exists |-> TRUE, parses |-> TRUE, values |-> [e |-> "1"]]}}

Over(cfg) == [One EXCEPT !.providers = cfg]
Deep == [deep |-> Cv(<<>>, {}, <<Call("both")>>)] @@ Domain
Ghosts == [ghost |-> Cv(<<>>, {}, <<St(<<"sut", "nope">>)>>)] @@ Domain
Typos == [typo |-> Cv(<<"q">>, {}, <<Reading(Get, {Field("params", "p"), Out("m"), Field("env", "no")}),
                                     St(<<"sleeep">>), [St(<<"sleep">>) EXCEPT !.with = Map({"no"})]>>)]
Broken ==
  {Try(docs, NoFlags) : docs \in
    {<<One>>, With(One) \o <<ProjectDoc>>, With(One) \o <<One>>, With(One) \o <<Doc("malformed", "f")>>,
     With(One) \o <<Doc("foreign", "f"), [Doc("malformed", "f") EXCEPT !.dir = <<"node_modules">>]>>,
     With([One EXCEPT !.dir = <<"scenarios", "net">>]),
     <<ProjectDoc, One>>, <<ProjectDoc, ProviderDoc(Domain), ProviderDoc(Domain), One>>,
     <<ProjectDoc, ProviderDoc(Deep), One>>, <<ProjectDoc, ProviderDoc(Ghosts), One>>,
     <<ProjectDoc, ProviderDoc(Deep @@ Ghosts), One>>,
     <<ProjectDoc, ProviderDoc(Typos @@ Domain), [One EXCEPT !.method = <<Call("typo")>>]>>,
     With(Over([sut |-> [NoCfg EXCEPT !.config = [bad |-> 1]]])),
     With(Over([odd |-> NoCfg])), With(Over([lab |-> [NoCfg EXCEPT !.source = "stack"]])),
     With(Over([dom |-> [NoCfg EXCEPT !.source = "sut"]])),
     With([Over([chaos |-> NoCfg]) EXCEPT !.method = <<St(<<"chaos", "cut">>), Post("x")>>,
                                           !.verify = <<Wait(Reading(Get, {Out("x")}))>>])}}

-----------------------------------------------------------------------------
(* Every step the families use, and every expression, with what is inside. *)
Written == Palette \cup UNION {Range(cv.body) : cv \in Range(Deep) \cup Range(Ghosts) \cup Range(Typos)}
           \cup {Get, St(<<"chaos", "cut">>), Call("typo")}

InStep(st) == UNION {Range(l) : l \in Range(st.branches) \cup {st.nested, st.do}}
RECURSIVE WithInner(_), WithParts(_)
WithInner(S) == IF S = {} THEN {} ELSE S \cup WithInner(UNION {InStep(st) : st \in S})
WithParts(S) == IF S = {} THEN {} ELSE S \cup WithParts(UNION {PartsOf(e) : e \in S})

MCSteps == WithInner(Written)
MCExprs == WithParts(UNION {st.reads \cup st.guard : st \in MCSteps})

Above(heights) == IF heights = {} THEN 0 ELSE 1 + Max(heights)
MCStepHeight[st \in MCSteps] == Above({MCStepHeight[s] : s \in InStep(st)})
MCExprHeight[e \in MCExprs] == Above({MCExprHeight[p] : p \in PartsOf(e)})

MCFamilies == {Sequences1, Sequences2, DryRuns, Selections, Environments, Broken}
=============================================================================
