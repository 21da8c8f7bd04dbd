------------------------------ MODULE Validate ------------------------------
(***************************************************************************)
(* The static checks (core/validate/validate.go).  A step is a record:     *)
(*   run, kind, effect, id, finding  the envelope ("" or FALSE: not given) *)
(*   when       "none", "const" (no ${...}) or "refs"; guard: its exprs    *)
(*   with       [shape, keys], see Registry; reads: the exprs in it        *)
(*   absent     onAbsent: skip                                             *)
(*   binds      the names of as: and capture:                              *)
(*   envelope   timeout: or read: is given                                 *)
(*   name       of the background started or stopped                       *)
(*   nested     <<>> or the probe: or step: in with                        *)
(*   ops, once  assert operators given; it is equals: 1                    *)
(*   latency    an expression reads meta.durationMs                        *)
(*   branches, do, times   of a block                                      *)
(* A finding is [rule, severity, ref], ref the reference it is about.      *)
(***************************************************************************)
EXTENDS Registry, Interp, Integers

CONSTANTS Steps,      \* the steps of a project, each with the ones inside it
          StepHeight  \* how deep each of them is

(* A step is a finite tree that reads expressions; what is inside it       *)
(* belongs to the builtins that take steps.                                *)
ASSUME StepsAssumption ==
  \A st \in Steps :
    /\ StepHeight[st] \in Nat /\ st.name \in STRING /\ st.binds \subseteq STRING
    /\ st.times \in Int /\ st.stopOnFail \in BOOLEAN /\ st.reads \cup st.guard \subseteq Exprs
    /\ st.nested \in Seq(Steps) /\ st.do \in Seq(Steps) /\ st.branches \in Seq(Seq(Steps))
    /\ st.nested # <<>> => st.run \in {<<"wait_until">>, <<"sample">>, <<"background">>}
    /\ st.branches # <<>> => st.run = <<"parallel">>
    /\ st.do # <<>> => st.run = <<"repeat">>
    /\ \A s \in UNION {Range(b) : b \in Range(st.branches) \cup {st.nested, st.do}} :
         StepHeight[s] < StepHeight[st]

Fault(rule, ref) == [rule |-> rule, severity |-> "error", ref |-> ref]
Smell(rule) == [rule |-> rule, severity |-> "warn", ref |-> <<>>]
When(cond, finding) == IF cond THEN {finding} ELSE {}

(* refsOf: with: and its nested step, and the guard; not read: or capture: *)
ExprsOf(st) == st.reads \cup st.guard \cup UNION {n.reads : n \in Range(st.nested)}
RefsOf(st) == UNION {NSRefs(e) : e \in ExprsOf(st)}

(* collectBindings: into branches, not into repeat bodies.                 *)
Inner(st) == UNION {Range(b) : b \in Range(st.branches)}

Bindings(steps) ==
  LET bound[st \in Steps] == st.binds \cup UNION {bound[s] : s \in Inner(st)}
  IN UNION {bound[s] : s \in Range(steps)}

(* ... and with what: the last binder of a name wins; which of the names a *)
(* map step binds comes first does not matter, the verb is one.            *)
BindersOf(steps) ==
  LET last(binders, list) == FoldLeft(LAMBDA acc, s : binders[s] @@ acc, <<>>, list)
      binders[st \in Steps] ==
        FoldLeft(LAMBDA acc, b : last(binders, b) @@ acc, [n \in st.binds |-> st.run], st.branches)
  IN last(binders, steps)

(* What the pass over a scenario carries; branches and bodies work on a    *)
(* scope of their own but share the rest.                                  *)
Flags == {"observed", "outage", "degraded", "awaited", "finding", "once"}
Findings == [rule : 1..18, severity : {"error", "warn"}, ref : {<<>>} \cup UNION {RefsOf(st) : st \in Steps}]
Pass == [defined : SUBSET STRING, bg : SUBSET STRING, out : SUBSET Findings,
         captures : SUBSET STRING, flags : SUBSET Flags]
Start == [defined |-> {}, bg |-> {}, out |-> {}, captures |-> {}, flags |-> {}]

(* Where it looks: a step, what it carries there, and of the branches of a *)
(* block what each binds and which of them it is in.                       *)
Place == [st : Steps, v : Pass, among : [bound : Seq(SUBSET STRING), self : Nat]]
Alone == [bound |-> <<>>, self |-> 0]

Report(v, findings) == [v EXCEPT !.out = @ \cup findings]
Flag(v, cond, flag) == IF cond THEN [v EXCEPT !.flags = @ \cup {flag}] ELSE v

CheckArgs(ctx, st) ==
  LET spec == ctx.specs[st.run]
      kind == IF st.kind # "" THEN st.kind ELSE spec.kind
  IN When(~Binds(spec, st.with), Fault(2, <<>>))
     \cup When(st.run[1] \in {"assert", "wait_until"} /\ st.with.shape = "map" /\ st.ops # 1,
               Fault(2, <<>>))
     \cup When(st.finding /\ kind # "assertion", Fault(5, <<>>))

CheckNested(ctx, st) ==
  UNION {IF n.run \notin DOMAIN ctx.specs THEN {Fault(3, <<>>)}
         ELSE When(~Binds(ctx.specs[n.run], n.with), Fault(2, <<>>))
         : n \in Range(st.nested)}

BoundInSibling(among, name) ==
  \E j \in DOMAIN among.bound : j # among.self /\ name \in among.bound[j]

CheckRef(v, ctx, among, r) ==
  LET ns == r[1]  name == r[2]
      later == name \in DOMAIN ctx.later
      bg == later /\ (ctx.later[name] = <<"stop_background">> \/ name \in v.bg)
  IN CASE ns = "vars" -> When(name \notin ctx.vars, Fault(10, r))
       [] ns = "env"  -> When(name \notin ctx.env, Fault(10, r))
       [] ns = "outputs" ->
            When(name \notin v.defined,
                 Fault(IF BoundInSibling(among, name) THEN 12 ELSE IF bg THEN 6 ELSE 10, r))
       [] OTHER -> {Fault(10, r)}

(* Rules 7 and 11 are about the whole scenario: what a step adds to them.  *)
Track(v, ctx, st) ==
  LET spec    == ctx.specs[st.run]
      kind    == IF st.kind # "" THEN st.kind ELSE spec.kind
      effect  == IF st.effect # "" THEN st.effect ELSE spec.effect
      method  == ctx.section = "method"
      verify  == ctx.section = "verify"
      awaited == {r[2] : r \in {q \in RefsOf(st) : q[1] = "outputs"}} \cap v.captures
      v1 == Flag(v, st.run = <<"sample">> \/ st.latency, "observed")
      v2 == Flag(v1, method /\ effect = "outage", "outage")
      v3 == Flag(v2, method /\ effect = "degradation", "degraded")
      v4 == Flag(v3, verify /\ kind # "assertion" /\ awaited # {}, "awaited")
      v5 == Flag(v4, verify /\ st.finding, "finding")
      v6 == Flag(v5, verify /\ st.run = <<"assert">> /\ st.when = "none" /\ st.once, "once")
  IN [v6 EXCEPT !.captures = IF method /\ kind = "action" THEN @ \cup st.binds ELSE @]

CheckLeaf(v, ctx, among, st) ==
  LET spec == ctx.specs[st.run]
      kind == IF st.kind # "" THEN st.kind ELSE spec.kind
      starts == st.run = <<"background">> /\ st.name # ""
      found == When(ctx.section = "steadyState" /\ kind = "action" /\ spec.sideEffects, Smell(9))
               \cup CheckNested(ctx, st)
               \cup When(st.when = "const", Smell(10))
               \cup (UNION {CheckRef(v, ctx, among, r) : r \in RefsOf(st)})
               \cup When(starts /\ st.name \in v.bg, Fault(6, <<>>))
      w == Track(Report(v, found), ctx, st)
  IN [w EXCEPT !.bg = IF starts THEN @ \cup {st.name}
                      ELSE IF st.run = <<"stop_background">> THEN @ \ {st.name} ELSE @,
               !.defined = @ \cup st.binds]

(* check gives what a step at some place of the scenario comes to.         *)
CheckSteps(check, v, among, steps) ==
  LET pass[i \in 0..Len(steps)] ==
        IF i = 0 THEN v ELSE check[[st |-> steps[i], v |-> pass[i - 1], among |-> among]]
  IN pass[Len(steps)]

(* Mutant of CheckBranches: branches see what the ones before them bound.  *)
CheckBranchesInTurn(check, v, st) ==
  LET bound == [b \in DOMAIN st.branches |-> Bindings(st.branches[b])]
      pass[i \in 0..Len(st.branches)] ==
        IF i = 0 THEN v
        ELSE CheckSteps(check, pass[i - 1], [bound |-> bound, self |-> i], st.branches[i])
  IN IF st.branches = <<>> THEN Report(v, {Fault(12, <<>>)}) ELSE pass[Len(st.branches)]

(* Each branch starts from what was bound before the block; after it, what *)
(* any branch binds is.                                                    *)
CheckBranches(check, v, st) ==
  LET bound == [b \in DOMAIN st.branches |-> Bindings(st.branches[b])]
      branch(w, i) ==
        IF st.branches[i] = <<>> THEN Report(w, {Fault(12, <<>>)})
        ELSE CheckSteps(check, w, [bound |-> bound, self |-> i], st.branches[i])
      pass[i \in 0..Len(st.branches)] ==
        IF i = 0 THEN v ELSE [branch(pass[i - 1], i) EXCEPT !.defined = v.defined]
  IN IF st.branches = <<>> THEN Report(v, {Fault(12, <<>>)})
     ELSE [pass[Len(st.branches)] EXCEPT !.defined = @ \cup UNION Range(bound)]

CheckBody(check, v, st) ==
  LET named(verb) == {s.name : s \in {t \in Range(st.do) : t.run = <<verb>>}} \ {""}
      found == When(st.times < 1, Fault(13, <<>>))
               \cup When(\E s \in Range(st.do) : s.finding, Fault(13, <<>>))
               \cup When(~(named("background") \subseteq named("stop_background")), Fault(13, <<>>))
  IN IF st.do = <<>> THEN Report(v, When(st.times < 1, Fault(13, <<>>)) \cup {Fault(13, <<>>)})
     ELSE CheckSteps(check, Report(v, found), Alone, st.do)

(* checkStep: a step that does not resolve is looked at no further.        *)
CheckStep(check, ctx, x) ==
  LET st == x.st
      block == st.run \in {<<"parallel">>, <<"repeat">>}
      w == Report(x.v, When(st.finding /\ ~st.id, Smell(15)))
      y == Report(w, CheckArgs(ctx, st)
                     \cup When(block /\ (st.envelope \/ st.binds # {}),
                               Fault(IF st.run = <<"repeat">> THEN 13 ELSE 12, <<>>)))
  IN CASE st.run \notin DOMAIN ctx.specs -> Report(w, When(~st.absent, Fault(3, <<>>)))
       [] st.run = <<"parallel">> -> CheckBranches(check, y, st)
       [] st.run = <<"repeat">>   -> CheckBody(check, y, st)
       [] OTHER -> CheckLeaf(y, ctx, x.among, st)

Checker(ctx) ==
  LET check[x \in Place] == CheckStep(check, ctx, x) IN check

CheckSection(ctx, v, sec) ==
  CheckSteps(Checker([ctx EXCEPT !.section = sec.name]), v, Alone, sec.steps)

Sections(sc) ==
  <<[name |-> "setup", steps |-> sc.setup], [name |-> "steadyState", steps |-> sc.steady],
    [name |-> "method", steps |-> sc.method], [name |-> "verify", steps |-> sc.verify],
    [name |-> "teardown", steps |-> sc.teardown]>>

(* The five sections in their order, each from what the ones before left.  *)
CheckSections(ctx, secs) ==
  LET pass[i \in 0..Len(secs)] == IF i = 0 THEN Start ELSE CheckSection(ctx, pass[i - 1], secs[i])
  IN pass[Len(secs)]

(* Rules 7 and 11, and rule 14 on the tags that are not expression-safe.   *)
CheckWhole(v, sc, insts) ==
  v.out
  \cup When(Cardinality(Lifecycle(insts)) > 1, Fault(8, <<>>))
  \cup When(Lifecycle(insts) = {}, Smell(8))
  \cup When({"outage", "awaited"} \subseteq v.flags /\ v.flags \cap {"once", "finding"} = {}, Fault(7, <<>>))
  \cup When("degraded" \in v.flags /\ "observed" \notin v.flags, Smell(11))
  \cup When("?" \in Range(sc.tags), Fault(14, <<>>))
  \cup When(\E i, j \in DOMAIN sc.tags : i # j /\ sc.tags[i] = sc.tags[j], Smell(14))

CheckScenario(sc, project, insts) ==
  LET secs == Sections(sc)
      ctx == [specs |-> Specs(insts), vars |-> project.vars \cup sc.vars, env |-> DOMAIN project.env,
              later |-> FoldLeft(LAMBDA acc, sec : BindersOf(sec.steps) @@ acc, <<>>, secs),
              section |-> ""]
  IN CheckWhole(CheckSections(ctx, secs), sc, insts)

(* The findings of one scenario: of several reasons New has to refuse, the *)
(* one reported depends on the order of a map.                             *)
ScenarioFindings(defs, project, sc) ==
  LET merged == MergeProviders(project.providers, sc.providers)
      stops == NewErrors(defs, merged)
  IN IF stops # {} THEN {{Fault(IF e = "nesting" THEN 4 ELSE 3, <<>>)} : e \in stops}
     ELSE {CheckScenario(sc, project, Instances(defs, merged))}

-----------------------------------------------------------------------------
(* The body of a composed verb: params, env, and what the body has bound.  *)
CheckVerb(cv, env) ==
  LET names == Range(cv.params)
      bound(i) == UNION {cv.body[j].binds : j \in 1..(i - 1)}
      ref(i, r) == CASE r[1] = "params"  -> When(r[2] \notin names, Fault(10, r))
                     [] r[1] = "outputs" -> When(r[2] \notin bound(i), Fault(10, r))
                     [] r[1] = "env"     -> When(r[2] \notin env, Fault(10, r))
                     [] r[1] = "vars"    -> {}
                     [] OTHER -> {Fault(10, r)}
      args(st) == IF st.run[1] \notin DOMAIN Builtins THEN {Fault(3, <<>>)}
                  ELSE When(st.with.shape # "none" /\ ~Binds(Builtins[st.run[1]], st.with), Fault(2, <<>>))
  IN UNION {(IF Dotted(cv.body[i].run) THEN {} ELSE args(cv.body[i]))
            \cup UNION {ref(i, r) : r \in RefsOf(cv.body[i])} : i \in DOMAIN cv.body}

CheckDefs(defs, project) ==
  UNION {CheckVerb(cv, DOMAIN project.env) : cv \in UNION {Range(d.verbs) : d \in Range(defs)}}

KnownExporters == {"tsv", "json", "junit", "journal", "findings", "sarif", "html", "otlp"}

(* The declared output: block; the flags of a run are not known here.      *)
CheckOutput(output) ==
  LET otlp == IF "otlp" \in DOMAIN output.exporters THEN output.exporters.otlp
              ELSE [enabled |-> <<>>, endpoint |-> "", protocol |-> ""]
  IN When(~(DOMAIN output.exporters \subseteq KnownExporters), Smell(16))
     \cup When(otlp.enabled = <<TRUE>> /\ otlp.endpoint = "", Fault(17, <<>>))
     \cup When(otlp.protocol \notin {"", "grpc"}, Fault(18, <<>>))
=============================================================================
