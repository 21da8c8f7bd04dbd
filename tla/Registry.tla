------------------------------ MODULE Registry ------------------------------
(***************************************************************************)
(* From a merged providers: block to verbs (core/registry/registry.go,     *)
(* core/model/project.go): the instances, the kind a composed verb is      *)
(* given, what a run: value resolves to, which arguments it takes.         *)
(*                                                                         *)
(* A run: value is <<builtin>> or <<instance, verb>>.  A verb's spec is    *)
(* [kind, sideEffects, effect, args, required, primary], an instance       *)
(* [def, specs] where def is empty for a native one.  A composed verb is   *)
(* [params, optional, body]; its body is the do: list or the one probe:.   *)
(***************************************************************************)
EXTENDS Selection, FiniteSets, Functions, TLC

CONSTANTS Factories,  \* provider types: their verbs, and each verb's spec
          BadConfigs  \* configurations a provider's Configure refuses

(* Of the verbs a provider declares, the ones with side effects are its    *)
(* actions.                                                                *)
ASSUME FactoriesAssumption ==
  \A type \in DOMAIN Factories : \A v \in DOMAIN Factories[type] :
    Factories[type][v].sideEffects => Factories[type][v].kind = "action"

Spec0(kind, args, required, primary) ==
  [kind |-> kind, sideEffects |-> FALSE, effect |-> "none",
   args |-> args, required |-> required, primary |-> primary]

(* Mutant of Builtins: background is not marked as mutating.               *)
BuiltinsUnmarked ==
  [assert          |-> Spec0("assertion", {"of", "op"}, {"of"}, ""),
   sleep           |-> Spec0("action", {"seconds"}, {"seconds"}, "seconds"),
   background      |-> Spec0("action", {"name", "step"}, {"name", "step"}, ""),
   stop_background |-> Spec0("action", {"name"}, {"name"}, "name"),
   wait_until      |-> Spec0("probe", {"probe", "timeout", "op"}, {"probe", "timeout"}, ""),
   parallel        |-> Spec0("action", {"branches"}, {"branches"}, ""),
   repeat          |-> Spec0("action", {"times", "do", "stopOnFail"}, {"times", "do"}, "")]

(* The eleven operators are one argument here: op.                         *)
Builtins ==
  [assert          |-> Spec0("assertion", {"of", "op"}, {"of"}, ""),
   sleep           |-> Spec0("action", {"seconds"}, {"seconds"}, "seconds"),
   wait_until      |-> Spec0("probe", {"probe", "read", "timeout", "interval", "op"},
                             {"probe", "timeout"}, ""),
   sample          |-> Spec0("probe", {"probe", "count", "duration", "interval"}, {"probe"}, ""),
   stop_background |-> Spec0("action", {"name"}, {"name"}, "name"),
   background      |-> [Spec0("action", {"name", "step"}, {"name", "step"}, "")
                          EXCEPT !.sideEffects = TRUE],
   parallel        |-> [Spec0("action", {"branches"}, {"branches"}, "") EXCEPT !.sideEffects = TRUE],
   repeat          |-> [Spec0("action", {"times", "do", "stopOnFail"}, {"times", "do"}, "")
                          EXCEPT !.sideEffects = TRUE]]

Dotted(run) == Len(run) = 2

(* The scenario's block over the project's, key by key; config: too.       *)
Overlay(prev, v) ==
  [use    |-> IF v.use # <<>> THEN v.use ELSE prev.use,
   source |-> IF v.source # "" THEN v.source ELSE prev.source,
   config |-> v.config @@ prev.config]

MergeProviders(base, over) ==
  [k \in DOMAIN base \cup DOMAIN over |->
     IF k \notin DOMAIN over THEN base[k]
     ELSE IF k \in DOMAIN base THEN Overlay(base[k], over[k]) ELSE over[k]]

(* The instances a configuration gives: none when it is refused.  use:     *)
(* wins over source:, and the name is the type when there is neither.      *)
Configure(defs, name, cfg) ==
  LET found == FindLocalProvider(defs, cfg.use)
      type  == IF cfg.source = "" THEN name ELSE cfg.source
  IN IF cfg.use # <<>>
     THEN IF Len(found) = 1 THEN {[def |-> found, specs |-> <<>>]} ELSE {}
     ELSE IF type \in DOMAIN Factories /\ cfg.config \notin BadConfigs
          THEN {[def |-> <<>>, specs |-> Factories[type]]} ELSE {}

IsComposed(insts, run) == Dotted(run) /\ run[1] \in DOMAIN insts /\ insts[run[1]].def # <<>>
Verbs(inst) == IF inst.def # <<>> THEN inst.def[1].verbs ELSE inst.specs
Exists(insts, run) == run[1] \in DOMAIN insts /\ run[2] \in DOMAIN Verbs(insts[run[1]])

-----------------------------------------------------------------------------
(* Kind inference.  Leaves that carry a kind: are taken at their word.     *)
Inferred(body) == {st \in Range(body) : st.kind = ""}

Ghost(insts, body) ==
  \E st \in Inferred(body) : Dotted(st.run) /\ ~Exists(insts, st.run)

CallsComposed(insts, body) == {st \in Inferred(body) : IsComposed(insts, st.run)}

Nested(insts, st) == Verbs(insts[st.run[1]])[st.run[2]].body

(* A composed verb may call a composed verb, which may call none.          *)
TooDeep(insts, body) ==
  \E st \in CallsComposed(insts, body) :
    Exists(insts, st.run) /\ CallsComposed(insts, Nested(insts, st)) # {}

Unknown(insts, body) ==
  \/ Ghost(insts, body)
  \/ \E st \in CallsComposed(insts, body) : Ghost(insts, Nested(insts, st))

Rank == [none |-> 0, degradation |-> 1, outage |-> 2]
StrongerEffect(a, b) == IF Rank[b] > Rank[a] THEN b ELSE a

(* What a leaf's own spec says; a builtin has no effect, and a composed    *)
(* verb has its spec in inner, by run value.                               *)
Leaf(insts, st, inner) ==
  IF ~Dotted(st.run)
  THEN IF st.run[1] \in DOMAIN Builtins THEN Builtins[st.run[1]] ELSE Spec0("probe", {}, {}, "")
  ELSE IF IsComposed(insts, st.run) THEN inner[st.run]
  ELSE insts[st.run[1]].specs[st.run[2]]

Mutates(insts, st, inner) ==
  IF st.kind # "" THEN st.kind = "action" ELSE Leaf(insts, st, inner).sideEffects
Asserts(insts, st, inner) ==
  IF st.kind # "" THEN st.kind = "assertion" ELSE Leaf(insts, st, inner).kind = "assertion"
EffectOf(insts, st, inner) ==
  IF st.effect # "" THEN st.effect
  ELSE IF st.kind # "" THEN "none" ELSE Leaf(insts, st, inner).effect

(* A mutating leaf makes an action, else an asserting one an assertion.    *)
BodyKind(insts, body, inner) ==
  LET mutation == \E st \in Range(body) : Mutates(insts, st, inner)
      asserts  == \E st \in Range(body) : Asserts(insts, st, inner)
  IN [kind |-> IF mutation THEN "action" ELSE IF asserts THEN "assertion" ELSE "probe",
      sideEffects |-> mutation,
      effect |-> FoldLeft(LAMBDA e, st : StrongerEffect(e, EffectOf(insts, st, inner)),
                          "none", body)]

(* The body decides what a composed verb is, its params what it takes.     *)
Signature(own, cv) ==
  LET names == Range(cv.params)
  IN [kind |-> own.kind, sideEffects |-> own.sideEffects, effect |-> own.effect,
      args |-> names, required |-> names \ cv.optional,
      primary |-> IF cv.params = <<>> THEN "" ELSE cv.params[1]]

InferredSpec(insts, cv) ==
  LET inner == [run \in {st.run : st \in CallsComposed(insts, cv.body)} |->
                  BodyKind(insts, Verbs(insts[run[1]])[run[2]].body, <<>>)]
  IN Signature(BodyKind(insts, cv.body, inner), cv)

-----------------------------------------------------------------------------
(* The registry: its instances once every one is configured, and what can  *)
(* stop New: refused (rule 3), nesting (rule 4).                           *)
Instances(defs, providers) ==
  [n \in {m \in DOMAIN providers : Configure(defs, m, providers[m]) # {}} |->
     CHOOSE i \in Configure(defs, n, providers[n]) : TRUE]

Bodies(insts) == {cv.body : cv \in UNION {Range(Verbs(insts[n])) :
                                            n \in {m \in DOMAIN insts : insts[m].def # <<>>}}}

NewErrors(defs, providers) ==
  LET insts == Instances(defs, providers)
  IN IF DOMAIN insts # DOMAIN providers THEN {"refused"}
     ELSE (IF \E b \in Bodies(insts) : Unknown(insts, b) THEN {"refused"} ELSE {})
          \cup (IF \E b \in Bodies(insts) : TooDeep(insts, b) THEN {"nesting"} ELSE {})

(* What every run: value resolves to, once the kinds are inferred; a value *)
(* that is not in its domain does not resolve.                             *)
Specs(insts) ==
  [run \in {<<b>> : b \in DOMAIN Builtins}
           \cup UNION {{<<n, v>> : v \in DOMAIN Verbs(insts[n])} : n \in DOMAIN insts} |->
     IF ~Dotted(run) THEN Builtins[run[1]]
     ELSE IF IsComposed(insts, run) THEN InferredSpec(insts, Verbs(insts[run[1]])[run[2]])
     ELSE insts[run[1]].specs[run[2]]]

(* with: is [shape, keys]; a list or scalar binds to the primary argument. *)
Binds(spec, with) ==
  LET given == CASE with.shape = "none" -> {} [] with.shape = "map" -> with.keys
                 [] OTHER -> {spec.primary}
  IN /\ with.shape = "scalar" => spec.primary # ""
     /\ given \subseteq spec.args \cup {spec.primary}
     /\ spec.required \subseteq given

(* The native instances with both up and down.                             *)
Lifecycle(insts) ==
  {n \in DOMAIN insts : insts[n].def = <<>> /\ {"up", "down"} \subseteq DOMAIN insts[n].specs}
=============================================================================
