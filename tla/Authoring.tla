----------------------------- MODULE Authoring ------------------------------
(***************************************************************************)
(* What is written against what happens: the files of a project are        *)
(* loaded, validated, and its first selected scenario is run step by step  *)
(* (cli/cmd_run.go up to the lock, core/engine/run.go, runStep and         *)
(* execComposed of core/engine/executor.go).  Of a value only whether its  *)
(* name is bound is kept; whether a leaf passes is a choice.  Branches     *)
(* are run in turn: they share no captures, which is all that is kept.     *)
(***************************************************************************)
EXTENDS Validate, Settings, TagExpr

CONSTANT Families   \* sets of cases Init may choose from: the files, the process, the flags

(* Documents and targets are lists, a tag expression is one of tags and    *)
(* operators, every step of a document is one of Steps.                    *)
ASSUME FamiliesAssumption ==
  \A family \in Families : \A c \in family :
    /\ c.docs \in Seq(Range(c.docs)) /\ c.flags.targets \in Seq(Range(c.flags.targets))
    /\ {c.flags.include, c.flags.exclude} \subseteq Seq(Tags \cup Operators)
    /\ \A i \in DOMAIN c.docs :
         LET d == c.docs[i]
         IN /\ d.class \in {"foreign", "unparseable", "unnamed", "malformed", "Project", "Scenario", "Provider"}
            /\ d.class = "Scenario" => {d.setup, d.steady, d.method, d.verify, d.teardown} \subseteq Seq(Steps)
            /\ d.class = "Provider" => \A cv \in Range(d.verbs) :
                 cv.body \in Seq(Steps) /\ cv.params \in Seq(STRING)

VARIABLES
  case,      \* [docs, process, dotenv, explicit, flags], fixed by Init
  phase,     \* load, validate, settle, run, end; or why there was no run
  set,       \* what discovery returned
  findings,  \* what validation reported of the project and of the scenarios
  chosen,    \* the selected scenarios
  specs,     \* of the scenario that runs: what its run: values resolve to
  sections,  \* of the scenario that runs: the ones to come
  stack,     \* the section, and the blocks and composed verbs open in it
  missed,    \* names whose step was skipped, failed or not reached
  lost,      \* names a branch saw bound and did not hand on
  unbound,   \* references that were read, where validate looks, and not bound
  clean,     \* no step has failed or been skipped
  did        \* how the steps that changed the system came to be run

vars == <<case, phase, set, findings, chosen, specs, sections, stack, missed, lost, unbound, clean, did>>

Init ==
  /\ \E family \in Families : case \in family
  /\ phase = "load" /\ set = EmptySet
  /\ findings = [project |-> {}, scenarios |-> {}]
  /\ chosen = <<>> /\ specs = <<>> /\ sections = <<>> /\ stack = <<>>
  /\ missed = {} /\ lost = {} /\ unbound = {} /\ clean = TRUE /\ did = {}

Project == set.project[1]
Scenario == chosen[1].file
Merged(sc) == MergeProviders(Project.providers, sc.providers)
Insts == Instances(set.providers, Merged(Scenario))

LoadProject ==
  /\ phase = "load"
  /\ LET loaded == Load(case.docs)
     IN /\ set' = loaded.set
        /\ phase' = IF loaded.ok THEN "validate" ELSE "refused"
  /\ UNCHANGED <<case, findings, chosen, specs, sections, stack, missed, lost, unbound, clean, did>>

Reports(sc) == ScenarioFindings(set.providers, Project, sc.file)

(* One of the possible reports for every scenario.                         *)
OneReportEach(reports) ==
  {found \in [DOMAIN reports -> UNION Range(reports)] : \A i \in DOMAIN reports : found[i] \in reports[i]}

ValidateProject ==
  /\ phase = "validate"
  /\ phase' = "settle"
  /\ \E found \in OneReportEach([i \in DOMAIN set.scenarios |-> Reports(set.scenarios[i])]) :
       findings' = [project |-> CheckOutput(Project.output) \cup CheckDefs(set.providers, Project),
                    scenarios |-> UNION Range(found)]
  /\ UNCHANGED <<case, set, chosen, specs, sections, stack, missed, lost, unbound, clean, did>>

-----------------------------------------------------------------------------
Given(expr) == expr # <<>>
Malformed(expr) == Given(expr) /\ ~Compile(expr).ok
Matches(expr, sc) == Range(sc.file.tags) \cap Tags \in Compile(expr).sat

Selected ==
  LET scs == Range(set.scenarios)  flags == case.flags
  IN Filter(SelectScenarios(set.scenarios, flags.targets),
            {sc \in scs : Given(flags.include) => Matches(flags.include, sc)},
            {sc \in scs : Given(flags.exclude) /\ Matches(flags.exclude, sc)})

Refusal ==
  IF \/ OverlayRefused(case.dotenv, case.explicit)
     \/ MissingEnv(Project.env, case.process, OverlayOf(case.dotenv)) # {} THEN "env"
  ELSE IF OutputRefused(Project.output, case.flags) THEN "output"
  ELSE IF UnknownTarget(set.scenarios, case.flags.targets) THEN "target"
  ELSE IF Malformed(case.flags.include) \/ Malformed(case.flags.exclude) THEN "tags"
  ELSE "none"

(* A registry that cannot be built makes the scenario ERRORED.             *)
Launch(scs) ==
  LET sc == scs[1].file IN
  /\ chosen' = scs
  /\ IF scs = <<>> \/ NewErrors(set.providers, Merged(sc)) # {}
     THEN phase' = "end" /\ sections' = <<>> /\ UNCHANGED specs
     ELSE LET secs == Sections(sc)
          IN /\ phase' = "run"
             /\ specs' = Specs(Instances(set.providers, Merged(sc)))
             /\ sections' = <<secs[1], secs[2], secs[3],
                              [name |-> "recovery", steps |-> sc.steady], secs[4], secs[5]>>

(* cmdRun up to the first step: what refuses a run, in the code's order.   *)
Settle ==
  /\ phase = "settle"
  /\ IF Refusal # "none"
     THEN phase' = Refusal /\ UNCHANGED <<chosen, specs, sections>>
     ELSE Launch(Selected)
  /\ UNCHANGED <<case, set, findings, stack, missed, lost, unbound, clean, did>>

-----------------------------------------------------------------------------
(* A frame: the steps to come, what its scope binds and what was bound     *)
(* since its runner was made, whether it ends at the first failure; for a  *)
(* branch, the ones after it and what the ones before it bound.            *)
Frame(kind, todo, outputs, params, stop, via) ==
  [kind |-> kind, todo |-> todo, outputs |-> outputs, writes |-> {}, params |-> params, stop |-> stop,
   via |-> via, failed |-> FALSE, rest |-> <<>>, wrote |-> {}]

Top == Last(stack)
Below == stack[Len(stack) - 1]
Replace(f) == [stack EXCEPT ![Len(stack)] = f]
Push(f) == Append(stack, f)
Step0 == Head(Top.todo)

AllBinds(steps) ==
  LET bound[st \in Steps] == st.binds \cup UNION {bound[s] : s \in Range(st.do) \cup Inner(st)}
  IN UNION {bound[s] : s \in Range(steps)}

Scope(f) ==
  {<<"outputs", n>> : n \in f.outputs} \cup {<<"params", n>> : n \in f.params}
  \cup {<<"vars", n>> : n \in Project.vars \cup Scenario.vars}
  \cup {<<"env", n>> : n \in DOMAIN ResolveEnv(Project.env, case.process, OverlayOf(case.dotenv))}

(* The caller's vars are in a composed verb's scope too, and validate says *)
(* it cannot know their names there.                                       *)
Dangling(exprs, f) ==
  {r \in Names(exprs) \ (Unseen(exprs) \cup Scope(f)) : f.kind = "macro" => r[1] # "vars"}

(* The step at the head of f is over.  ok: its verb passed; bad: it counts *)
(* as a failure of the frame.                                              *)
After(f, ok, bad, binds) ==
  [f EXCEPT !.outputs = IF ok THEN @ \cup binds ELSE @,
            !.writes = IF ok THEN @ \cup binds ELSE @,
            !.failed = @ \/ bad,
            !.todo = IF bad /\ f.stop THEN <<>> ELSE Tail(@)]

MissedBy(f, ok, bad) ==
  (IF ok THEN {} ELSE AllBinds(<<Head(f.todo)>>))
  \cup (IF bad /\ f.stop THEN AllBinds(Tail(f.todo)) ELSE {})

(* judge: a finding that fails is no failure, one that passes is.          *)
Judged(f, ok) == IF Head(f.todo).finding /\ f.kind # "macro" THEN ok ELSE ~ok

EndStep(base, f, ok, bad, binds) ==
  /\ stack' = Append(base, After(f, ok, bad, binds))
  /\ missed' = missed \cup MissedBy(f, ok, bad)
  /\ clean' = (clean /\ ok /\ ~bad)
  /\ UNCHANGED <<case, phase, set, findings, chosen, specs, sections, lost>>

At == phase = "run" /\ stack # <<>> /\ Top.todo # <<>>

Kind(st) == IF st.kind # "" THEN st.kind ELSE specs[st.run].kind
Block(st) == st.run \in {<<"parallel">>, <<"repeat">>}

(* The guard is read before anything else.  validate does not look at the  *)
(* guard of a block, nor at one of a scenario's step that does not resolve.*)
Looked(st) == Top.kind = "macro" \/ (st.run \in DOMAIN specs /\ ~Block(st))
ReadGuard == unbound' = unbound \cup (IF Looked(Step0) THEN Dangling(Step0.guard, Top) ELSE {})

(* ... then with: at once, the nested step's included.                     *)
ReadAll == unbound' = unbound \cup Dangling(ExprsOf(Step0), Top)

(* when: null and false skip the step; anything else lets it run.          *)
GuardSkips ==
  /\ At /\ Step0.when = "refs"
  /\ ReadGuard
  /\ EndStep(Front(stack), Top, FALSE, FALSE, {})
  /\ UNCHANGED did

DrySkips(st) ==
  case.flags.dryRun /\ Top.kind # "macro" /\ ~Block(st) /\ Kind(st) = "action"

DrySkip ==
  /\ At /\ Step0.run \in DOMAIN specs /\ DrySkips(Step0)
  /\ ReadGuard
  /\ EndStep(Front(stack), Top, FALSE, FALSE, {})
  /\ UNCHANGED did

Runs(st) == st.run \in DOMAIN specs /\ ~DrySkips(st) /\ ~Block(st)

(* skipOrFail: the guard or with: does not evaluate, or run: resolves to   *)
(* nothing.  onAbsent is the envelope's: a composed verb's body has none.  *)
Unevaluated ==
  /\ At
  /\ \/ (Step0.guard # {} \/ Step0.run \notin DOMAIN specs) /\ ReadGuard
     \/ Runs(Step0) /\ ExprsOf(Step0) # Step0.guard /\ ReadAll
  /\ EndStep(Front(stack), Top, FALSE, ~(Step0.absent /\ Top.kind # "macro"), {})
  /\ UNCHANGED did

-----------------------------------------------------------------------------
WellFormed(st) ==
  IF st.run = <<"parallel">> THEN st.branches # <<>> /\ <<>> \notin Range(st.branches)
  ELSE st.times >= 1 /\ st.do # <<>>

Branch(f, branches) ==
  [Frame("branch", branches[1], f.outputs, f.params, TRUE, f.via) EXCEPT !.rest = Tail(branches)]

Times(st) == IF case.flags.dryRun THEN 1 ELSE st.times

Copies(do, n) ==
  LET copies[k \in 0..n] == IF k = 0 THEN <<>> ELSE do \o copies[k - 1] IN copies[n]

Body(f, st) ==
  [Frame("body", Copies(st.do, Times(st)), f.outputs, f.params, st.stopOnFail, f.via)
     EXCEPT !.writes = f.writes]

(* A block opens before anything of its envelope is looked at; the body of *)
(* a composed verb knows no blocks.                                        *)
OpenBlock ==
  /\ At /\ Block(Step0)
  /\ ReadGuard
  /\ IF Top.kind = "macro" \/ ~WellFormed(Step0)
     THEN EndStep(Front(stack), Top, FALSE, TRUE, {})
     ELSE /\ stack' = Push(IF Step0.run = <<"parallel">> THEN Branch(Top, Step0.branches)
                           ELSE Body(Top, Step0))
          /\ UNCHANGED <<case, phase, set, findings, chosen, specs, sections, missed, lost, clean>>
  /\ UNCHANGED did

(* A branch hands on what its own steps bound: not what it was given, nor  *)
(* what a block inside it was handed.                                      *)
Handed == Top.wrote \cup Top.writes
Ends(kind) == phase = "run" /\ stack # <<>> /\ Top.kind = kind /\ Top.todo = <<>>
Loses == lost' = lost \cup (Top.outputs \ (Below.outputs \cup Handed))

NextBranch ==
  /\ Ends("branch") /\ Top.rest # <<>>
  /\ stack' = Replace([Branch(Below, Top.rest) EXCEPT !.wrote = Handed, !.failed = Top.failed])
  /\ Loses
  /\ UNCHANGED <<case, phase, set, findings, chosen, specs, sections, missed, unbound, clean, did>>

CloseBlock(merged) ==
  /\ stack' = Append(SubSeq(stack, 1, Len(stack) - 2), After(merged, TRUE, Top.failed, {}))
  /\ missed' = missed \cup MissedBy(merged, TRUE, Top.failed)
  /\ clean' = (clean /\ ~Top.failed)
  /\ UNCHANGED <<case, phase, set, findings, chosen, specs, sections, unbound, did>>

(* The join: what any branch hands on is the parent's, failed or not.      *)
JoinBranches ==
  /\ Ends("branch") /\ Top.rest = <<>>
  /\ CloseBlock([Below EXCEPT !.outputs = @ \cup Handed])
  /\ Loses

(* A repeat body runs in the block's own runner.                           *)
EndRepeat ==
  /\ Ends("body")
  /\ CloseBlock([Below EXCEPT !.outputs = Top.outputs, !.writes = Top.writes])
  /\ UNCHANGED lost

-----------------------------------------------------------------------------
(* What running a verb really does to the system, kinds set aside; calls   *)
(* says it of the steps of composed verbs.                                 *)
Changing(calls) ==
  LET changes[st \in Steps] ==
        /\ st.run \in DOMAIN specs
        /\ IF IsComposed(Insts, st.run) THEN \E s \in Range(Nested(Insts, st)) : calls[s]
           ELSE IF Dotted(st.run) THEN specs[st.run].sideEffects
           ELSE \E s \in Range(st.nested) : changes[s]
  IN changes

(* What a builtin runs may call a composed verb, and that another one.     *)
Changes(st) == Changing(Changing(Changing([s \in Steps |-> FALSE])))[st]

(* Why a change was made: its step or the verb it is in has a kind: of its *)
(* own, a wait_until or sample polled it, or plainly.                      *)
Via(st) == IF st.kind # "" THEN "declared" ELSE Top.via
Why(st) == IF st.run \in {<<"wait_until">>, <<"sample">>} /\ Via(st) = "plain" THEN "polled" ELSE Via(st)

CallFails ==
  /\ At /\ Runs(Step0) /\ ~Binds(specs[Step0.run], Step0.with)
  /\ ReadAll
  /\ EndStep(Front(stack), Top, FALSE, Judged(Top, FALSE), {})
  /\ UNCHANGED did

CallVerb ==
  /\ At /\ Runs(Step0) /\ Binds(specs[Step0.run], Step0.with)
  /\ ~IsComposed(Insts, Step0.run)
  /\ ReadAll
  /\ did' = did \cup (IF Changes(Step0) THEN {Why(Step0)} ELSE {})
  /\ \E ok \in BOOLEAN : EndStep(Front(stack), Top, ok, Judged(Top, ok), Step0.binds)

(* A composed verb: params and nothing else of the caller's captures.      *)
CallComposed ==
  /\ At /\ Runs(Step0) /\ Binds(specs[Step0.run], Step0.with)
  /\ IsComposed(Insts, Step0.run)
  /\ ReadAll
  /\ LET cv == Verbs(Insts[Step0.run[1]])[Step0.run[2]]
     IN stack' = Push(Frame("macro", cv.body, {}, Range(cv.params), TRUE, Via(Step0)))
  /\ UNCHANGED <<case, phase, set, findings, chosen, specs, sections, missed, lost, clean, did>>

(* Of a verb that passed, the captures may still not evaluate.             *)
ReturnComposed ==
  /\ Ends("macro")
  /\ \E ok \in {FALSE, ~Top.failed} :
       EndStep(SubSeq(stack, 1, Len(stack) - 2), Below, ok, Judged(Below, ok), Head(Below.todo).binds)
  /\ UNCHANGED <<unbound, did>>

-----------------------------------------------------------------------------
Stops(name) == name \in {"setup", "steadyState", "method"}

OpenSection ==
  /\ phase = "run" /\ sections # <<>> /\ stack = <<>>
  /\ stack' = <<Frame("section", Head(sections).steps, {}, {}, Stops(Head(sections).name), "plain")>>
  /\ UNCHANGED <<case, phase, set, findings, chosen, specs, sections, missed, lost, unbound, clean, did>>

(* Captures pass from section to section; a failure before the recovery    *)
(* pass leaves teardown only.                                              *)
NextSection ==
  /\ phase = "run" /\ Len(stack) = 1 /\ Top.todo = <<>>
  /\ LET cut == Top.failed /\ Top.stop
         left == IF cut THEN <<Last(sections)>> ELSE Tail(sections)
     IN IF left = <<>>
        THEN /\ phase' = "end" /\ stack' = <<>> /\ sections' = <<>> /\ UNCHANGED missed
        ELSE /\ sections' = left
             /\ stack' = <<Frame("section", left[1].steps, Top.outputs, {}, Stops(left[1].name), "plain")>>
             /\ missed' = IF cut THEN missed \cup UNION {AllBinds(s.steps) : s \in Range(Front(Tail(sections)))}
                          ELSE missed
             /\ UNCHANGED phase
  /\ UNCHANGED <<case, set, findings, chosen, specs, lost, unbound, clean, did>>

Next ==
  \/ LoadProject \/ ValidateProject \/ Settle
  \/ OpenSection \/ NextSection
  \/ GuardSkips \/ DrySkip \/ Unevaluated
  \/ OpenBlock \/ NextBranch \/ JoinBranches \/ EndRepeat
  \/ CallFails \/ CallVerb \/ CallComposed \/ ReturnComposed

Spec == Init /\ [][Next]_vars

-----------------------------------------------------------------------------
Errors(fs) == {f \in fs : f.severity = "error"}
Validated == phase \notin {"load", "validate", "refused"}

(* validate promises that every ${...} it looks at resolves: those of a    *)
(* with:, and of the guard of a step that is no block and resolves.  When  *)
(* it reports no error, such a reference that is read at run time and is   *)
(* not bound is to a capture whose own step was skipped, failed or was not *)
(* reached, or one a branch did not hand on: in blocks, bodies and         *)
(* composed verbs alike.                                                   *)
ValidatedReadsResolve ==
  Validated /\ Errors(findings.project \cup findings.scenarios) = {} =>
    \A r \in unbound : r[1] = "outputs" /\ r[2] \in missed \cup lost

RepeatInBranch(steps) ==
  LET repeats[s \in Steps] == s.run = <<"repeat">> \/ \E t \in Inner(s) : repeats[t]
      inBranch[s \in Steps] == (\E t \in Inner(s) : repeats[t]) \/ \E t \in Range(s.do) : inBranch[t]
  IN \E s \in Range(steps) : inBranch[s]

(* The other way round: a capture validate reports as read too early, in a *)
(* sibling branch or never bound is unbound when a run with no failure and *)
(* no skip reads it.  Not so for what a repeat inside a branch binds:      *)
(* collectBindings does not look into it, and a later reader is reported   *)
(* although it finds the capture.                                          *)
RejectedForAReason ==
  phase = "end" /\ clean /\ Len(chosen) = 1 /\ Len(set.scenarios) = 1
  /\ Errors(findings.project) = {}
  /\ (\A f \in Errors(findings.scenarios) : f.ref # <<>> /\ f.ref[1] = "outputs" /\ f.ref[2] # "")
  /\ ~(\E s \in Range(Sections(Scenario)) : RepeatInBranch(s.steps))
  => \A f \in Errors(findings.scenarios) : f.ref \in unbound

(* A dry run skips actions.  What it executes changes the system only      *)
(* where the author's kind: says it does not, or through the probe of a    *)
(* wait_until or sample, whose own kind nothing looks at.                  *)
DryRunMutatesNothing == case.flags.dryRun => "plain" \notin did

(* The output: block of a project without errors never stops a run, and    *)
(* one that is enabled without an endpoint stops every run but one that    *)
(* names an endpoint itself.                                               *)
OutputAsValidated ==
  LET rules == {f.rule : f \in findings.project}
  IN /\ phase = "output" => rules \cap {17, 18} # {}
     /\ 17 \in rules /\ case.flags.otlp = "" => phase \notin {"run", "end", "tags", "target"}

(* A tag expression selects what it means by its outermost operators, and  *)
(* exactly what has no meaning is refused; exclude wins over include.      *)
SelectionAgrees ==
  LET means(expr, sc) == Range(sc.file.tags) \cap Tags \in UNION Meaning(expr)
      flags == case.flags
      wanted(sc) == /\ Given(flags.include) => means(flags.include, sc)
                    /\ Given(flags.exclude) => ~means(flags.exclude, sc)
  IN /\ phase = "tags" => \E e \in {flags.include, flags.exclude} : Given(e) /\ Meaning(e) = {}
     /\ phase \in {"run", "end"} =>
          /\ \A e \in {flags.include, flags.exclude} : Given(e) => Meaning(e) # {}
          /\ Range(chosen) = {sc \in Range(SelectScenarios(set.scenarios, flags.targets)) : wanted(sc)}
=============================================================================
